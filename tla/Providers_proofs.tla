--------------------------- MODULE Providers_proofs ----------------------------
(* Proofs about what the pages configure: providers, the default model, the   *)
(* downloads of models and the updates of the application, for every number   *)
(* of rows, requests, models and downloads. Each part is about one            *)
(* component, has an inductive invariant of its own and mentions no other.    *)
EXTENDS ProviderDesk, AsrProviders, SettingsDesk, ModelDesk, ModelCatalog,
        AppUpdates, SequenceTheorems, FiniteSetTheorems, WellFoundedInduction, TLAPS

--------------------------------------------------------------------------------
(* ProviderDesk: a configuration that is applied is the one that was          *)
(* tested.                                                                    *)

LlmRow == [endpoint : Endpoints \cup {"none"}, compatibility : Tunings \cup {"none"},
        updated_at : Nat]

Owners == LLMs \cup {Nobody}

DeskType ==
  /\ llmRows \in [LLMs -> LlmRow] /\ providerItems \in [LLMs -> LlmRow] /\ updates \in Nat
  /\ llmForm \in [of : Owners, fields : LlmRow]
  /\ rowSave \in [step : {"none", "asked", "saved"}, of : Owners, fields : LlmRow]
  /\ probe \in [step : {"none", "asked", "reading"}, of : Owners, on : LlmRow]
  /\ probe.step # "none" => probe.of \in LLMs
  /\ result \in [of : Owners, on : LlmRow]
  /\ storing \in [step : {"none", "asked", "stored"}, to : Owners, of : Owners, on : LlmRow,
                 compatibility : Tunings \cup {"none"}, expected : Nat]

(* A copy of the row of p is not younger than the clock, and where a table    *)
(* has its date, it has the copy, for p.                                      *)
Agrees(p, row, table) ==
  \A q \in LLMs : table[q].updated_at = row.updated_at => q = p /\ table[q] = row
Copy(p, row, table, clock) ==
  p \in LLMs /\ row.updated_at \in 1..clock /\ Agrees(p, row, table)
Agreed(p, row) == Copy(p, row, llmRows, updates) /\ Agrees(p, row, providerItems)

RowsAgree == \A p \in LLMs : llmRows[p] # NoRow => Agreed(p, llmRows[p])
ItemsAgree == \A p \in LLMs : providerItems[p].updated_at <= updates
ProbeAgrees == probe.step = "reading" => Agreed(probe.of, probe.on)
ResultAgrees == result # NoResult => Agreed(result.of, result.on)
StoringAgrees ==
  storing.step = "asked" => /\ Copy(storing.of, storing.on, llmRows, updates)
                            /\ storing.to = storing.of
                            /\ storing.expected = storing.on.updated_at

DeskInv == DeskType /\ RowsAgree /\ ItemsAgree /\ ProbeAgrees /\ ResultAgrees /\ StoringAgrees

LEMMA NoRowType == NoRow \in LlmRow /\ NoRow.updated_at = 0
  BY DEF NoRow, LlmRow, Tunings

LEMMA InitAgrees == ProviderInit => DeskInv
  <1> SUFFICES ASSUME ProviderInit PROVE DeskInv
    OBVIOUS
  <1> PICK p \in LLMs, e \in Endpoints :
         llmRows = [q \in LLMs |-> IF q = p
           THEN [endpoint |-> e, compatibility |-> "default", updated_at |-> 1] ELSE NoRow]
    BY DEF ProviderInit
  <1> DEFINE first == [endpoint |-> e, compatibility |-> "default", updated_at |-> 1]
  <1>1. first \in LlmRow /\ first.updated_at = 1
    BY DEF LlmRow, Tunings
  <1> HIDE DEF first
  <1>2. llmRows = [q \in LLMs |-> IF q = p THEN first ELSE NoRow]
    BY DEF first
  <1>3. DeskType
    <2>1. /\ NoForm \in [of : Owners, fields : LlmRow]
          /\ NotSavingRow \in [step : {"none", "asked", "saved"}, of : Owners, fields : LlmRow]
          /\ NoProbe \in [step : {"none", "asked", "reading"}, of : Owners, on : LlmRow]
          /\ NoProbe.step = "none" /\ NoResult \in [of : Owners, on : LlmRow]
          /\ NotStoring \in [step : {"none", "asked", "stored"}, to : Owners, of : Owners,
                            on : LlmRow, compatibility : Tunings \cup {"none"}, expected : Nat]
      BY NoRowType DEF NoForm, NotSavingRow, NoProbe, NoResult, NotStoring, Owners
    <2> QED
      BY <1>1, <1>2, <2>1, NoRowType DEF ProviderInit, DeskType
  <1>4. RowsAgree
    BY <1>1, <1>2, NoRowType DEF ProviderInit, RowsAgree, Agreed, Copy, Agrees
  <1>5. ItemsAgree
    BY NoRowType DEF ProviderInit, ItemsAgree
  <1>6. ProbeAgrees /\ ResultAgrees /\ StoringAgrees
    BY DEF ProviderInit, ProbeAgrees, ResultAgrees, StoringAgrees, NoProbe, NotStoring
  <1> QED
    BY <1>3, <1>4, <1>5, <1>6 DEF DeskInv

(* A write of the table: a row is deleted, or gets the next date.             *)
Writes(p) ==
  /\ updates' \in {updates, updates + 1} /\ llmRows' \in [LLMs -> LlmRow]
  /\ \A q \in LLMs : \/ llmRows'[q] = llmRows[q] \/ llmRows'[q] = NoRow
                     \/ q = p /\ updates' = updates + 1 /\ llmRows'[q].updated_at = updates'

(* Copies outlive what is written.                                            *)
LEMMA CopyOutlives ==
  ASSUME DeskType, NEW p, Writes(p), NEW o, NEW row \in LlmRow, Copy(o, row, llmRows, updates)
  PROVE  Copy(o, row, llmRows', updates')
  <1>1. row.updated_at \in 1..updates /\ o \in LLMs
    BY DEF Copy
  <1>2. updates \in Nat /\ updates' \in Nat /\ updates <= updates'
    BY DEF DeskType, Writes
  <1>3. ASSUME NEW q \in LLMs, llmRows'[q].updated_at = row.updated_at
        PROVE  q = o /\ llmRows'[q] = row
    <2>1. llmRows'[q] # NoRow
      BY <1>1, <1>3, NoRowType
    <2>2. ~(updates' = updates + 1 /\ llmRows'[q].updated_at = updates')
      BY <1>1, <1>2, <1>3
    <2>3. llmRows'[q] = llmRows[q]
      BY <2>1, <2>2 DEF Writes
    <2> QED
      BY <1>3, <2>3 DEF Copy, Agrees
  <1>4. row.updated_at \in 1..updates'
    BY <1>1, <1>2
  <1> QED
    BY <1>1, <1>3, <1>4 DEF Copy, Agrees

(* What the window holds agrees with the table after a write, when none of it *)
(* changes but the form and the steps of the mutations.                       *)
LEMMA WriteKeeps ==
  ASSUME DeskInv, NEW p, Writes(p), UNCHANGED <<providerItems, probe, result>>,
         DeskType', StoringAgrees'
  PROVE  DeskInv'
  <1>1. \A o, row : row \in LlmRow /\ Agreed(o, row) =>
          Copy(o, row, llmRows', updates') /\ Agrees(o, row, providerItems')
    BY CopyOutlives DEF DeskInv, Agreed
  <1>2. ProbeAgrees'
    BY <1>1 DEF DeskInv, DeskType, ProbeAgrees, Agreed
  <1>3. ResultAgrees'
    BY <1>1 DEF DeskInv, DeskType, ResultAgrees, Agreed
  <1>4. updates \in Nat /\ updates' \in Nat /\ updates <= updates'
    BY DEF DeskInv, DeskType, Writes
  <1>5. \A q \in LLMs : providerItems[q].updated_at \in 0..updates
    BY DEF DeskInv, DeskType, ItemsAgree, LlmRow
  <1>6. ItemsAgree'
    BY <1>4, <1>5 DEF ItemsAgree
  <1>7. RowsAgree'
    <2> SUFFICES ASSUME NEW q \in LLMs, llmRows'[q] # NoRow
                 PROVE  /\ Copy(q, llmRows'[q], llmRows', updates')
                        /\ Agrees(q, llmRows'[q], providerItems')
      BY DEF RowsAgree, Agreed
    <2>1. CASE llmRows'[q] = llmRows[q]
      BY <1>1, <2>1 DEF DeskInv, DeskType, RowsAgree
    <2>2. CASE q = p /\ updates' = updates + 1 /\ llmRows'[q].updated_at = updates'
      <3>1. ASSUME NEW s \in LLMs, llmRows'[s].updated_at = updates'
            PROVE  s = q
        <4>1. llmRows'[s] # NoRow
          BY <1>4, <2>2, <3>1, NoRowType
        <4>2. llmRows[s] # NoRow => llmRows[s].updated_at \in 1..updates
          BY DEF DeskInv, RowsAgree, Agreed, Copy
        <4>3. llmRows'[s] # llmRows[s]
          BY <1>4, <2>2, <3>1, <4>1, <4>2
        <4> QED
          BY <2>2, <4>1, <4>3 DEF Writes
      <3>2. Agrees(q, llmRows'[q], llmRows')
        BY <2>2, <3>1 DEF Agrees
      <3>3. \A s \in LLMs : providerItems'[s].updated_at # llmRows'[q].updated_at
        BY <1>4, <1>5, <2>2
      <3>4. Agrees(q, llmRows'[q], providerItems')
        BY <3>3 DEF Agrees
      <3>5. llmRows'[q].updated_at \in 1..updates'
        BY <1>4, <2>2
      <3> QED
        BY <3>2, <3>4, <3>5 DEF Copy
    <2> QED
      BY <2>1, <2>2 DEF Writes
  <1> QED
    BY <1>2, <1>3, <1>6, <1>7 DEF DeskInv

(* Steps that leave the table and the list alone need only say what they do   *)
(* to the copies.                                                             *)
LEMMA LocalKeeps ==
  ASSUME DeskInv, UNCHANGED <<llmRows, updates, providerItems>>,
         DeskType', ProbeAgrees', ResultAgrees', StoringAgrees'
  PROVE  DeskInv'
  BY DEF DeskInv, RowsAgree, ItemsAgree, Agreed

LEMMA EditKeeps ==
  ASSUME DeskInv, UNCHANGED <<llmRows, updates, providerItems, probe, result, storing>>,
         llmForm' \in [of : Owners, fields : LlmRow],
         rowSave' \in [step : {"none", "asked", "saved"}, of : Owners, fields : LlmRow]
  PROVE  DeskInv'
  <1>1. DeskType'
    BY DEF DeskInv, DeskType
  <1>2. ProbeAgrees' /\ ResultAgrees' /\ StoringAgrees'
    BY DEF DeskInv, ProbeAgrees, ResultAgrees, StoringAgrees, Agreed
  <1> QED
    BY <1>1, <1>2, LocalKeeps

LEMMA SelectedIsListable ==
  ASSUME NEW items, NEW id
  PROVE  Selected(items, id) \in Owners /\ (Selected(items, id) # Nobody =>
           Selected(items, id) \in LLMs /\ items[Selected(items, id)] # NoRow)
  BY DEF Selected, Listable, Owners

LEMMA ShownIsListed ==
  ShownProvider # Nobody => ShownProvider \in LLMs /\ providerItems[ShownProvider] # NoRow
  BY SelectedIsListable DEF ShownProvider

LEMMA ListedKeeps == DeskInv /\ ProvidersListed => DeskInv'
  <1> SUFFICES ASSUME DeskInv, ProvidersListed PROVE DeskInv'
    OBVIOUS
  <1> DEFINE to == Selected(llmRows, selectedProviderId)
  <1>1. /\ providerItems' = llmRows /\ UNCHANGED <<llmRows, updates, rowSave>>
        /\ llmRows \in [LLMs -> LlmRow] /\ updates \in Nat
        /\ rowSave \in [step : {"none", "asked", "saved"}, of : Owners, fields : LlmRow]
    BY DEF ProvidersListed, DeskInv, DeskType
  <1>2. /\ \/ UNCHANGED <<probe, result, storing>>
           \/ probe' = NoProbe /\ result' = NoResult /\ storing' = NotStoring
    BY DEF ProvidersListed
  <1>3. llmForm' \in [of : Owners, fields : LlmRow]
    <2>1. \/ llmForm' = llmForm
          \/ llmForm' = NoForm
          \/ to # Nobody /\ llmForm' = [of |-> to, fields |-> llmRows[to]]
      <3>1. llmForm' = IF llmForm.of = Nobody THEN llmForm
                       ELSE IF to = Nobody THEN NoForm
                       ELSE IF to = llmForm.of /\ llmRows[to] = providerItems[to] THEN llmForm
                       ELSE [of |-> to, fields |-> llmRows[to]]
        BY Zenon DEF ProvidersListed
      <3> HIDE DEF to
      <3> QED
        BY <3>1
    <2>2. NoForm \in [of : Owners, fields : LlmRow]
      BY NoRowType DEF NoForm, Owners
    <2>3. to # Nobody => to \in LLMs
      BY SelectedIsListable
    <2> HIDE DEF to
    <2>4. to # Nobody => [of |-> to, fields |-> llmRows[to]] \in [of : Owners, fields : LlmRow]
      BY <1>1, <2>3 DEF Owners
    <2> QED
      BY <2>1, <2>2, <2>4 DEF DeskInv, DeskType
  <1>4. /\ NoProbe \in [step : {"none", "asked", "reading"}, of : Owners, on : LlmRow]
        /\ NoProbe.step = "none" /\ NoResult \in [of : Owners, on : LlmRow]
        /\ NotStoring \in [step : {"none", "asked", "stored"}, to : Owners, of : Owners,
                          on : LlmRow, compatibility : Tunings \cup {"none"}, expected : Nat]
        /\ NotStoring.step = "none"
    BY NoRowType DEF NoProbe, NoResult, NotStoring, Owners
  <1>5. DeskType'
    BY <1>1, <1>2, <1>3, <1>4 DEF DeskInv, DeskType
  <1>6. ItemsAgree'
    <2> SUFFICES ASSUME NEW p \in LLMs PROVE llmRows[p].updated_at <= updates
      BY <1>1 DEF ItemsAgree
    <2>1. llmRows[p] # NoRow => llmRows[p].updated_at \in 1..updates
      BY DEF DeskInv, RowsAgree, Agreed, Copy
    <2> QED
      BY <1>1, <2>1, NoRowType
  <1>7. RowsAgree'
    BY <1>1 DEF DeskInv, RowsAgree, Agreed, Copy
  <1>8. ProbeAgrees' /\ ResultAgrees' /\ StoringAgrees'
    BY <1>1, <1>2, <1>4
    DEF DeskInv, ProbeAgrees, ResultAgrees, StoringAgrees, Agreed, Copy
  <1> QED
    BY <1>5, <1>6, <1>7, <1>8 DEF DeskInv

LEMMA FormsKeep ==
  ASSUME DeskInv,
         \/ \E p \in LLMs : SelectProvider(p)
         \/ OpenForm \/ EditForm \/ CloseForm \/ SubmitForm \/ FormSaved \/ RowSaveFails
         \/ AskRemove \/ KeepRow \/ ConfirmRemove
         \/ \E p \in LLMs : DeletionFails(p)
  PROVE  DeskInv'
  <1>1. UNCHANGED <<llmRows, updates, providerItems, probe, result, storing>>
    BY DEF SelectProvider, OpenForm, EditForm, CloseForm, SubmitForm, FormSaved, RowSaveFails,
           AskRemove, KeepRow, ConfirmRemove, DeletionFails, listVars, probeVars
  <1>2. /\ llmForm \in [of : Owners, fields : LlmRow]
        /\ rowSave \in [step : {"none", "asked", "saved"}, of : Owners, fields : LlmRow]
        /\ providerItems \in [LLMs -> LlmRow]
    BY DEF DeskInv, DeskType
  <1>3. /\ NoForm \in [of : Owners, fields : LlmRow]
        /\ NotSavingRow \in [step : {"none", "asked", "saved"}, of : Owners, fields : LlmRow]
    BY NoRowType DEF NoForm, NotSavingRow, Owners
  <1>4. CASE UNCHANGED <<llmForm, rowSave>>
    BY <1>1, <1>2, <1>4, EditKeeps
  <1>5. CASE OpenForm
    <2>1. ShownProvider \in LLMs
      BY <1>5, ShownIsListed DEF OpenForm
    <2>2. llmForm' \in [of : Owners, fields : LlmRow]
      BY <1>2, <1>5, <2>1 DEF OpenForm, Owners
    <2> QED
      BY <1>1, <1>2, <1>5, <2>2, EditKeeps DEF OpenForm
  <1>6. CASE EditForm
    <2>1. \A e \in Endpoints :
            [llmForm EXCEPT !.fields.endpoint = e] \in [of : Owners, fields : LlmRow]
      BY <1>2 DEF LlmRow
    <2>2. "default" \in Tunings
      BY DEF Tunings
    <2>3. llmForm' \in [of : Owners, fields : LlmRow]
      <3>1. \/ \E e \in Endpoints : llmForm' = [llmForm EXCEPT !.fields.endpoint = e]
            \/ llmForm' = [llmForm EXCEPT !.fields.compatibility = "default"]
        BY <1>6 DEF EditForm
      <3>2. CASE \E e \in Endpoints : llmForm' = [llmForm EXCEPT !.fields.endpoint = e]
        BY <2>1, <2>2, <3>2
      <3>3. CASE llmForm' = [llmForm EXCEPT !.fields.compatibility = "default"]
        <4>1. [llmForm EXCEPT !.fields.compatibility = "default"] \in [of : Owners, fields : LlmRow]
          BY <1>2, <2>2 DEF LlmRow
        <4> QED
          BY <3>3, <4>1
      <3> QED
        BY <3>1, <3>2, <3>3
    <2> QED
      BY <1>1, <1>2, <1>6, <2>3, EditKeeps DEF EditForm
  <1>7. CASE CloseForm
    BY <1>1, <1>2, <1>3, <1>7, EditKeeps DEF CloseForm
  <1>8. CASE SubmitForm
    <2>1. rowSave' \in [step : {"none", "asked", "saved"}, of : Owners, fields : LlmRow]
      BY <1>2, <1>8 DEF SubmitForm
    <2> QED
      BY <1>1, <1>2, <1>8, <2>1, EditKeeps DEF SubmitForm
  <1>9. CASE FormSaved \/ RowSaveFails
    BY <1>1, <1>2, <1>3, <1>9, EditKeeps DEF FormSaved, RowSaveFails
  <1> QED
    BY <1>4, <1>5, <1>6, <1>7, <1>8, <1>9 DEF SelectProvider, AskRemove, KeepRow, ConfirmRemove,
       DeletionFails, editVars

(* Steps of the test and of applying its result that write nothing.           *)
LEMMA TestsKeep ==
  ASSUME DeskInv,
         \/ StartProbe \/ ProbeReads \/ ProbePasses \/ ProbeFails \/ ApplyTested
         \/ TestedStored \/ ApplyRefused
  PROVE  DeskInv'
  <1>1. UNCHANGED <<llmRows, updates, providerItems, llmForm, rowSave>>
    BY DEF StartProbe, ProbeReads, ProbePasses, ProbeFails, ApplyTested, TestedStored,
           ApplyRefused, listVars, editVars
  <1>2. /\ llmRows \in [LLMs -> LlmRow] /\ providerItems \in [LLMs -> LlmRow] /\ updates \in Nat
        /\ probe \in [step : {"none", "asked", "reading"}, of : Owners, on : LlmRow]
        /\ probe.step # "none" => probe.of \in LLMs
        /\ result \in [of : Owners, on : LlmRow]
        /\ storing \in [step : {"none", "asked", "stored"}, to : Owners, of : Owners, on : LlmRow,
                       compatibility : Tunings \cup {"none"}, expected : Nat]
    BY DEF DeskInv, DeskType
  <1>3. /\ NoProbe \in [step : {"none", "asked", "reading"}, of : Owners, on : LlmRow]
        /\ NoProbe.step = "none" /\ NoResult \in [of : Owners, on : LlmRow]
        /\ NotStoring \in [step : {"none", "asked", "stored"}, to : Owners, of : Owners,
                          on : LlmRow, compatibility : Tunings \cup {"none"}, expected : Nat]
        /\ NotStoring.step = "none"
    BY NoRowType DEF NoProbe, NoResult, NotStoring, Owners
  <1>4. ProbeAgrees /\ ResultAgrees /\ StoringAgrees /\ RowsAgree
    BY DEF DeskInv
  <1>5. CASE StartProbe
    <2>1. ShownProvider \in LLMs
      BY <1>5, ShownIsListed DEF StartProbe
    <2>2. /\ probe' \in [step : {"none", "asked", "reading"}, of : Owners, on : LlmRow]
          /\ probe'.step = "asked" /\ probe'.of \in LLMs
      BY <1>5, <2>1, NoRowType DEF StartProbe, Owners
    <2>3. result' = NoResult /\ storing' = storing /\ storing.step = "none"
      BY <1>5 DEF StartProbe
    <2>4. DeskType'
      BY <1>1, <1>2, <1>3, <2>2, <2>3 DEF DeskInv, DeskType
    <2>5. ProbeAgrees' /\ ResultAgrees' /\ StoringAgrees'
      BY <2>2, <2>3 DEF ProbeAgrees, ResultAgrees, StoringAgrees
    <2> QED
      BY <1>1, <2>4, <2>5, LocalKeeps
  <1>6. CASE ProbeReads
    <2>1. /\ probe.of \in LLMs /\ llmRows[probe.of] # NoRow
          /\ UNCHANGED <<result, storing>>
      BY <1>2, <1>6 DEF ProbeReads
    <2>2. /\ probe' \in [step : {"none", "asked", "reading"}, of : Owners, on : LlmRow]
          /\ probe'.of = probe.of /\ probe'.on = llmRows[probe.of]
      BY <1>2, <1>6, <2>1 DEF ProbeReads
    <2>3. DeskType'
      BY <1>1, <1>2, <2>1, <2>2 DEF DeskInv, DeskType
    <2>4. ProbeAgrees' /\ ResultAgrees' /\ StoringAgrees'
      BY <1>1, <1>4, <2>1, <2>2
      DEF RowsAgree, ProbeAgrees, ResultAgrees, StoringAgrees, Agreed
    <2> QED
      BY <1>1, <2>3, <2>4, LocalKeeps
  <1>7. CASE ProbePasses
    <2>1. /\ probe.step = "reading" /\ probe' = NoProbe /\ storing' = storing
          /\ result' = [of |-> probe.of, on |-> probe.on]
      BY <1>7 DEF ProbePasses
    <2>2. /\ result' \in [of : Owners, on : LlmRow]
          /\ result'.of = probe.of /\ result'.on = probe.on
      BY <1>2, <2>1
    <2>3. DeskType'
      BY <1>1, <1>2, <1>3, <2>1, <2>2 DEF DeskInv, DeskType
    <2>4. ProbeAgrees' /\ ResultAgrees' /\ StoringAgrees'
      BY <1>1, <1>3, <1>4, <2>1, <2>2
      DEF ProbeAgrees, ResultAgrees, StoringAgrees, Agreed
    <2> QED
      BY <1>1, <2>3, <2>4, LocalKeeps
  <1>8. CASE ProbeFails
    <2>1. probe' = NoProbe /\ UNCHANGED <<result, storing>>
      BY <1>8 DEF ProbeFails
    <2>2. DeskType'
      BY <1>1, <1>2, <1>3, <2>1 DEF DeskInv, DeskType
    <2>3. ProbeAgrees' /\ ResultAgrees' /\ StoringAgrees'
      BY <1>1, <1>3, <1>4, <2>1 DEF ProbeAgrees, ResultAgrees, StoringAgrees, Agreed
    <2> QED
      BY <1>1, <2>2, <2>3, LocalKeeps
  <1>9. CASE ApplyTested
    <2>1. /\ result # NoResult /\ ShownProvider \in LLMs
          /\ result.on.updated_at = providerItems[ShownProvider].updated_at
          /\ UNCHANGED <<probe, result>>
      BY <1>9, ShownIsListed DEF ApplyTested, ResultIsCurrent
    <2>2. Agreed(result.of, result.on) /\ ShownProvider = result.of
      BY <1>4, <2>1 DEF ResultAgrees, Agreed, Agrees
    <2>3. storing' = [step |-> "asked", to |-> ShownProvider,
                      compatibility |-> result.on.endpoint,
                      expected |-> result.on.updated_at, of |-> result.of, on |-> result.on]
      BY <1>9 DEF ApplyTested
    <2>4. result.on.endpoint \in Tunings \cup {"none"} /\ result.on.updated_at \in Nat
      BY <1>2 DEF LlmRow, Tunings
    <2>5. storing' \in [step : {"none", "asked", "stored"}, to : Owners, of : Owners, on : LlmRow,
                       compatibility : Tunings \cup {"none"}, expected : Nat]
      BY <1>2, <2>1, <2>2, <2>3, <2>4 DEF Owners
    <2>6. DeskType'
      BY <1>1, <1>2, <2>1, <2>5 DEF DeskInv, DeskType
    <2>7. StoringAgrees'
      BY <1>1, <2>2, <2>3 DEF StoringAgrees, Agreed
    <2>8. ProbeAgrees' /\ ResultAgrees'
      BY <1>1, <1>4, <2>1 DEF ProbeAgrees, ResultAgrees, Agreed
    <2> QED
      BY <1>1, <2>6, <2>7, <2>8, LocalKeeps
  <1>10. CASE TestedStored \/ ApplyRefused
    <2>1. storing' = NotStoring /\ UNCHANGED <<probe, result>>
      BY <1>10 DEF TestedStored, ApplyRefused
    <2>2. DeskType'
      BY <1>1, <1>2, <1>3, <2>1 DEF DeskInv, DeskType
    <2>3. ProbeAgrees' /\ ResultAgrees' /\ StoringAgrees'
      BY <1>1, <1>3, <1>4, <2>1 DEF ProbeAgrees, ResultAgrees, StoringAgrees, Agreed
    <2> QED
      BY <1>1, <2>2, <2>3, LocalKeeps
  <1> QED
    BY <1>5, <1>6, <1>7, <1>8, <1>9, <1>10

(* The row of an update has the date of the update.                           *)
LEMMA UpdateWrites ==
  ASSUME DeskType, NEW p, NEW fields \in LlmRow, NEW expected, UpdateProvider(p, fields, expected)
  PROVE  Writes(p)
  <1>1. /\ updates' = updates + 1 /\ updates \in Nat /\ llmRows \in [LLMs -> LlmRow]
        /\ llmRows' = [llmRows EXCEPT ![p] = [fields EXCEPT !.updated_at = updates']]
    BY DEF DeskType, UpdateProvider
  <1> DEFINE new == [fields EXCEPT !.updated_at = updates']
  <1>2. new \in LlmRow /\ new.updated_at = updates'
    BY <1>1 DEF LlmRow
  <1> HIDE DEF new
  <1>3. llmRows' = [llmRows EXCEPT ![p] = new]
    BY <1>1 DEF new
  <1> QED
    BY <1>1, <1>2, <1>3 DEF Writes

LEMMA OtherWindowKeeps == DeskInv /\ OtherWindow => DeskInv'
  <1> SUFFICES ASSUME DeskInv, OtherWindow PROVE DeskInv'
    OBVIOUS
  <1>1. /\ UNCHANGED <<providerItems, llmForm, rowSave, probe, result, storing>>
        /\ DeskType /\ StoringAgrees
    BY DEF OtherWindow, listVars, editVars, probeVars, DeskInv
  <1>2. PICK p \in LLMs, e \in Endpoints :
          \/ UpdateProvider(p, [llmRows[p] EXCEPT !.endpoint = e], 0)
          \/ CreateProvider(p, [NoRow EXCEPT !.endpoint = e, !.compatibility = "default"])
          \/ llmRows[p] # NoRow /\ updates' = updates + 1
             /\ llmRows' = [llmRows EXCEPT ![p] = NoRow]
    BY DEF OtherWindow
  <1>3. Writes(p)
    <2>1. CASE UpdateProvider(p, [llmRows[p] EXCEPT !.endpoint = e], 0)
      <3>1. [llmRows[p] EXCEPT !.endpoint = e] \in LlmRow
        BY <1>1 DEF DeskType, LlmRow
      <3> QED
        BY <1>1, <2>1, <3>1, UpdateWrites
    <2>2. CASE CreateProvider(p, [NoRow EXCEPT !.endpoint = e, !.compatibility = "default"])
      <3> DEFINE made == [NoRow EXCEPT !.endpoint = e, !.compatibility = "default"]
                 new == [made EXCEPT !.updated_at = updates']
      <3>1. updates' = updates + 1 /\ updates \in Nat /\ llmRows \in [LLMs -> LlmRow]
        BY <1>1, <2>2 DEF CreateProvider, DeskType
      <3>2. new \in LlmRow /\ new.updated_at = updates'
        <4>1. made \in LlmRow
          BY DEF NoRow, LlmRow, Tunings
        <4> HIDE DEF made
        <4> QED
          BY <3>1, <4>1 DEF LlmRow
      <3>3. llmRows' = [llmRows EXCEPT ![p] = new]
        BY <2>2 DEF CreateProvider
      <3> HIDE DEF new
      <3> QED
        BY <3>1, <3>2, <3>3 DEF Writes
    <2>3. CASE llmRows[p] # NoRow /\ updates' = updates + 1
               /\ llmRows' = [llmRows EXCEPT ![p] = NoRow]
      BY <1>1, <2>3, NoRowType DEF Writes, DeskType
    <2> QED
      BY <1>2, <2>1, <2>2, <2>3
  <1>4. DeskType'
    <2>1. updates' \in Nat
      BY <1>1, <1>3 DEF Writes, DeskType
    <2> QED
      BY <1>1, <1>3, <2>1 DEF Writes, DeskType
  <1>5. StoringAgrees'
    BY <1>1, <1>3, CopyOutlives DEF StoringAgrees, DeskType
  <1> QED
    BY <1>1, <1>3, <1>4, <1>5, WriteKeeps

LEMMA SaveKeeps == DeskInv /\ SaveForm => DeskInv'
  <1> SUFFICES ASSUME DeskInv, SaveForm PROVE DeskInv'
    OBVIOUS
  <1>1. /\ UNCHANGED <<providerItems, llmForm, probe, result, storing>>
        /\ DeskType /\ StoringAgrees /\ rowSave' = [rowSave EXCEPT !.step = "saved"]
        /\ UpdateProvider(rowSave.of, rowSave.fields, 0)
    BY DEF SaveForm, listVars, probeVars, DeskInv
  <1>2. rowSave.fields \in LlmRow
    BY <1>1 DEF DeskType
  <1>3. Writes(rowSave.of)
    BY <1>1, <1>2, UpdateWrites
  <1>4. DeskType'
    <2>1. updates' \in Nat
      BY <1>1, <1>3 DEF Writes, DeskType
    <2>2. rowSave' \in [step : {"none", "asked", "saved"}, of : Owners, fields : LlmRow]
      BY <1>1 DEF DeskType
    <2> QED
      BY <1>1, <1>3, <2>1, <2>2 DEF Writes, DeskType
  <1>5. StoringAgrees'
    BY <1>1, <1>3, CopyOutlives DEF StoringAgrees, DeskType
  <1> QED
    BY <1>1, <1>3, <1>4, <1>5, WriteKeeps

LEMMA RemoveKeeps ==
  ASSUME DeskInv, NEW p \in LLMs, DeleteProvider(p)
  PROVE  DeskInv'
  <1>1. /\ UNCHANGED <<updates, providerItems, llmForm, rowSave, probe, result, storing>>
        /\ DeskType /\ StoringAgrees
        /\ llmRows' = [llmRows EXCEPT ![p] = NoRow]
    BY DEF DeleteProvider, listVars, probeVars, DeskInv
  <1>2. Writes(p)
    BY <1>1, NoRowType DEF Writes, DeskType
  <1>3. DeskType'
    BY <1>1, <1>2 DEF Writes, DeskType
  <1>4. StoringAgrees'
    BY <1>1, <1>2, CopyOutlives DEF StoringAgrees, DeskType
  <1> QED
    BY <1>1, <1>2, <1>3, <1>4, WriteKeeps

(* The revision expected is the one the result was made on, so the row that   *)
(* still has it is that very row.                                             *)
LEMMA StoreFindsTested ==
  ASSUME DeskInv, StoreTested
  PROVE  /\ storing.to = storing.of /\ storing.to \in LLMs
         /\ llmRows[storing.to] = storing.on
  <1>1. /\ storing.to = storing.of /\ Copy(storing.of, storing.on, llmRows, updates)
        /\ storing.expected = storing.on.updated_at
    BY DEF StoreTested, DeskInv, StoringAgrees
  <1>2. storing.expected # 0 /\ storing.expected \in {0, llmRows[storing.to].updated_at}
    BY <1>1 DEF StoreTested, UpdateProvider, Copy, DeskInv, DeskType
  <1> QED
    BY <1>1, <1>2 DEF Copy, Agrees

LEMMA StoreKeeps == DeskInv /\ StoreTested => DeskInv'
  <1> SUFFICES ASSUME DeskInv, StoreTested PROVE DeskInv'
    OBVIOUS
  <1>1. /\ UNCHANGED <<providerItems, llmForm, rowSave, probe, result>> /\ DeskType
        /\ storing' = [storing EXCEPT !.step = "stored", !.expected = updates']
        /\ UpdateProvider(storing.to, [llmRows[storing.to] EXCEPT
                                         !.compatibility = storing.compatibility],
                          storing.expected)
    BY DEF StoreTested, listVars, editVars, DeskInv
  <1>2. [llmRows[storing.to] EXCEPT !.compatibility = storing.compatibility] \in LlmRow
    <2>1. llmRows[storing.to] \in LlmRow /\ storing.compatibility \in Tunings \cup {"none"}
      BY <1>1, StoreFindsTested DEF DeskType
    <2> QED
      BY <2>1 DEF LlmRow
  <1>3. Writes(storing.to)
    BY <1>1, <1>2, UpdateWrites
  <1>4. DeskType' /\ storing'.step = "stored"
    <2>1. updates' \in Nat
      BY <1>1, <1>3 DEF Writes, DeskType
    <2>2. /\ storing' \in [step : {"none", "asked", "stored"}, to : Owners, of : Owners,
                          on : LlmRow, compatibility : Tunings \cup {"none"}, expected : Nat]
          /\ storing'.step = "stored"
      BY <1>1, <2>1 DEF DeskType
    <2> QED
      BY <1>1, <1>3, <2>1, <2>2 DEF Writes, DeskType
  <1>5. StoringAgrees'
    BY <1>4 DEF StoringAgrees
  <1> QED
    BY <1>1, <1>3, <1>4, <1>5, WriteKeeps

LEMMA DeskStep == DeskInv /\ [ProviderNext]_providerVars => DeskInv'
  <1> SUFFICES ASSUME DeskInv, [ProviderNext]_providerVars PROVE DeskInv'
    OBVIOUS
  <1>1. CASE ProvidersListed
    BY <1>1, ListedKeeps
  <1>2. CASE OtherWindow
    BY <1>2, OtherWindowKeeps
  <1>3. CASE \/ \E p \in LLMs : SelectProvider(p)
             \/ OpenForm \/ EditForm \/ CloseForm \/ SubmitForm \/ FormSaved \/ RowSaveFails
             \/ AskRemove \/ KeepRow \/ ConfirmRemove
             \/ \E p \in LLMs : DeletionFails(p)
    BY <1>3, FormsKeep
  <1>4. CASE SaveForm
    BY <1>4, SaveKeeps
  <1>5. CASE \E p \in LLMs : DeleteProvider(p)
    BY <1>5, RemoveKeeps
  <1>6. CASE \/ StartProbe \/ ProbeReads \/ ProbePasses \/ ProbeFails \/ ApplyTested
             \/ TestedStored \/ ApplyRefused
    BY <1>6, TestsKeep
  <1>7. CASE StoreTested
    BY <1>7, StoreKeeps
  <1>8. CASE UNCHANGED providerVars
    BY <1>8, EditKeeps DEF providerVars, DeskInv, DeskType
  <1> QED
    BY <1>1, <1>2, <1>3, <1>4, <1>5, <1>6, <1>7, <1>8 DEF ProviderNext

LEMMA DeskHolds == ProviderSpec => []DeskInv
  BY InitAgrees, DeskStep, PTL DEF ProviderSpec

(* What a test recommends is stored only in the provider that was tested, and *)
(* on the configuration it had then, for any providers, any number of updates *)
(* by anybody and any order of the answers.                                   *)
THEOREM TestedIsApplied == ProviderSpec => AppliedWasTested
  <1>1. DeskInv /\ StoreTested => /\ storing.to = storing.of
                                  /\ llmRows'[storing.to].endpoint = storing.on.endpoint
    <2> SUFFICES ASSUME DeskInv, StoreTested
                 PROVE  /\ storing.to = storing.of
                        /\ llmRows'[storing.to].endpoint = storing.on.endpoint
      OBVIOUS
    <2> DEFINE to == storing.to
               new == [llmRows[to] EXCEPT !.compatibility = storing.compatibility]
               put == [new EXCEPT !.updated_at = updates']
    <2>1. /\ to = storing.of /\ to \in LLMs /\ llmRows[to] = storing.on
          /\ llmRows \in [LLMs -> LlmRow]
      BY StoreFindsTested DEF DeskInv, DeskType
    <2>2. llmRows' = [llmRows EXCEPT ![to] = put]
      BY DEF StoreTested, UpdateProvider
    <2>3. put.endpoint = llmRows[to].endpoint
      BY <2>1 DEF LlmRow
    <2> HIDE DEF put, to
    <2>4. llmRows'[to] = put
      BY <2>1, <2>2
    <2> QED
      BY <2>1, <2>3, <2>4 DEF to
  <1>2. DeskInv /\ [ProviderNext]_providerVars =>
          [StoreTested => /\ storing.to = storing.of
                          /\ llmRows'[storing.to].endpoint = storing.on.endpoint]_providerVars
    BY <1>1
  <1> QED
    BY <1>2, DeskHolds, PTL DEF ProviderSpec, AppliedWasTested

(* ProviderDesk: what the proof about the test has no use for.                *)
DeskRestTyped ==
  /\ updates \in 1..MaxUpdates /\ selectedProviderId \in Owners /\ removing \in Owners
  /\ deleting \subseteq LLMs

LEMMA DeskRestInit == ProviderInit => DeskRestTyped
  BY ProviderAssumption DEF ProviderInit, DeskRestTyped, Owners

LEMMA DeskRestStaysTyped ==
  DeskInv /\ DeskRestTyped /\ [ProviderNext]_providerVars => DeskRestTyped'
  <1> SUFFICES ASSUME DeskInv, DeskRestTyped, [ProviderNext]_providerVars PROVE DeskRestTyped'
    OBVIOUS
  <1> USE DEF DeskRestTyped
  <1>0. ShownProvider \in Owners /\ Nobody \in Owners
    BY SelectedIsListable DEF ShownProvider, Owners
  <1>1. CASE ProvidersListed
    <2>1. /\ selectedProviderId' = Selected(llmRows, selectedProviderId) /\ updates' = updates
          /\ removing' \in {removing, Nobody} /\ deleting' = deleting
      BY <1>1 DEF ProvidersListed
    <2> QED
      BY <1>0, <2>1, SelectedIsListable
  <1>2. CASE OtherWindow \/ SaveForm \/ StoreTested
    <2>1. updates < MaxUpdates /\ updates' = updates + 1
      BY <1>2 DEF OtherWindow, SaveForm, StoreTested, UpdateProvider, CreateProvider
    <2>2. UNCHANGED <<selectedProviderId, removing, deleting>>
      BY <1>2 DEF OtherWindow, SaveForm, StoreTested, listVars, editVars
    <2> QED
      BY <2>1, <2>2, ProviderAssumption
  <1>3. CASE \E p \in LLMs : SelectProvider(p)
    BY <1>3 DEF SelectProvider, Owners, editVars
  <1>4. CASE \/ OpenForm \/ EditForm \/ CloseForm \/ SubmitForm \/ FormSaved \/ RowSaveFails
             \/ AskRemove \/ KeepRow
    <2>1. UNCHANGED <<updates, selectedProviderId, deleting>>
      BY <1>4 DEF OpenForm, EditForm, CloseForm, SubmitForm, FormSaved, RowSaveFails,
                  AskRemove, KeepRow, listVars
    <2>2. removing' \in {removing, ShownProvider, Nobody}
      BY <1>4 DEF OpenForm, EditForm, CloseForm, SubmitForm, FormSaved, RowSaveFails,
                  AskRemove, KeepRow
    <2> QED
      BY <1>0, <2>1, <2>2
  <1>7. CASE ConfirmRemove
    <2>1. ShownProvider \in LLMs
      BY <1>7, ShownIsListed DEF ConfirmRemove
    <2> QED
      BY <1>0, <1>7, <2>1 DEF ConfirmRemove, listVars
  <1>8. CASE \E p \in LLMs : DeleteProvider(p) \/ DeletionFails(p)
    BY <1>8 DEF DeleteProvider, DeletionFails, listVars
  <1>5. CASE \/ StartProbe \/ ProbeReads \/ ProbePasses \/ ProbeFails \/ ApplyTested
             \/ TestedStored \/ ApplyRefused
    BY <1>5 DEF StartProbe, ProbeReads, ProbePasses, ProbeFails, ApplyTested, TestedStored,
                ApplyRefused, listVars, editVars
  <1>6. CASE UNCHANGED providerVars
    BY <1>6 DEF providerVars
  <1> QED
    BY <1>1, <1>2, <1>3, <1>4, <1>5, <1>6, <1>7, <1>8 DEF ProviderNext

(* A row is as old as an update.                                              *)
LEMMA DeskIsTyped == DeskInv /\ DeskRestTyped => ProviderTypeOK
  <1> SUFFICES ASSUME DeskInv, DeskRestTyped PROVE ProviderTypeOK
    OBVIOUS
  <1> DEFINE Typed == [endpoint : Endpoints \cup {"none"}, compatibility : Tunings \cup {"none"},
                     updated_at : 0..MaxUpdates]
  <1>1. \A p \in LLMs : llmRows[p] \in Typed
    <2> SUFFICES ASSUME NEW p \in LLMs PROVE llmRows[p] \in Typed
      OBVIOUS
    <2>1. llmRows[p].updated_at \in 0..updates
      <3>1. llmRows[p] # NoRow => llmRows[p].updated_at \in 1..updates
        BY DEF DeskInv, RowsAgree, Agreed, Copy
      <3> QED
        BY <3>1, NoRowType DEF DeskRestTyped
    <2>2. llmRows[p].updated_at \in 0..MaxUpdates
      BY <2>1, ProviderAssumption DEF DeskRestTyped
    <2>3. llmRows[p] \in LlmRow
      BY DEF DeskInv, DeskType
    <2> QED
      BY <2>2, <2>3 DEF LlmRow
  <1>2. llmRows \in [LLMs -> Typed]
    BY <1>1 DEF DeskInv, DeskType
  <1>3. llmForm.of \in Owners /\ rowSave.step \in {"none", "asked", "saved"}
        /\ probe.step \in {"none", "asked", "reading"} /\ storing.step \in {"none", "asked", "stored"}
    BY DEF DeskInv, DeskType
  <1> QED
    BY <1>2, <1>3 DEF ProviderTypeOK, DeskRestTyped, Owners

LEMMA ProviderTypeHolds == ProviderInit /\ [][ProviderNext]_providerVars => []ProviderTypeOK
  BY InitAgrees, DeskStep, DeskRestInit, DeskRestStaysTyped, DeskIsTyped, PTL

--------------------------------------------------------------------------------
(* AsrProviders: what is saved is the form of the provider it is saved for.   *)

(* The first of a non-empty set of numbers, which FirstOf and Least choose.   *)
LEMMA LeastExists ==
  ASSUME NEW S, S \subseteq Nat, S # {}
  PROVE  \E least \in S : \A o \in S : least <= o
<1>. DEFINE Below == {ss \in Nat \X Nat : ss[1] < ss[2]}
<1>1. IsWellFoundedOn(Below, Nat)
  BY NatLessThanWellFounded DEF OpToRel
<1>2. PICK least \in S : \A o \in S : <<o, least>> \notin Below
  BY <1>1, WFMin
<1>3. ASSUME NEW o \in S PROVE least <= o
  <2>1. o \in Nat /\ least \in Nat
    OBVIOUS
  <2>2. ~(o < least)
    BY <1>2, <2>1
  <2>. QED
    BY <2>1, <2>2
<1>. QED
  BY <1>3

AsrOwners == AsrIds \cup {NobodyAsr}

AsrTyped == /\ asrRows \in [AsrIds -> Nat] /\ asrList \in [AsrIds -> Nat]
            /\ picked \in AsrOwners /\ editing \in AsrOwners
            /\ asrForm \in [of : AsrOwners, revision : Nat, typed : BOOLEAN]

(* A save that has been sent has the form of the provider it is sent to.      *)
SendsOwn == \A c \in sending : c.id \in AsrOwners /\ (c.kind = "save" => c.form.of = c.id)

(* While the dialog is open its form is filled from the row the list has of   *)
(* the provider being edited.                                                 *)
FormIsOfEditing ==
  Open => asrForm.of = editing /\ asrForm.revision = asrList[editing]

AsrInv == AsrTyped /\ SendsOwn /\ FormIsOfEditing

LEMMA AsrInvIsSavedIsOwn == AsrInv => SavedIsOwn
BY DEF AsrInv, SendsOwn, FormIsOfEditing, SavedIsOwn

(* What the page falls back to is a provider, or nobody.                      *)
LEMMA SelectedIsOwner ==
  ASSUME NEW list, NEW id \in AsrOwners PROVE SelectedAsr(list, id) \in AsrOwners
<1>1. CASE HasRow(list, id) \/ ~\E o \in AsrIds : HasRow(list, o)
  BY <1>1 DEF SelectedAsr, FirstOf, AsrOwners
<1>2. CASE ~HasRow(list, id) /\ \E o \in AsrIds : HasRow(list, o)
  <2>. DEFINE listed == {o \in AsrIds : HasRow(list, o)}
  <2>1. listed \subseteq Nat /\ listed # {}
    BY <1>2, AsrAssumption
  <2>2. PICK least \in listed : \A o \in listed : least <= o
    BY <2>1, LeastExists
  <2>3. least \in AsrIds /\ HasRow(list, least) /\ \A o \in AsrIds : HasRow(list, o) => least <= o
    BY <2>2
  <2>4. FirstOf(list) \in AsrIds
    BY <2>3, <1>2, Zenon DEF FirstOf
  <2>. QED
    BY <1>2, <2>4 DEF SelectedAsr, AsrOwners
<1>. QED
  BY <1>1, <1>2

LEMMA AsrInvInit == AsrInit => AsrInv
<1>. SUFFICES ASSUME AsrInit PROVE AsrInv
  OBVIOUS
<1>1. AsrTyped
  BY DEF AsrInit, AsrTyped, AsrOwners, NobodyAsr, Empty
<1>2. ~Open /\ SendsOwn
  BY DEF AsrInit, Open, Editing, NobodyAsr, SendsOwn
<1>. QED
  BY <1>1, <1>2 DEF AsrInv, FormIsOfEditing

(* A render: the form has the type of a form, and when the dialog is open, is *)
(* filled from the row the list has of the provider it shows.                 *)
LEMMA RenderFillsForm ==
  ASSUME AsrInv, AsrTyped', NEW of \in AsrOwners,
         Open => of = editing, editing' = of, FormOn(asrList', picked', of)
  PROVE  FormIsOfEditing'
<1>. SUFFICES ASSUME Open' PROVE (asrForm.of = editing /\ asrForm.revision = asrList[editing])'
  BY DEF FormIsOfEditing
<1>1. Editing(asrList', picked', of)
  BY DEF Open
<1>2. CASE Open /\ asrList'[of] = asrList[of]
  BY <1>1, <1>2 DEF FormOn, AsrInv, FormIsOfEditing
<1>3. CASE ~(Open /\ asrList'[of] = asrList[of])
  BY <1>1, <1>3 DEF FormOn, Filled
<1>. QED
  BY <1>2, <1>3

LEMMA FormStaysTyped ==
  ASSUME AsrTyped, NEW table \in [AsrIds -> Nat], NEW id \in AsrOwners, NEW of \in AsrOwners,
         FormOn(table, id, of)
  PROVE  asrForm' \in [of : AsrOwners, revision : Nat, typed : BOOLEAN]
<1>1. Empty \in [of : AsrOwners, revision : Nat, typed : BOOLEAN]
  BY DEF Empty, AsrOwners, NobodyAsr
<1>2. Editing(table, id, of) => Filled(table, of) \in [of : AsrOwners, revision : Nat, typed : BOOLEAN]
  BY DEF Editing, Filled, AsrOwners, NobodyAsr
<1>. QED
  BY <1>1, <1>2 DEF FormOn, AsrTyped

(* One step per action of the page, of the server and of the other window.    *)
LEMMA AsrStep == AsrInv /\ [AsrNext]_asrVars => AsrInv'
<1>. SUFFICES ASSUME AsrInv, [AsrNext]_asrVars PROVE AsrInv'
  OBVIOUS
<1>. USE DEF AsrInv
<1>0. ShownAsr \in AsrOwners
  BY SelectedIsOwner DEF ShownAsr, AsrTyped
<1>1. ASSUME UNCHANGED sending, asrRows' = asrRows, asrList' \in [AsrIds -> Nat],
             picked' \in AsrOwners, editing' \in AsrOwners, Open => editing' = editing,
             FormOn(asrList', picked', editing')
      PROVE  AsrInv'
  <2>1. AsrTyped'
    BY <1>1, FormStaysTyped DEF AsrTyped
  <2>2. FormIsOfEditing'
    BY <1>1, <2>1, RenderFillsForm
  <2>. QED
    BY <1>1, <2>1, <2>2 DEF SendsOwn
<1>2. CASE ListAnswered
  BY <1>1, <1>2, SelectedIsOwner DEF ListAnswered, AsrTyped
<1>3. CASE Pick
  BY <1>1, <1>3 DEF Pick, AsrTyped, AsrOwners
<1>4. CASE OpenAsrForm
  BY <1>0, <1>1, <1>4 DEF OpenAsrForm, AsrTyped
<1>5. CASE CloseAsrForm
  <2>1. editing' = NobodyAsr /\ asrForm' = Empty /\ UNCHANGED <<asrRows, asrList, picked, sending>>
    BY <1>5 DEF CloseAsrForm, FormOn, Editing, NobodyAsr
  <2>2. ~Open'
    BY <2>1 DEF Open, Editing
  <2>. QED
    BY <2>1, <2>2 DEF AsrTyped, SendsOwn, FormIsOfEditing, Empty, AsrOwners, NobodyAsr
<1>6. CASE TypeField
  BY <1>6 DEF TypeField, AsrTyped, SendsOwn, FormIsOfEditing, Open
<1>7. ASSUME NEW call, call.id \in AsrOwners, call.kind = "save" => call.form.of = call.id,
             SendAsr(call)
      PROVE  AsrInv'
  BY <1>7 DEF SendAsr, AsrTyped, SendsOwn, FormIsOfEditing, Open
<1>8. CASE SaveAsrForm
  <2>. DEFINE call == AsrCall("save", editing, asrForm)
  <2>1. call.id \in AsrOwners /\ call.form.of = call.id /\ SendAsr(call)
    BY <1>8 DEF SaveAsrForm, AsrTyped, FormIsOfEditing, AsrCall
  <2>. QED
    BY <1>7, <2>1
<1>9. ASSUME NEW kind \in {"create", "test", "prefer", "remove"}, NEW id \in AsrOwners,
             SendAsr(AsrCall(kind, id, Empty))
      PROVE  AsrInv'
  BY <1>7, <1>9 DEF AsrCall
<1>10. CASE SendNew \/ TestOrPrefer \/ ConfirmRemoval
  BY <1>0, <1>9, <1>10 DEF SendNew, TestOrPrefer, ConfirmRemoval, AsrOwners
<1>11. CASE AskRemoval \/ KeepProvider
  BY <1>11 DEF AskRemoval, KeepProvider, AsrTyped, SendsOwn, FormIsOfEditing, Open
<1>12. CASE ServeAsr
  <2>1. asrRows' \in [AsrIds -> Nat]
    BY <1>12 DEF ServeAsr, AsrTyped
  <2>2. sending' \subseteq sending
    BY <1>12 DEF ServeAsr
  <2>. QED
    BY <1>12, <2>1, <2>2 DEF ServeAsr, AsrTyped, SendsOwn, FormIsOfEditing, Open
<1>13. CASE OthersChangeRow
  <2>1. asrRows' \in [AsrIds -> Nat]
    BY <1>13 DEF OthersChangeRow, AsrTyped
  <2>. QED
    BY <1>13, <2>1 DEF OthersChangeRow, AsrTyped, SendsOwn, FormIsOfEditing, Open
<1>14. CASE UNCHANGED asrVars
  BY <1>14 DEF asrVars, AsrTyped, SendsOwn, FormIsOfEditing, Open
<1>. QED
  BY <1>2, <1>3, <1>4, <1>5, <1>6, <1>8, <1>10, <1>11, <1>12, <1>13, <1>14 DEF AsrNext

(* A form is saved for the provider whose row it was filled from, whatever    *)
(* lists arrive, whichever provider is picked and whatever is removed         *)
(* elsewhere while the dialog is open.                                        *)
THEOREM SavedIsOwnHolds == AsrSpec => []SavedIsOwn
BY AsrInvInit, AsrStep, AsrInvIsSavedIsOwn, PTL DEF AsrSpec

(* AsrProviders: what the proof about the form has no use for.                *)
AsrRowsBounded ==
  /\ asrRows \in [AsrIds -> 0..MaxRevision] /\ asrList \in [AsrIds -> 0..MaxRevision]
  /\ asrForm.revision \in 0..MaxRevision

AsrRestTyped ==
  /\ preferred \in AsrOwners /\ testedText \in AsrOwners /\ asrRemoving \in BOOLEAN
  /\ \A c \in sending : c.kind \in {"save", "create", "test", "prefer", "remove"}
  /\ clicks \in 0..MaxClicks /\ waiting \in 0..NotWaiting

LEMMA AsrTypedInit == AsrInit => AsrRowsBounded /\ AsrRestTyped
<1>. SUFFICES ASSUME AsrInit PROVE AsrRowsBounded /\ AsrRestTyped
  OBVIOUS
<1>. USE AsrAssumption
<1>1. AsrRowsBounded
  BY DEF AsrInit, AsrRowsBounded, Empty
<1>2. AsrRestTyped
  <2>1. clicks \in 0..MaxClicks /\ waiting \in 0..NotWaiting
    BY DEF AsrInit, NotWaiting
  <2>. QED
    BY <2>1, Zenon DEF AsrInit, AsrRestTyped, AsrOwners
<1>. QED
  BY <1>1, <1>2

(* A form is filled with the revision of a row of the list it is shown with.  *)
LEMMA FilledIsBounded ==
  ASSUME AsrRowsBounded, NEW table \in [AsrIds -> 0..MaxRevision], NEW id, NEW of \in AsrOwners,
         FormOn(table, id, of)
  PROVE  asrForm'.revision \in 0..MaxRevision
<1>1. Empty.revision \in 0..MaxRevision
  BY AsrAssumption DEF Empty
<1>2. Editing(table, id, of) => Filled(table, of).revision \in 0..MaxRevision
  BY DEF Editing, Filled, AsrOwners, NobodyAsr
<1>. QED
  BY <1>1, <1>2 DEF FormOn, AsrRowsBounded

LEMMA AsrRowsStayBounded ==
  AsrInv /\ AsrRowsBounded /\ [AsrNext]_asrVars => AsrRowsBounded'
<1>. SUFFICES ASSUME AsrInv, AsrRowsBounded, [AsrNext]_asrVars PROVE AsrRowsBounded'
  OBVIOUS
<1>0. /\ picked \in AsrOwners /\ editing \in AsrOwners /\ NobodyAsr \in AsrOwners
      /\ ShownAsr \in AsrOwners /\ MaxRevision \in Nat \ {0}
  BY SelectedIsOwner, AsrAssumption DEF AsrInv, AsrTyped, ShownAsr, AsrOwners
<1>1. CASE ListAnswered
  <2>1. asrList' = asrRows /\ asrRows' = asrRows /\ FormOn(asrRows, picked', editing)
    BY <1>1 DEF ListAnswered
  <2>. QED
    BY <1>0, <2>1, FilledIsBounded DEF AsrRowsBounded
<1>2. CASE Pick \/ OpenAsrForm \/ CloseAsrForm
  <2>1. PICK of \in AsrOwners : FormOn(asrList, picked', of)
    BY <1>0, <1>2 DEF Pick, OpenAsrForm, CloseAsrForm
  <2>2. UNCHANGED <<asrRows, asrList>>
    BY <1>2 DEF Pick, OpenAsrForm, CloseAsrForm
  <2>. QED
    BY <2>1, <2>2, FilledIsBounded DEF AsrRowsBounded
<1>3. CASE TypeField
  BY <1>3 DEF TypeField, AsrRowsBounded, AsrInv, AsrTyped
<1>4. CASE SaveAsrForm \/ SendNew \/ TestOrPrefer \/ AskRemoval \/ ConfirmRemoval \/ KeepProvider
  BY <1>4 DEF SaveAsrForm, SendNew, TestOrPrefer, AskRemoval, ConfirmRemoval, KeepProvider, SendAsr,
              AsrRowsBounded
<1>5. CASE ServeAsr \/ OthersChangeRow
  <2>1. \/ UNCHANGED asrRows
        \/ \E id : asrRows[id] < MaxRevision /\ asrRows' = [asrRows EXCEPT ![id] = @ + 1]
        \/ \E id : asrRows' = [asrRows EXCEPT ![id] = 0] \/ asrRows' = [asrRows EXCEPT ![id] = 1]
    <3>1. CASE ServeAsr
      BY <3>1, Zenon DEF ServeAsr
    <3>2. CASE OthersChangeRow
      BY <3>2, Zenon DEF OthersChangeRow
    <3>. QED
      BY <1>5, <3>1, <3>2
  <2>2. asrRows' \in [AsrIds -> 0..MaxRevision]
    BY <1>0, <2>1 DEF AsrRowsBounded
  <2>. QED
    BY <1>5, <2>2 DEF ServeAsr, OthersChangeRow, AsrRowsBounded
<1>6. CASE UNCHANGED asrVars
  BY <1>6 DEF asrVars, AsrRowsBounded
<1>. QED
  BY <1>1, <1>2, <1>3, <1>4, <1>5, <1>6 DEF AsrNext

LEMMA AsrRestStaysTyped == AsrInv /\ AsrRestTyped /\ [AsrNext]_asrVars => AsrRestTyped'
<1>. SUFFICES ASSUME AsrInv, AsrRestTyped, [AsrNext]_asrVars PROVE AsrRestTyped'
  OBVIOUS
<1>0. /\ Click => clicks' \in 0..MaxClicks
      /\ NotWaiting \in 0..NotWaiting /\ MaxClicks = NotWaiting
  BY AsrAssumption DEF AsrRestTyped, Click, NotWaiting
<1>1. CASE ListAnswered \/ CloseAsrForm \/ TypeField \/ OthersChangeRow \/ UNCHANGED asrVars
  BY <1>0, <1>1 DEF ListAnswered, CloseAsrForm, TypeField, OthersChangeRow, asrVars, FormOn,
     AsrRestTyped
<1>2. CASE Pick \/ OpenAsrForm
  BY <1>0, <1>2 DEF Pick, OpenAsrForm, FormOn, AsrRestTyped
<1>3. CASE AskRemoval \/ KeepProvider
  BY <1>3 DEF AskRemoval, KeepProvider, AsrRestTyped
<1>4. ASSUME NEW call, call.kind \in {"save", "create", "test", "prefer", "remove"}, SendAsr(call),
             asrRemoving' \in BOOLEAN, waiting' \in {waiting, clicks}
      PROVE  AsrRestTyped'
  BY <1>0, <1>4 DEF SendAsr, AsrRestTyped
<1>5. CASE SaveAsrForm
  <2>. DEFINE call == AsrCall("save", editing, asrForm)
  <2>1. call.kind = "save" /\ SendAsr(call) /\ asrRemoving' = asrRemoving /\ waiting' = clicks
    BY <1>5 DEF SaveAsrForm, AsrCall
  <2>. QED
    BY <1>4, <2>1 DEF AsrRestTyped
<1>6. CASE SendNew \/ TestOrPrefer \/ ConfirmRemoval
  <2>1. PICK call : /\ SendAsr(call)
                    /\ call.kind \in {"save", "create", "test", "prefer", "remove"}
    <3>1. PICK kind \in {"create", "test", "prefer", "remove"} :
            \E id : SendAsr(AsrCall(kind, id, Empty))
      BY <1>6 DEF SendNew, TestOrPrefer, ConfirmRemoval
    <3>. QED
      BY <3>1 DEF AsrCall
  <2>2. asrRemoving' \in {asrRemoving, FALSE} /\ waiting' = waiting
    BY <1>6 DEF SendNew, TestOrPrefer, ConfirmRemoval
  <2>3. asrRemoving' \in BOOLEAN
    BY <2>2 DEF AsrRestTyped
  <2>. QED
    BY <1>4, <2>1, <2>2, <2>3
<1>7. CASE ServeAsr
  <2>1. PICK c \in sending : /\ sending' = sending \ {c}
                             /\ preferred' \in {preferred, c.id} /\ testedText' \in {testedText, c.id}
    BY <1>7 DEF ServeAsr
  <2>2. c.id \in AsrOwners
    BY DEF AsrInv, SendsOwn
  <2>. QED
    BY <1>7, <2>1, <2>2 DEF ServeAsr, AsrRestTyped
<1>. QED
  BY <1>1, <1>2, <1>3, <1>5, <1>6, <1>7 DEF AsrNext

LEMMA AsrTypeHolds == AsrInit /\ [][AsrNext]_asrVars => []AsrTypeOK
<1>1. AsrInv /\ AsrRowsBounded /\ AsrRestTyped => AsrTypeOK
  <2>. SUFFICES ASSUME AsrInv, AsrRowsBounded, AsrRestTyped PROVE AsrTypeOK
    OBVIOUS
  <2>1. asrForm.of \in AsrOwners /\ asrForm.typed \in BOOLEAN
    BY DEF AsrInv, AsrTyped
  <2>2. picked \in AsrOwners /\ editing \in AsrOwners /\ \A c \in sending : c.id \in AsrOwners
    BY DEF AsrInv, AsrTyped, SendsOwn
  <2>. QED
    BY <2>1, <2>2, Zenon DEF AsrRowsBounded, AsrRestTyped, AsrTypeOK, AsrOwners
<1>. QED
  BY <1>1, AsrInvInit, AsrStep, AsrTypedInit, AsrRowsStayBounded, AsrRestStaysTyped, PTL

--------------------------------------------------------------------------------
(* SettingsDesk: what was confirmed as saved stays the default.               *)

Backends == {"local", "provider"}
(* The saved settings, a patch of them, and the form of the page.             *)
KeptType == [backend : Backends, model : LocalModels, provider : Providers \cup {Null},
             language : Codes, workers : Workers \ {"none"}, tools : {"manual", "bundled"},
             stamp : Nat]
PatchType == [backend : Backends \cup {Keep}, model : LocalModels \cup {Null, Keep},
              provider : Providers \cup {Null, Keep}, language : Codes \cup {Keep},
              workers : Workers \cup {Keep}, tools : {"manual", "bundled", Keep}, stamp : {0}]
FormType == [language : Languages, backend : Backends, choice : DefaultChoices,
             workers : Workers]

(* What a request saves: the patch makes the choice the default, or it is the *)
(* one of the tools and leaves the default alone.                             *)
Makes(patch, choice) ==
  choice # Automatic =>
    /\ patch.backend = choice.kind
    /\ choice.kind = "local" => patch.model = choice.name
    /\ choice.kind = "provider" => patch.provider = choice.name
Spares(patch) == patch.backend = Keep /\ patch.model = Keep /\ patch.provider = Keep

SettingsTyped ==
  /\ kept \in KeptType /\ form \in FormType
  /\ settingsRead.step = "answered" => settingsRead.saw \in KeptType
  /\ chosen \in [language : Languages, choice : DefaultChoices]
  /\ writes \in [Buttons -> [step : {"none", "asked", "answered"}, patch : PatchType,
                             chosen : DefaultChoices, language : Languages]]

(* The three buttons that choose a default send patches that make what they   *)
(* choose; the one of the tools does not mention it.                          *)
WritesMake ==
  /\ \A b \in {"save", "default", "model"} : writes[b].step = "asked" => Makes(writes[b].patch, writes[b].chosen)
  /\ writes["tools"].step = "asked" => Spares(writes["tools"].patch)

SettingsInv == SettingsTyped /\ WritesMake /\ SavedDefaultIsKept

(* No model and no provider has the name of a missing value.                  *)
LEMMA NamesAreNames == Null \notin LocalModels \cup Providers /\ Keep \notin LocalModels \cup Providers
BY SettingsAssumption DEF Null, Keep

LEMMA EncodedIsChoice == ASSUME NEW s \in KeptType PROVE EncodeDefaultModel(s) \in DefaultChoices
<1>1. CASE s.backend = "local"
  BY <1>1, NamesAreNames DEF EncodeDefaultModel, DefaultChoices, KeptType
<1>2. CASE s.backend = "provider"
  BY <1>2 DEF EncodeDefaultModel, DefaultChoices, KeptType
<1>. QED
  BY <1>1, <1>2 DEF KeptType, Backends

LEMMA FormOfFits == ASSUME NEW s \in KeptType PROVE FormOf(s) \in FormType
<1>1. NormalizeLanguage(s.language) \in Languages
  BY DEF NormalizeLanguage, Languages
<1>. QED
  BY <1>1, EncodedIsChoice DEF FormOf, FormType, KeptType

LEMMA PatchedFits ==
  ASSUME NEW s \in KeptType, NEW patch \in PatchType, AcceptedPatch(patch)
  PROVE  Patched(s, patch) \in KeptType
<1>. DEFINE Value(key) == IF patch[key] \in {Keep, Null} THEN s[key] ELSE patch[key]
<1>1. Patched(s, patch) = [backend |-> Value("backend"), model |-> Value("model"),
         provider |-> Value("provider"), language |-> Value("language"),
         workers |-> Value("workers"), tools |-> Value("tools"), stamp |-> s.stamp + 1]
  BY DEF Patched, KeptType
<1>2. /\ Value("backend") \in Backends /\ Value("model") \in LocalModels
      /\ Value("provider") \in Providers \cup {Null}
  BY DEF KeptType, PatchType
<1>3. Value("language") \in Codes /\ Value("tools") \in {"manual", "bundled"}
  BY DEF KeptType, PatchType
<1>4. Value("workers") \in Workers \ {"none"}
  BY DEF KeptType, PatchType, AcceptedPatch
<1>5. s.stamp + 1 \in Nat
  BY DEF KeptType
<1>. HIDE DEF Value
<1>. QED
  BY <1>1, <1>2, <1>3, <1>4, <1>5 DEF KeptType

(* A patch that makes a choice does so whatever was saved before.             *)
LEMMA PatchedMakes ==
  ASSUME NEW s \in KeptType, NEW patch \in PatchType, NEW choice \in DefaultChoices,
         Makes(patch, choice), choice # Automatic
  PROVE  EncodeDefaultModel(Patched(s, patch)) = choice
<1>1. PICK kind \in Backends, name \in LocalModels \cup Providers :
        /\ choice = [kind |-> kind, name |-> name]
        /\ kind = "local" => name \in LocalModels
        /\ kind = "provider" => name \in Providers
  BY DEF DefaultChoices, Backends
<1>2. {"backend", "model", "provider"} \subseteq DOMAIN s /\ DOMAIN s = DOMAIN Patched(s, patch)
  BY DEF KeptType, Patched
<1>3. Patched(s, patch).backend = kind
  BY <1>1, <1>2 DEF Makes, Patched, Backends, Keep, Null
<1>4. /\ kind = "local" => Patched(s, patch).model = name
      /\ kind = "provider" => Patched(s, patch).provider = name
  BY <1>1, <1>2, NamesAreNames DEF Makes, Patched
<1>. QED
  BY <1>1, <1>3, <1>4, NamesAreNames DEF EncodeDefaultModel, Backends

(* A patch that mentions neither of the three leaves the default alone.       *)
LEMMA PatchedSpares ==
  ASSUME NEW s \in KeptType, NEW patch, Spares(patch)
  PROVE  EncodeDefaultModel(Patched(s, patch)) = EncodeDefaultModel(s)
<1>1. {"backend", "model", "provider"} \subseteq DOMAIN s
  BY DEF KeptType
<1>2. /\ Patched(s, patch).backend = s.backend /\ Patched(s, patch).model = s.model
      /\ Patched(s, patch).provider = s.provider
  BY <1>1 DEF Spares, Patched
<1>. QED
  BY <1>2 DEF EncodeDefaultModel
(* What each button asks for.                                                 *)
LEMMA SavePatchMakes ==
  ASSUME form \in FormType
  PROVE  SavePatch \in PatchType /\ Makes(SavePatch, form.choice)
<1>0. form.choice \in DefaultChoices /\ BackendLanguage(form.language) \in Codes
      /\ form.workers \in Workers /\ form.backend \in Backends
  BY DEF FormType, BackendLanguage, Codes
<1>1. CASE form.choice = Automatic
  <2>1. SavePatch = [backend |-> form.backend, model |-> Null, provider |-> Null,
                     language |-> BackendLanguage(form.language), workers |-> form.workers,
                     tools |-> Keep, stamp |-> 0]
    BY <1>1 DEF SavePatch, Automatic
  <2>. QED
    BY <1>0, <1>1, <2>1 DEF PatchType, Makes
<1>2. ASSUME NEW m \in LocalModels, form.choice = [kind |-> "local", name |-> m]
      PROVE  SavePatch \in PatchType /\ Makes(SavePatch, form.choice)
  <2>1. SavePatch = [backend |-> "local", model |-> m, provider |-> Null,
                     language |-> BackendLanguage(form.language), workers |-> form.workers,
                     tools |-> Keep, stamp |-> 0]
    BY <1>2 DEF SavePatch
  <2>. QED
    BY <1>0, <1>2, <2>1 DEF PatchType, Makes, Backends
<1>3. ASSUME NEW p \in Providers, form.choice = [kind |-> "provider", name |-> p]
      PROVE  SavePatch \in PatchType /\ Makes(SavePatch, form.choice)
  <2>1. SavePatch = [backend |-> "provider", model |-> Null, provider |-> p,
                     language |-> BackendLanguage(form.language), workers |-> form.workers,
                     tools |-> Keep, stamp |-> 0]
    BY <1>3 DEF SavePatch
  <2>. QED
    BY <1>0, <1>3, <2>1 DEF PatchType, Makes, Backends
<1>. QED
  BY <1>0, <1>1, <1>2, <1>3 DEF DefaultChoices

LEMMA UnsetFits == Unset \in PatchType /\ Unasked.patch = Unset /\ Unasked.step = "none"
                   /\ Unasked.chosen \in DefaultChoices /\ Unasked.language \in Languages
BY DEF Unset, PatchType, Unasked, DefaultChoices, Languages

LEMMA SettingsInvInit == SettingsInit => SettingsInv
<1>. SUFFICES ASSUME SettingsInit PROVE SettingsInv
  OBVIOUS
<1>1. PICK model \in LocalModels :
         kept = [backend |-> "local", model |-> model, provider |-> Null, language |-> "auto",
                 workers |-> "one", tools |-> "bundled", stamp |-> 0]
  BY DEF SettingsInit, FormInit
<1>2. kept \in KeptType
  BY <1>1 DEF KeptType, Backends, Codes, Workers
<1>3. form \in FormType /\ settingsRead.step # "answered"
  BY DEF SettingsInit, FormInit, FormType, NoRead, Backends, Languages, Workers, DefaultChoices
<1>4. chosen = [language |-> "auto", choice |-> EncodeDefaultModel(kept)]
  BY DEF SettingsInit, FormInit
<1>5. writes = [b \in Buttons |-> Unasked]
  BY DEF SettingsInit, FormInit
<1>6. Unasked \in [step : {"none", "asked", "answered"}, patch : PatchType,
                   chosen : DefaultChoices, language : Languages]
  BY UnsetFits DEF Unasked
<1>7. SettingsTyped
  BY <1>2, <1>3, <1>4, <1>5, <1>6, EncodedIsChoice DEF SettingsTyped, Languages
<1>8. WritesMake
  BY <1>5, UnsetFits DEF WritesMake, Buttons
<1>. QED
  BY <1>4, <1>7, <1>8 DEF SettingsInv, SavedDefaultIsKept

(* One step per action of the page, of the server and of the other window.    *)
LEMMA SettingsStep == SettingsInv /\ [SettingsNext]_settingsVars => SettingsInv'
<1>. SUFFICES ASSUME SettingsInv, [SettingsNext]_settingsVars PROVE SettingsInv'
  OBVIOUS
<1>. USE DEF SettingsInv
<1>. DEFINE Write == [step : {"none", "asked", "answered"}, patch : PatchType,
                      chosen : DefaultChoices, language : Languages]
<1>1. ASSUME NEW new \in FormType, Type(new) PROVE SettingsInv'
  BY <1>1 DEF Type, SettingsTyped, WritesMake, SavedDefaultIsKept
<1>2. CASE ChooseLanguage
  <2>1. PICK language \in Languages : Type([form EXCEPT !.language = language])
    BY <1>2 DEF ChooseLanguage
  <2>2. [form EXCEPT !.language = language] \in FormType
    BY DEF SettingsTyped, FormType
  <2>. QED
    BY <1>1, <2>1, <2>2
<1>3. CASE ChooseBackend
  <2>1. PICK b \in Backends : Type([form EXCEPT !.backend = b])
    BY <1>3 DEF ChooseBackend, Backends
  <2>2. [form EXCEPT !.backend = b] \in FormType
    BY DEF SettingsTyped, FormType
  <2>. QED
    BY <1>1, <2>1, <2>2
<1>4. CASE ChooseDefault
  <2>1. PICK choice \in DefaultChoices : Type([form EXCEPT !.choice = choice])
    BY <1>4 DEF ChooseDefault
  <2>2. [form EXCEPT !.choice = choice] \in FormType
    BY DEF SettingsTyped, FormType
  <2>. QED
    BY <1>1, <2>1, <2>2
<1>5. CASE TypeWorkers
  <2>1. PICK n \in Workers : Type([form EXCEPT !.workers = n])
    BY <1>5 DEF TypeWorkers
  <2>2. [form EXCEPT !.workers = n] \in FormType
    BY DEF SettingsTyped, FormType
  <2>. QED
    BY <1>1, <2>1, <2>2
<1>6. ASSUME NEW button \in Buttons, NEW patch \in PatchType, NEW choice \in DefaultChoices,
             NEW language \in Languages, Press(button, patch, choice, language),
             IF button = "tools" THEN Spares(patch) ELSE Makes(patch, choice)
      PROVE  SettingsInv'
  <2>1. writes' = [writes EXCEPT ![button] = [step |-> "asked", patch |-> patch,
                                              chosen |-> choice, language |-> language]]
        /\ UNCHANGED <<kept, settings, settingsRead, form, chosen>>
    BY <1>6 DEF Press
  <2>2. writes' \in [Buttons -> Write]
    BY <2>1 DEF SettingsTyped
  <2>3. WritesMake'
    BY <1>6, <2>1 DEF WritesMake, SettingsTyped, Buttons
  <2>. QED
    BY <2>1, <2>2, <2>3 DEF SettingsTyped, SavedDefaultIsKept
<1>7. CASE Save
  <2>1. form \in FormType /\ form.choice \in DefaultChoices /\ form.language \in Languages
    BY DEF SettingsTyped, FormType
  <2>. QED
    BY <1>6, <1>7, <2>1, SavePatchMakes DEF Save, Buttons
<1>8. CASE SetTools
  <2>1. PICK tools \in {"manual", "bundled"} :
          Press("tools", [Unset EXCEPT !.tools = tools], Automatic, "auto")
    BY <1>8 DEF SetTools
  <2>2. [Unset EXCEPT !.tools = tools] \in PatchType /\ Spares([Unset EXCEPT !.tools = tools])
    BY DEF Unset, PatchType, Spares
  <2>. QED
    BY <1>6, <2>1, <2>2 DEF Buttons, DefaultChoices, Languages
<1>9. CASE SetDefaultProvider
  <2>1. PICK p \in Providers :
          Press("default", [Unset EXCEPT !.backend = "provider", !.provider = p],
                [kind |-> "provider", name |-> p], "auto")
    BY <1>9 DEF SetDefaultProvider
  <2>. DEFINE patch == [Unset EXCEPT !.backend = "provider", !.provider = p]
  <2>2. patch \in PatchType /\ Makes(patch, [kind |-> "provider", name |-> p])
    BY DEF Unset, PatchType, Makes, Backends
  <2>. QED
    BY <1>6, <2>1, <2>2 DEF Buttons, DefaultChoices, Languages
<1>10. CASE SetDefaultModel
  <2>1. PICK m \in LocalModels :
          Press("model", [Unset EXCEPT !.backend = "local", !.model = m, !.provider = Null],
                [kind |-> "local", name |-> m], "auto")
    BY <1>10 DEF SetDefaultModel
  <2>. DEFINE patch == [Unset EXCEPT !.backend = "local", !.model = m, !.provider = Null]
  <2>2. patch \in PatchType /\ Makes(patch, [kind |-> "local", name |-> m])
    BY DEF Unset, PatchType, Makes, Backends
  <2>. QED
    BY <1>6, <2>1, <2>2 DEF Buttons, DefaultChoices, Languages
<1>11. CASE UpdateSettings
  <2>1. PICK b \in Buttons :
    /\ writes[b].step = "asked" /\ AcceptedPatch(writes[b].patch)
    /\ kept' = Patched(kept, writes[b].patch)
    /\ chosen' = CASE b = "save" -> [language |-> writes[b].language, choice |-> writes[b].chosen]
                   [] b \in {"default", "model"} -> [chosen EXCEPT !.choice = writes[b].chosen]
                   [] OTHER -> chosen
    /\ writes' = [writes EXCEPT ![b].step = "answered"]
    /\ UNCHANGED <<settings, settingsRead, form, types, writeCount>>
    BY <1>11 DEF UpdateSettings
  <2>2. writes[b] \in Write /\ kept \in KeptType
    BY DEF SettingsTyped
  <2>3. kept' \in KeptType
    BY <2>1, <2>2, PatchedFits
  <2>4. writes' \in [Buttons -> Write] /\ WritesMake'
    BY <2>1 DEF SettingsTyped, WritesMake, Buttons
  <2>5. chosen' \in [language : Languages, choice : DefaultChoices]
        /\ SavedDefaultIsKept'
    <3>1. CASE b = "tools"
      <4>1. chosen' = chosen /\ Spares(writes[b].patch)
        BY <2>1, <3>1 DEF WritesMake
      <4>. QED
        BY <2>1, <2>2, <4>1, PatchedSpares DEF SettingsTyped, SavedDefaultIsKept
    <3>2. CASE b # "tools"
      <4>1. chosen' \in [language : Languages, choice : DefaultChoices]
            /\ chosen'.choice = writes[b].chosen
        BY <2>1, <2>2, <3>2 DEF SettingsTyped, Buttons
      <4>2. Makes(writes[b].patch, writes[b].chosen)
        BY <2>1, <3>2 DEF WritesMake, Buttons
      <4>. QED
        BY <2>1, <2>2, <4>1, <4>2, PatchedMakes DEF SavedDefaultIsKept
    <3>. QED
      BY <3>1, <3>2
  <2>. QED
    BY <2>1, <2>3, <2>4, <2>5 DEF SettingsTyped
<1>12. CASE Written \/ Refused
  <2>1. PICK b \in Buttons : writes' = [writes EXCEPT ![b] = Unasked]
    BY <1>12 DEF Written, Refused
  <2>2. Unasked \in Write
    BY UnsetFits DEF Unasked
  <2>3. writes' \in [Buttons -> Write] /\ WritesMake'
    BY <2>1, <2>2, UnsetFits DEF SettingsTyped, WritesMake, Buttons
  <2>4. settingsRead'.step = "answered" => settingsRead'.saw \in KeptType
    BY <1>12 DEF Written, Refused, SettingsTyped
  <2>. QED
    BY <1>12, <2>3, <2>4 DEF Written, Refused, SettingsTyped, SavedDefaultIsKept
<1>13. CASE ReadSettings \/ SettingsSeen
  BY <1>13 DEF ReadSettings, SettingsSeen, SettingsTyped, WritesMake, SavedDefaultIsKept
<1>14. CASE SettingsArrive
  <2>1. settingsRead.saw \in KeptType
    BY <1>14 DEF SettingsArrive, SettingsTyped
  <2>2. form' \in FormType
    BY <1>14, <2>1, FormOfFits DEF SettingsArrive, SettingsTyped
  <2>. QED
    BY <1>14, <2>2 DEF SettingsArrive, NoRead, SettingsTyped, WritesMake, SavedDefaultIsKept
<1>15. CASE UNCHANGED formVars
  BY <1>15 DEF formVars, SettingsTyped, WritesMake, SavedDefaultIsKept
<1>. QED
  BY <1>2, <1>3, <1>4, <1>5, <1>7, <1>8, <1>9, <1>10, <1>11, <1>12, <1>13, <1>14, <1>15
     DEF SettingsNext, FormNext, settingsVars

(* The model or provider last saved as the default, by whichever of the       *)
(* buttons, is the one the pages make of the kept settings: no answer, poll   *)
(* or save of the other buttons, and no null that Settings.update drops,      *)
(* puts another in its place.                                                 *)
THEOREM SavedDefaultIsKeptHolds == SettingsSpec => []SavedDefaultIsKept
<1>1. SettingsInv => SavedDefaultIsKept
  BY DEF SettingsInv
<1>. QED
  BY <1>1, SettingsInvInit, SettingsStep, PTL DEF SettingsSpec

(* SettingsDesk: the counters, the query and the preferences.                 *)
PageTyped ==
  /\ settingsRead.step \in {"none", "asked", "answered"}
  /\ types \in 0..MaxTypes /\ writeCount \in 0..MaxWrites
PrefsTyped == prefs \in [Fields -> Valid] /\ exported \in [Fields -> Valid \cup {"other", "absent"}]

LEMMA PageTypedInit == SettingsInit => PageTyped /\ PrefsTyped
<1>. SUFFICES ASSUME SettingsInit PROVE PageTyped /\ PrefsTyped
  OBVIOUS
<1>1. settingsRead.step = "none" /\ types = 0 /\ writeCount = 0
  BY DEF SettingsInit, FormInit, NoRead
<1>2. PageTyped
  BY <1>1, SettingsAssumption DEF PageTyped
<1>3. PrefsTyped
  BY DEF SettingsInit, PrefsTyped, First, Valid
<1>. QED
  BY <1>2, <1>3

LEMMA PageStaysTyped == PageTyped /\ [SettingsNext]_settingsVars => PageTyped'
<1>. SUFFICES ASSUME PageTyped, [SettingsNext]_settingsVars PROVE PageTyped'
  OBVIOUS
<1>1. ASSUME NEW new, Type(new) PROVE PageTyped'
  BY <1>1, SettingsAssumption DEF Type, PageTyped
<1>2. ASSUME NEW button, NEW patch, NEW choice, NEW language, Press(button, patch, choice, language)
      PROVE  PageTyped'
  BY <1>2, SettingsAssumption DEF Press, PageTyped
<1>3. CASE ChooseLanguage \/ ChooseBackend \/ ChooseDefault \/ TypeWorkers
  BY <1>1, <1>3 DEF ChooseLanguage, ChooseBackend, ChooseDefault, TypeWorkers
<1>4. CASE Save \/ SetTools \/ SetDefaultProvider \/ SetDefaultModel
  BY <1>2, <1>4 DEF Save, SetTools, SetDefaultProvider, SetDefaultModel
<1>5. CASE \/ UpdateSettings \/ Written \/ Refused
           \/ ReadSettings \/ SettingsSeen \/ SettingsArrive
  BY <1>5 DEF UpdateSettings, Written, Refused, ReadSettings, SettingsSeen, SettingsArrive, NoRead,
     PageTyped
<1>6. CASE UNCHANGED formVars
  BY <1>6 DEF formVars, PageTyped
<1>. QED
  BY <1>3, <1>4, <1>5, <1>6 DEF SettingsNext, FormNext, settingsVars

LEMMA PrefsStayTyped == PrefsTyped /\ [SettingsNext]_settingsVars => PrefsTyped'
<1>. SUFFICES ASSUME PrefsTyped, [SettingsNext]_settingsVars PROVE PrefsTyped'
  OBVIOUS
<1>1. CASE SetPref \/ EditFile
  BY <1>1 DEF SetPref, EditFile, PrefsTyped
<1>2. CASE ExportSettings
  BY <1>2 DEF ExportSettings, PrefsTyped
<1>3. CASE ImportSettings
  BY <1>3 DEF ImportSettings, PrefsTyped, Valid
<1>4. CASE UNCHANGED prefVars
  BY <1>4 DEF prefVars, PrefsTyped
<1>. QED
  BY <1>1, <1>2, <1>3, <1>4 DEF SettingsNext, PrefNext, settingsVars

LEMMA SettingsTypeHolds == SettingsInit /\ [][SettingsNext]_settingsVars => []SettingsTypeOK
<1>1. SettingsInv /\ PageTyped /\ PrefsTyped => SettingsTypeOK
  BY DEF SettingsInv, SettingsTyped, KeptType, FormType, Backends, PageTyped, PrefsTyped, SettingsTypeOK
<1>. QED
  BY <1>1, SettingsInvInit, SettingsStep, PageTypedInit, PageStaysTyped, PrefsStayTyped, PTL

--------------------------------------------------------------------------------
(* ModelDesk: a download is listed.                                           *)

(* Where the one worker of the queue can be.                                  *)
FetcherSteps == {"idle", "begin", "between", "fetching", "fetched", "marking", "gone"}

DownloadsTyped ==
  /\ queue \in Seq(Models) /\ joining \in [Models -> Nat]
  /\ fetcher \in [step : FetcherSteps, models : SUBSET Models, source : Nat]
  /\ IF At("idle") THEN fetcher.models = {} ELSE \E m \in Models : fetcher.models = {m}

(* A download that no deletion forgot is pending in one place only.           *)
PendsOnce(m) ==
  /\ \A i, j \in 1..Len(queue) : queue[i] = m /\ queue[j] = m => i = j
  /\ joining[m] <= 1
  /\ ~(Queued(m) /\ joining[m] > 0) /\ ~(Queued(m) /\ m \in fetcher.models)
  /\ ~(joining[m] > 0 /\ m \in fetcher.models)

ModelInv == /\ DownloadsTyped /\ DownloadIsListed
            /\ \A m \in Models : m \notin dropped => PendsOnce(m)

LEMMA ModelInvInit == ModelInit => ModelInv
<1>. SUFFICES ASSUME ModelInit PROVE ModelInv
  OBVIOUS
<1>1. queue = <<>> /\ queue \in Seq(Models) /\ Len(queue) = 0
  BY EmptySeq DEF ModelInit
<1>2. joining = [m \in Models |-> 0] /\ fetcher = [step |-> "idle", models |-> {}, source |-> 0]
      /\ cancelled = {} /\ paused = {}
  BY DEF ModelInit, IdleFetcher
<1>3. DownloadsTyped
  BY <1>1, <1>2 DEF DownloadsTyped, At, FetcherSteps
<1>4. ASSUME NEW m \in Models PROVE ~Queued(m) /\ joining[m] = 0 /\ m \notin fetcher.models
  BY <1>1, <1>2 DEF Queued
<1>. QED
  BY <1>1, <1>2, <1>3, <1>4 DEF ModelInv, DownloadIsListed, Pending, PendsOnce

(* Nothing changes where downloads are pending.                               *)
LEMMA PlacesStay ==
  ASSUME ModelInv, UNCHANGED <<queue, joining, dropped>>, fetcher'.models = fetcher.models,
         fetcher' \in [step : FetcherSteps, models : SUBSET Models, source : Nat],
         (fetcher'.step = "idle") = (fetcher.step = "idle"),
         active \subseteq active', cancelled' \cup paused' \subseteq active'
  PROVE  ModelInv'
<1>1. DownloadsTyped'
  BY DEF ModelInv, DownloadsTyped, At
<1>2. \A m \in Models : /\ Queued(m)' <=> Queued(m)
                        /\ Pending(m)' <=> Pending(m)
                        /\ PendsOnce(m)' <=> PendsOnce(m)
  BY DEF Queued, Pending, PendsOnce
<1>. QED
  BY <1>1, <1>2 DEF ModelInv, DownloadIsListed

(* A run ends.                                                                *)
LEMMA EndKeepsListed ==
  ASSUME ModelInv, ~At("idle"), Forget(Fetching), UNCHANGED <<queue, joining>>
  PROVE  ModelInv'
<1>1. PICK own \in Models : fetcher.models = {own}
  BY DEF ModelInv, DownloadsTyped
<1>2. Fetching = own
  BY <1>1 DEF Fetching
<1>3. /\ active' = active \ {own} /\ cancelled' = cancelled \ {own} /\ paused' = paused \ {own}
      /\ fetcher' = [step |-> "idle", models |-> {}, source |-> 0]
      /\ dropped' = IF own \in dropped /\ (Queued(own) \/ joining[own] > 0)
                    THEN dropped ELSE dropped \ {own}
  BY <1>2 DEF Forget, IdleFetcher
<1>4. DownloadsTyped'
  BY <1>3 DEF ModelInv, DownloadsTyped, At, FetcherSteps
<1>5. \A m \in Models : /\ Queued(m)' <=> Queued(m)
                        /\ Pending(m)' <=> Queued(m) \/ joining[m] > 0
  BY <1>3 DEF Queued, Pending
<1>6. ASSUME NEW m \in Models, m \notin dropped' PROVE PendsOnce(m)'
  <2>1. CASE m \notin dropped
    BY <1>3, <1>5, <2>1 DEF ModelInv, PendsOnce
  <2>2. CASE m \in dropped
    <3>1. ~Queued(m) /\ ~(joining[m] > 0)
      BY <1>3, <1>6, <2>2
    <3>2. \A i \in 1..Len(queue) : queue[i] # m
      <4>1. DOMAIN queue = 1..Len(queue)
        BY LenProperties DEF ModelInv, DownloadsTyped
      <4>. QED
        BY <3>1, <4>1 DEF Queued
    <3>3. joining[m] <= 1
      BY <3>1 DEF ModelInv, DownloadsTyped
    <3>. QED
      BY <1>3, <1>5, <3>1, <3>2, <3>3 DEF PendsOnce
  <2>. QED
    BY <2>1, <2>2
<1>7. ASSUME NEW m \in Models, Pending(m)' PROVE m \in active' \/ m \in dropped'
  <2>1. CASE m = own
    BY <1>1, <1>3, <1>5, <1>7, <2>1 DEF ModelInv, PendsOnce
  <2>2. CASE m # own
    BY <1>3, <1>5, <1>7, <2>2 DEF ModelInv, DownloadIsListed, Pending
  <2>. QED
    BY <2>1, <2>2
<1>8. cancelled' \cup paused' \subseteq active'
  BY <1>3 DEF ModelInv, DownloadIsListed
<1>. QED
  BY <1>4, <1>6, <1>7, <1>8 DEF ModelInv, DownloadIsListed

LEMMA TakeKeepsListed == ModelInv /\ TakeDownload => ModelInv'
<1>. SUFFICES ASSUME ModelInv, TakeDownload PROVE ModelInv'
  OBVIOUS
<1>. DEFINE own == Head(queue)
<1>1. /\ own \in Models /\ queue' \in Seq(Models) /\ Len(queue') = Len(queue) - 1
      /\ \A i \in 1..Len(queue') : queue'[i] = queue[i + 1]
      /\ Len(queue) \in Nat /\ Len(queue') \in Nat /\ own = queue[1] /\ Len(queue) # 0
  <2>1. queue \in Seq(Models) /\ queue # <<>> /\ queue' = Tail(queue)
    BY DEF TakeDownload, ModelInv, DownloadsTyped
  <2>2. own \in Models /\ queue' \in Seq(Models) /\ Len(queue') = Len(queue) - 1
        /\ \A i \in 1..Len(queue') : queue'[i] = queue[i + 1]
    BY <2>1, HeadTailProperties
  <2>. QED
    BY <2>1, <2>2, LenProperties, EmptySeq
<1>2. DOMAIN queue = 1..Len(queue) /\ DOMAIN queue' = 1..Len(queue')
  BY <1>1, LenProperties DEF ModelInv, DownloadsTyped
<1>3. /\ fetcher' = [step |-> "begin", models |-> {own}, source |-> 0] /\ fetcher.models = {}
      /\ UNCHANGED <<joining, dropped, active, cancelled, paused>>
  BY DEF TakeDownload, ModelInv, DownloadsTyped
<1>4. DownloadsTyped'
  BY <1>1, <1>3 DEF ModelInv, DownloadsTyped, At, FetcherSteps
<1>5. Queued(own)
  BY <1>1, <1>2 DEF Queued
<1>6. ASSUME NEW m \in Models PROVE Queued(m)' => \E i \in 1..Len(queue) : i > 1 /\ queue[i] = m
  BY <1>1, <1>2 DEF Queued
<1>7. ASSUME NEW m \in Models PROVE Pending(m)' => Pending(m)
  BY <1>2, <1>3, <1>5, <1>6 DEF Pending, Queued
<1>8. ASSUME NEW m \in Models, m \notin dropped PROVE PendsOnce(m)'
  <2>1. PendsOnce(m)
    BY <1>8 DEF ModelInv
  <2>2. \A i, j \in 1..Len(queue') : queue'[i] = m /\ queue'[j] = m => i = j
    <3>. SUFFICES ASSUME NEW i \in 1..Len(queue'), NEW j \in 1..Len(queue'),
                         queue'[i] = m, queue'[j] = m PROVE i = j
      OBVIOUS
    <3>1. queue[i + 1] = m /\ queue[j + 1] = m /\ i + 1 \in 1..Len(queue) /\ j + 1 \in 1..Len(queue)
      BY <1>1
    <3>. QED
      BY <2>1, <3>1 DEF PendsOnce
  <2>3. m = own => ~Queued(m)'
    BY <1>1, <1>6, <2>1 DEF PendsOnce
  <2>4. Queued(m)' => Queued(m)
    BY <1>2, <1>6 DEF Queued
  <2>. QED
    BY <1>3, <1>5, <2>1, <2>2, <2>3, <2>4 DEF PendsOnce
<1>. QED
  BY <1>3, <1>4, <1>7, <1>8 DEF ModelInv, DownloadIsListed

LEMMA PutKeepsListed == ASSUME ModelInv, NEW own \in Models, PutDownload(own) PROVE ModelInv'
<1>1. /\ queue' \in Seq(Models) /\ Len(queue') = Len(queue) + 1 /\ Len(queue) \in Nat
      /\ \A i \in 1..Len(queue) : queue'[i] = queue[i]
      /\ queue'[Len(queue) + 1] = own
  BY AppendProperties, LenProperties DEF PutDownload, ModelInv, DownloadsTyped
<1>2. DOMAIN queue = 1..Len(queue) /\ DOMAIN queue' = 1..Len(queue')
  BY <1>1, LenProperties DEF ModelInv, DownloadsTyped
<1>3. /\ joining[own] > 0 /\ joining' = [joining EXCEPT ![own] = @ - 1]
      /\ joining \in [Models -> Nat]
      /\ UNCHANGED <<fetcher, dropped, active, cancelled, paused>>
  BY DEF PutDownload, ModelInv, DownloadsTyped
<1>4. DownloadsTyped'
  BY <1>1, <1>3 DEF ModelInv, DownloadsTyped, At
<1>5. ASSUME NEW m \in Models, m # own
      PROVE  (Queued(m)' <=> Queued(m)) /\ joining'[m] = joining[m]
  <2>1. Queued(m)' => Queued(m)
    <3>. SUFFICES ASSUME NEW i \in 1..Len(queue'), queue'[i] = m PROVE Queued(m)
      BY <1>2 DEF Queued
    <3>1. i \in 1..Len(queue) /\ queue[i] = m
      BY <1>1, <1>5
    <3>. QED
      BY <1>2, <3>1 DEF Queued
  <2>2. Queued(m) => Queued(m)'
    BY <1>1, <1>2 DEF Queued
  <2>3. joining'[m] = joining[m]
    BY <1>3, <1>5
  <2>. QED
    BY <2>1, <2>2, <2>3
<1>6. Pending(own) /\ joining'[own] = joining[own] - 1
  BY <1>3 DEF Pending
<1>7. ASSUME NEW m \in Models PROVE Pending(m)' => Pending(m)
  BY <1>3, <1>5, <1>6 DEF Pending
<1>8. ASSUME NEW m \in Models, m \notin dropped PROVE PendsOnce(m)'
  <2>1. PendsOnce(m)
    BY <1>8 DEF ModelInv
  <2>2. \A i, j \in 1..Len(queue') : queue'[i] = m /\ queue'[j] = m => i = j
    <3>1. m = own => \A i \in 1..Len(queue) : queue[i] # m
      BY <1>2, <1>3, <2>1 DEF PendsOnce, Queued
    <3>. QED
      BY <1>1, <2>1, <3>1 DEF PendsOnce
  <2>3. CASE m = own
    <3>1. joining'[m] = 0 /\ m \notin fetcher'.models
      BY <1>3, <1>6, <2>1, <2>3 DEF PendsOnce
    <3>. QED
      BY <2>2, <3>1 DEF PendsOnce
  <2>4. CASE m # own
    BY <1>3, <1>5, <2>1, <2>2, <2>4 DEF PendsOnce
  <2>. QED
    BY <2>3, <2>4
<1>. QED
  BY <1>3, <1>4, <1>7, <1>8 DEF ModelInv, DownloadIsListed

LEMMA QueueKeepsListed == ASSUME ModelInv, NEW own \in Models, QueueDownload(own) PROVE ModelInv'
<1>0. UNCHANGED <<queue, fetcher, dropped>> /\ joining \in [Models -> Nat]
      /\ fetcher \in [step : FetcherSteps, models : SUBSET Models, source : Nat]
  BY DEF QueueDownload, ModelInv, DownloadsTyped
<1>1. CASE own \in active
  <2>1. UNCHANGED <<joining, active, cancelled, paused>>
    BY <1>1 DEF QueueDownload
  <2>. QED
    BY <1>0, <2>1, PlacesStay DEF ModelInv, DownloadIsListed
<1>2. CASE own \notin active
  <2>1. /\ active' = active \cup {own} /\ joining' = [joining EXCEPT ![own] = @ + 1]
        /\ cancelled' = cancelled \ {own} /\ paused' = paused \ {own}
    BY <1>2 DEF QueueDownload
  <2>2. DownloadsTyped'
    BY <1>0, <2>1 DEF ModelInv, DownloadsTyped, At
  <2>3. \A m \in Models : /\ Queued(m)' <=> Queued(m)
                          /\ m # own => joining'[m] = joining[m] /\ (Pending(m)' <=> Pending(m))
    BY <1>0, <2>1 DEF Queued, Pending
  <2>4. ASSUME NEW m \in Models, m \notin dropped PROVE PendsOnce(m)'
    <3>1. PendsOnce(m)
      BY <2>4 DEF ModelInv
    <3>2. CASE m = own
      <4>1. ~Queued(m) /\ ~(joining[m] > 0) /\ m \notin fetcher.models
        BY <1>2, <2>4, <3>2 DEF ModelInv, DownloadIsListed, Pending
      <4>2. joining'[m] = 1
        BY <1>0, <2>1, <3>2, <4>1
      <4>. QED
        BY <1>0, <2>3, <3>1, <4>1, <4>2 DEF PendsOnce
    <3>3. CASE m # own
      BY <1>0, <2>3, <3>1, <3>3 DEF PendsOnce
    <3>. QED
      BY <3>2, <3>3
  <2>. QED
    BY <1>0, <2>1, <2>2, <2>3, <2>4 DEF ModelInv, DownloadIsListed
<1>. QED
  BY <1>1, <1>2

LEMMA ForgetKeepsListed == ASSUME ModelInv, NEW own \in Models, ForgetDownload(own) PROVE ModelInv'
<1>1. /\ UNCHANGED <<queue, joining, fetcher>> /\ active' = active \ {own}
      /\ cancelled' = cancelled \ {own} /\ paused' = paused \ {own}
      /\ dropped' = IF Pending(own) THEN dropped \cup {own} ELSE dropped
  BY DEF ForgetDownload
<1>2. DownloadsTyped'
  BY <1>1 DEF ModelInv, DownloadsTyped, At
<1>3. \A m \in Models : /\ Queued(m)' <=> Queued(m)
                        /\ Pending(m)' <=> Pending(m)
                        /\ PendsOnce(m)' <=> PendsOnce(m)
  BY <1>1 DEF Queued, Pending, PendsOnce
<1>. QED
  BY <1>1, <1>2, <1>3 DEF ModelInv, DownloadIsListed

(* One step per action of the page and of the queue.                          *)
LEMMA ModelStep == ModelInv /\ [ModelNext]_modelVars => ModelInv'
<1>. SUFFICES ASSUME ModelInv, [ModelNext]_modelVars PROVE ModelInv'
  OBVIOUS
<1>0. /\ fetcher \in [step : FetcherSteps, models : SUBSET Models, source : Nat]
      /\ cancelled \cup paused \subseteq active
  BY DEF ModelInv, DownloadsTyped, DownloadIsListed
<1>1. CASE TakeDownload
  BY <1>1, TakeKeepsListed
<1>2. CASE StorageLost \/ Stopped \/ WriteMarker \/ FilesGone
  BY <1>2, EndKeepsListed DEF StorageLost, Stopped, WriteMarker, FilesGone, EndRun, At
<1>3. CASE FetchFails
  <2>1. CASE fetcher.source < Sources
    <3>1. fetcher' = [fetcher EXCEPT !.step = "between"] /\ At("fetching")
          /\ UNCHANGED <<queue, joining, dropped, active, cancelled, paused>>
      BY <1>3, <2>1 DEF FetchFails, Move
    <3>. QED
      BY <1>0, <3>1, PlacesStay DEF At, FetcherSteps
  <2>2. CASE ~(fetcher.source < Sources)
    BY <1>3, <2>2, EndKeepsListed DEF FetchFails, EndRun, At
  <2>. QED
    BY <2>1, <2>2
<1>4. CASE Connect \/ FetchEnds \/ FilesChecked
  <2>1. PICK step \in {"fetching", "fetched", "marking"}, source \in {fetcher.source, fetcher.source + 1} :
          fetcher' = [fetcher EXCEPT !.step = step, !.source = source]
    BY <1>0, <1>4 DEF Connect, FetchEnds, FilesChecked, Move
  <2>2. fetcher.step # "idle" /\ UNCHANGED <<queue, joining, dropped, active, cancelled, paused>>
    BY <1>4 DEF Connect, FetchEnds, FilesChecked, At
  <2>3. /\ fetcher' \in [step : FetcherSteps, models : SUBSET Models, source : Nat]
        /\ fetcher'.models = fetcher.models /\ fetcher'.step # "idle"
    <3>1. source \in Nat
      BY <1>0
    <3>2. step \in FetcherSteps /\ step # "idle"
      BY DEF FetcherSteps
    <3>3. fetcher' = [step |-> step, models |-> fetcher.models, source |-> source]
      BY <1>0, <2>1
    <3>. QED
      BY <1>0, <3>1, <3>2, <3>3
  <2>. QED
    BY <1>0, <2>2, <2>3, PlacesStay
<1>5. ASSUME NEW m \in Models,
             AskDownload(m) \/ PauseDownload(m) \/ ResumeDownload(m) \/ StopDownload(m)
      PROVE  ModelInv'
  <2>1. UNCHANGED <<queue, joining, dropped, fetcher, active>>
        /\ cancelled' \cup paused' \subseteq active
    BY <1>0, <1>5 DEF AskDownload, PauseDownload, ResumeDownload, StopDownload, downloadVars
  <2>. QED
    BY <1>0, <2>1, PlacesStay
<1>6. ASSUME NEW m \in Models, DeleteFiles(m) PROVE ModelInv'
  <2>1. UNCHANGED <<queue, joining, dropped, active, cancelled, paused>>
    BY <1>6 DEF DeleteFiles
  <2>2. /\ fetcher' \in [step : FetcherSteps, models : SUBSET Models, source : Nat]
        /\ fetcher'.models = fetcher.models
        /\ (fetcher'.step = "idle") = (fetcher.step = "idle")
    BY <1>0, <1>6 DEF DeleteFiles, FetcherSteps
  <2>. QED
    BY <1>0, <2>1, <2>2, PlacesStay
<1>7. ASSUME NEW m \in Models, QueueDownload(m) \/ PutDownload(m) \/ ForgetDownload(m)
      PROVE  ModelInv'
  BY <1>7, QueueKeepsListed, PutKeepsListed, ForgetKeepsListed
<1>8. CASE ModelsAnswered \/ DownloadsAnswered \/ StorageChanges \/ UNCHANGED modelVars
  BY <1>0, <1>8, PlacesStay DEF ModelsAnswered, DownloadsAnswered, StorageChanges, modelVars,
     downloadVars
<1>. QED
  BY <1>1, <1>2, <1>3, <1>4, <1>5, <1>6, <1>7, <1>8 DEF ModelNext

(* A model that is downloaded or waits for it is listed as such, so that      *)
(* the page can show, pause and cancel it: no order of starts, pauses,        *)
(* cancellations, failures and restarts leaves a download nobody can see.     *)
THEOREM DownloadIsListedHolds == ModelSpec => []DownloadIsListed
<1>1. ModelInv => DownloadIsListed
  BY DEF ModelInv
<1>. QED
  BY <1>1, ModelInvInit, ModelStep, PTL DEF ModelSpec

--------------------------------------------------------------------------------
(* AppUpdates: one download at a time writes the installer.                   *)

(* A download that has been admitted and has not ended for the shell.         *)
Live(n) == transfers[n].step \in Writing \cup {"stopped", "failed"}

TransfersTyped ==
  transfers \in [Starts -> [step : {"unused", "over"} \cup Writing \cup Ends,
                            version : Channels \cup {"none"}, channel : Channels \cup {"none"}]]

(* While one is live the snapshot says that a download is in progress, so     *)
(* that none is admitted.                                                     *)
LiveIsAlone ==
  \A n \in Starts : Live(n) => /\ snapshot \in InProgress
                               /\ \A m \in Starts \ {n} : ~Live(m)

(* What a start takes over from the window: the channel and the release.      *)
ChecksTyped == /\ channel \in Channels /\ release \in Channels \cup {"none"}
               /\ checks \in [Checks -> [step : {"unused", "asked", "ended"},
                                         channel : Channels \cup {"none"}, auto : BOOLEAN,
                                         tell : BOOLEAN]]
               /\ automatic \in [check : BOOLEAN, notify : BOOLEAN]

UpdateInv == ChecksTyped /\ TransfersTyped /\ LiveIsAlone

(* The inductive invariant is stronger than what it is for.                   *)
LEMMA UpdateInvIsOneTransfer == UpdateInv => OneTransfer
BY DEF UpdateInv, TransfersTyped, LiveIsAlone, Live, OneTransfer, Writing, Ends

LEMMA UpdateInvInit == UpdateInit => UpdateInv
<1>. SUFFICES ASSUME UpdateInit PROVE UpdateInv
  OBVIOUS
<1>1. ChecksTyped
  BY DEF UpdateInit, ChecksTyped, NoCheck
<1>2. TransfersTyped /\ LiveIsAlone
  BY DEF UpdateInit, TransfersTyped, LiveIsAlone, Live, NoRun, Writing
<1>. QED
  BY <1>1, <1>2 DEF UpdateInv

(* The steps of the checks, and of the window, leave the downloads alone.    *)
LEMMA ChecksStayTyped ==
  ASSUME ChecksTyped,
         \/ ChooseChannel \/ ChoosePreference \/ DayPasses
         \/ \E k \in Checks : CheckNow(k) \/ TimerFires(k) \/ CheckAnswered(k) \/ CheckFails(k)
  PROVE  ChecksTyped'
<1>1. CASE ChooseChannel \/ ChoosePreference \/ DayPasses
  BY <1>1 DEF ChooseChannel, ChoosePreference, DayPasses, ChecksTyped
<1>2. ASSUME NEW k \in Checks, NEW auto \in BOOLEAN, StartCheck(k, auto),
             UNCHANGED <<channel, automatic, release>>
      PROVE  ChecksTyped'
  <2>. DEFINE new == [step |-> "asked", channel |-> channel, auto |-> auto,
                      tell |-> auto /\ automatic.notify]
  <2>1. (auto /\ automatic.notify) \in BOOLEAN
    BY <1>2 DEF ChecksTyped
  <2>2. new \in [step : {"unused", "asked", "ended"}, channel : Channels \cup {"none"},
                 auto : BOOLEAN, tell : BOOLEAN]
    BY <2>1, Zenon DEF ChecksTyped
  <2>3. checks' = [checks EXCEPT ![k] = new]
    BY <1>2 DEF StartCheck
  <2>. QED
    BY <2>2, <2>3, <1>2 DEF ChecksTyped
<1>3. ASSUME NEW k \in Checks, CheckNow(k) \/ TimerFires(k)
      PROVE  ChecksTyped'
  BY <1>2, <1>3 DEF CheckNow, TimerFires
<1>4. ASSUME NEW k \in Checks, CheckAnswered(k) \/ CheckFails(k)
      PROVE  ChecksTyped'
  BY <1>4 DEF CheckAnswered, CheckFails, ChecksTyped
<1>. QED
  BY <1>1, <1>3, <1>4

(* A step of one download on its way keeps it the only one on its way.        *)
LEMMA OneMoves ==
  ASSUME UpdateInv, NEW n \in Starts, Live(n),
         NEW next \in {"unused", "over"} \cup Writing \cup Ends,
         transfers' = [transfers EXCEPT ![n].step = next],
         next \in Writing \cup {"stopped", "failed"} => snapshot' \in InProgress
  PROVE  TransfersTyped' /\ LiveIsAlone'
<1>1. TransfersTyped'
  BY DEF UpdateInv, TransfersTyped
<1>2. \A m \in Starts \ {n} : ~Live(m)'
  BY DEF UpdateInv, LiveIsAlone, TransfersTyped, Live
<1>3. Live(n)' => next \in Writing \cup {"stopped", "failed"}
  BY DEF UpdateInv, TransfersTyped, Live
<1>. QED
  BY <1>1, <1>2, <1>3 DEF LiveIsAlone

(* One step per action of the window and of the shell.                        *)
LEMMA UpdateStep == UpdateInv /\ [UpdateNext]_updateVars => UpdateInv'
<1>. SUFFICES ASSUME UpdateInv, [UpdateNext]_updateVars PROVE UpdateInv'
  OBVIOUS
<1>. USE DEF UpdateInv
<1>1. ASSUME \/ ChooseChannel \/ ChoosePreference \/ DayPasses
             \/ \E k \in Checks : CheckNow(k) \/ TimerFires(k) \/ CheckAnswered(k) \/ CheckFails(k)
      PROVE  UpdateInv'
  <2>1. UNCHANGED shellVars
    BY <1>1 DEF ChooseChannel, ChoosePreference, DayPasses, CheckNow, TimerFires, CheckAnswered,
                CheckFails
  <2>. QED
    BY <1>1, <2>1, ChecksStayTyped DEF shellVars, TransfersTyped, LiveIsAlone, Live
<1>2. ASSUME UNCHANGED checkVars, TransfersTyped' /\ LiveIsAlone'
      PROVE  UpdateInv'
  BY <1>2 DEF checkVars, ChecksTyped
<1>3. ASSUME NEW n \in Starts, StartDownload(n) PROVE UpdateInv'
  <2>1. transfers' = [transfers EXCEPT ![n] = [step |-> "selecting", version |-> release,
                                               channel |-> channel]]
        /\ snapshot \notin InProgress /\ snapshot' = "preparing" /\ UNCHANGED checkVars
    BY <1>3 DEF StartDownload, MayStart, Mutate
  <2>2. TransfersTyped'
    BY <2>1 DEF TransfersTyped, ChecksTyped, Writing
  <2>3. \A m \in Starts \ {n} : ~Live(m)'
    BY <2>1 DEF TransfersTyped, LiveIsAlone, Live
  <2>. QED
    BY <1>2, <2>1, <2>2, <2>3 DEF LiveIsAlone, InProgress
<1>4. ASSUME UNCHANGED transfers, UNCHANGED checkVars, snapshot' = snapshot \/ snapshot' \in InProgress
      PROVE  UpdateInv'
  BY <1>2, <1>4 DEF TransfersTyped, LiveIsAlone, Live
<1>5. CASE CancelDownload \/ CancelActs \/ EventArrives \/ AnswerArrives
           \/ \E n \in Starts : ReportProgress(n)
  BY <1>4, <1>5 DEF CancelDownload, CancelActs, EventArrives, AnswerArrives, ReportProgress,
                    Mutate, shellVars, InProgress
<1>6. ASSUME NEW n \in Starts, NEW from \in Writing, NEW to \in Writing, Step(n, from, to)
      PROVE  UpdateInv'
  <2>1. PICK next \in {"stopped", "failed", to} : transfers' = [transfers EXCEPT ![n].step = next]
    BY <1>6 DEF Step
  <2>2. Live(n) /\ UNCHANGED snapshot /\ UNCHANGED checkVars
    BY <1>6 DEF Step, Live
  <2>3. snapshot' \in InProgress
    BY <2>2 DEF LiveIsAlone
  <2>. QED
    BY <1>2, <2>1, <2>2, <2>3, OneMoves DEF Ends
<1>7. ASSUME NEW n \in Starts, FetchReleases(n) \/ Transfer(n) \/ Verify(n) PROVE UpdateInv'
  BY <1>6, <1>7 DEF FetchReleases, Transfer, Verify, Writing
<1>8. ASSUME NEW n \in Starts, SelectRelease(n) PROVE UpdateInv'
  <2>1. Live(n) /\ UNCHANGED checkVars
    BY <1>8 DEF SelectRelease, Live, Writing
  <2>2. snapshot \in InProgress
    BY <2>1 DEF LiveIsAlone
  <2>3. \E next \in {"failed", "downloading", "finished"} :
           /\ transfers' = [transfers EXCEPT ![n].step = next]
           /\ next # "finished" => snapshot' \in InProgress
    BY <1>8, <2>2 DEF SelectRelease, Mutate, InProgress
  <2>. QED
    BY <1>2, <2>1, <2>3, OneMoves DEF Writing, Ends
<1>9. ASSUME NEW n \in Starts, AnnounceVerifying(n) \/ Complete(n) PROVE UpdateInv'
  <2>1. Live(n) /\ UNCHANGED checkVars
    BY <1>9 DEF AnnounceVerifying, Complete, Live, Writing
  <2>2. \E next \in {"verifying", "finished"} :
           /\ transfers' = [transfers EXCEPT ![n].step = next]
           /\ next # "finished" => snapshot' \in InProgress
    BY <1>9 DEF AnnounceVerifying, Complete, Mutate, InProgress
  <2>. QED
    BY <1>2, <2>1, <2>2, OneMoves DEF Writing, Ends
<1>10. ASSUME NEW n \in Starts, EndDownload(n) PROVE UpdateInv'
  <2>1. transfers[n].step \in Ends /\ UNCHANGED checkVars
        /\ transfers' = [transfers EXCEPT ![n].step = "over"]
    BY <1>10 DEF EndDownload
  <2>2. CASE Live(n)
    BY <1>2, <2>1, <2>2, OneMoves DEF Writing
  <2>3. CASE ~Live(n)
    <3>1. transfers[n].step = "finished" /\ UNCHANGED snapshot
      BY <1>10, <2>1, <2>3 DEF EndDownload, Live, Ends
    <3>2. TransfersTyped' /\ \A m \in Starts : Live(m)' => m # n /\ Live(m)
      BY <2>1 DEF TransfersTyped, Live, Writing
    <3>. QED
      BY <1>2, <2>1, <3>1, <3>2 DEF LiveIsAlone
  <2>. QED
    BY <2>2, <2>3
<1>11. CASE UNCHANGED updateVars
  BY <1>11 DEF updateVars, checkVars, shellVars, ChecksTyped, TransfersTyped, LiveIsAlone, Live
<1>. QED
  BY <1>1, <1>3, <1>5, <1>7, <1>8, <1>9, <1>10, <1>11 DEF UpdateNext

(* At most one download of an update writes the installer file, however       *)
(* often the button is pressed, the channel changes, and a download is        *)
(* cancelled or fails and is started again: the shell admits a start under    *)
(* the lock of its snapshot.                                                  *)
THEOREM OneTransferHolds == UpdateSpec => []OneTransfer
BY UpdateInvInit, UpdateStep, UpdateInvIsOneTransfer, PTL DEF UpdateSpec

(* AppUpdates: what the proof about the downloads has no use for.             *)
NoticesTyped ==
  /\ due \in BOOLEAN /\ timer \in BOOLEAN
  /\ checkStatus \in {"idle", "checking", "success", "error"}
  /\ notified \in Channels \cup {"none"} /\ toggles \in 0..MaxToggles

StatusTyped ==
  /\ snapshot \in DownloadStatuses /\ cancelFlag \in BOOLEAN /\ looked \in BOOLEAN
  /\ news \in Seq(DownloadStatuses) /\ answers \subseteq DownloadStatuses
  /\ shown \in DownloadStatuses /\ cancels \in 0..MaxCancels

LEMMA StatusTypedInit == UpdateInit => NoticesTyped /\ StatusTyped
<1>. SUFFICES ASSUME UpdateInit PROVE NoticesTyped /\ StatusTyped
  OBVIOUS
<1>1. NoticesTyped
  BY UpdateAssumption DEF UpdateInit, NoticesTyped
<1>2. StatusTyped
  <2>1. snapshot = "idle" /\ cancelFlag = FALSE /\ looked = FALSE /\ news = <<>> /\ answers = {}
        /\ shown = "idle" /\ cancels = 0
    BY DEF UpdateInit
  <2>2. "idle" \in DownloadStatuses /\ cancels \in 0..MaxCancels
    BY <2>1, UpdateAssumption DEF DownloadStatuses
  <2>3. <<>> \in Seq(DownloadStatuses)
    OBVIOUS
  <2>4. snapshot \in DownloadStatuses /\ shown \in DownloadStatuses /\ news \in Seq(DownloadStatuses)
    BY <2>1, <2>2, <2>3
  <2>. QED
    BY <2>1, <2>2, <2>4 DEF StatusTyped
<1>. QED
  BY <1>1, <1>2

LEMMA NoticesStayTyped ==
  UpdateInv /\ NoticesTyped /\ [UpdateNext]_updateVars => NoticesTyped'
<1>. SUFFICES ASSUME UpdateInv, NoticesTyped, [UpdateNext]_updateVars PROVE NoticesTyped'
  OBVIOUS
<1>1. CASE ChooseChannel \/ ChoosePreference
  <2>1. toggles' \in 0..MaxToggles
    BY <1>1, UpdateAssumption DEF ChooseChannel, ChoosePreference, Toggle, NoticesTyped
  <2>2. UNCHANGED <<due, checkStatus, notified>> /\ Rearm
    BY <1>1 DEF ChooseChannel, ChoosePreference
  <2>3. timer' \in BOOLEAN
    BY <2>2 DEF Rearm
  <2>. QED
    BY <2>1, <2>2, <2>3 DEF NoticesTyped
<1>2. CASE DayPasses
  <2>1. toggles' \in 0..MaxToggles
    BY <1>2, UpdateAssumption DEF DayPasses, Toggle, NoticesTyped
  <2>. QED
    BY <1>2, <2>1 DEF DayPasses, NoticesTyped
<1>3. ASSUME NEW k \in Checks, CheckNow(k) \/ TimerFires(k) PROVE NoticesTyped'
  <2>1. checkStatus' = "checking" /\ timer' \in {timer, FALSE} /\ UNCHANGED <<due, notified, toggles>>
    BY <1>3 DEF CheckNow, TimerFires, StartCheck
  <2>. QED
    BY <2>1 DEF NoticesTyped
<1>4. ASSUME NEW k \in Checks, CheckAnswered(k) \/ CheckFails(k) PROVE NoticesTyped'
  <2>1. checks[k].channel \in Channels \cup {"none"}
    BY DEF UpdateInv, ChecksTyped
  <2>2. notified' \in {notified, checks[k].channel, "none"} /\ UNCHANGED toggles
    BY <1>4 DEF CheckAnswered, CheckFails
  <2>3. checkStatus' \in {"success", "error"} /\ due' \in {due, FALSE} /\ timer' \in {timer, FALSE}
    BY <1>4 DEF CheckAnswered, CheckFails, Remember
  <2>. QED
    BY <2>1, <2>2, <2>3 DEF NoticesTyped
<1>5. CASE UNCHANGED checkVars
  BY <1>5 DEF checkVars, NoticesTyped
<1>6. CASE \/ CancelDownload \/ CancelActs \/ EventArrives \/ AnswerArrives
           \/ \E n \in Starts : \/ StartDownload(n) \/ ReportProgress(n) \/ Downloads(n)
  BY <1>5, <1>6 DEF CancelDownload, CancelActs, EventArrives, AnswerArrives, StartDownload,
     ReportProgress, Downloads, FetchReleases, SelectRelease, Transfer, AnnounceVerifying, Verify,
     Complete, EndDownload, Step
<1>. QED
  BY <1>1, <1>2, <1>3, <1>4, <1>5, <1>6 DEF UpdateNext, Downloads, updateVars

(* Every state of the download that is told is one of the list.               *)
LEMMA MutateTyped ==
  ASSUME StatusTyped, NEW status \in DownloadStatuses, Mutate(status)
  PROVE  snapshot' \in DownloadStatuses /\ news' \in Seq(DownloadStatuses)
BY AppendProperties DEF StatusTyped, Mutate

LEMMA StatusStaysTyped ==
  UpdateInv /\ StatusTyped /\ [UpdateNext]_updateVars => StatusTyped'
<1>. SUFFICES ASSUME UpdateInv, StatusTyped, [UpdateNext]_updateVars PROVE StatusTyped'
  OBVIOUS
<1>. DEFINE NewsTyped == snapshot' \in DownloadStatuses /\ news' \in Seq(DownloadStatuses)
<1>0. {"preparing", "downloading", "verifying", "cancelling", "cancelled", "completed", "error"}
        \subseteq DownloadStatuses
  BY DEF DownloadStatuses, InProgress
<1>1. CASE UNCHANGED <<shellVars, answers, shown, cancels>>
  BY <1>1 DEF shellVars, StatusTyped
<1>2. CASE \/ ChooseChannel \/ ChoosePreference \/ DayPasses
           \/ \E k \in Checks : CheckNow(k) \/ TimerFires(k) \/ CheckAnswered(k) \/ CheckFails(k)
  BY <1>1, <1>2 DEF ChooseChannel, ChoosePreference, DayPasses, CheckNow, TimerFires,
     CheckAnswered, CheckFails
<1>3. ASSUME NEW n \in Starts, StartDownload(n) PROVE StatusTyped'
  <2>1. NewsTyped /\ answers' = answers \cup {"preparing"} /\ cancelFlag' = FALSE
        /\ UNCHANGED <<looked, shown, cancels>>
    BY <1>0, <1>3, MutateTyped DEF StartDownload
  <2>. QED
    BY <1>0, <2>1 DEF StatusTyped
<1>4. CASE CancelDownload
  <2>1. cancels' \in 0..MaxCancels
    BY <1>4, UpdateAssumption DEF CancelDownload, StatusTyped
  <2>2. looked' \in {TRUE, looked} /\ answers' \in {answers, answers \cup {snapshot}}
        /\ UNCHANGED <<snapshot, cancelFlag, news, shown>>
    BY <1>4 DEF CancelDownload
  <2>. QED
    BY <2>1, <2>2 DEF StatusTyped
<1>5. CASE CancelActs
  <2>1. NewsTyped /\ answers' = answers \cup {"cancelling"} /\ cancelFlag' = TRUE /\ looked' = FALSE
        /\ UNCHANGED <<shown, cancels>>
    BY <1>0, <1>5, MutateTyped DEF CancelActs
  <2>. QED
    BY <1>0, <2>1 DEF StatusTyped
<1>6. ASSUME NEW n \in Starts, ReportProgress(n) \/ Downloads(n) PROVE StatusTyped'
  <2>1. ASSUME NEW from, NEW to, Step(n, from, to) PROVE StatusTyped'
    BY <2>1 DEF Step, StatusTyped
  <2>2. NewsTyped \/ \E from, to : Step(n, from, to)
    <3>1. CASE ReportProgress(n)
      BY <1>0, <3>1, MutateTyped DEF ReportProgress
    <3>2. CASE FetchReleases(n) \/ Transfer(n) \/ Verify(n)
      BY <3>2 DEF FetchReleases, Transfer, Verify
    <3>3. CASE SelectRelease(n)
      BY <1>0, <3>3, MutateTyped DEF SelectRelease, StatusTyped
    <3>4. CASE AnnounceVerifying(n) \/ Complete(n)
      BY <1>0, <3>4, MutateTyped DEF AnnounceVerifying, Complete
    <3>5. CASE EndDownload(n)
      BY <1>0, <3>5, MutateTyped DEF EndDownload, StatusTyped, Ends
    <3>. QED
      BY <1>6, <3>1, <3>2, <3>3, <3>4, <3>5 DEF Downloads
  <2>3. \/ \E from, to : Step(n, from, to)
        \/ /\ cancelFlag' \in {cancelFlag, FALSE}
           /\ UNCHANGED <<looked, answers, shown, cancels>>
    <3>1. CASE ReportProgress(n)
      BY <3>1 DEF ReportProgress
    <3>2. CASE FetchReleases(n) \/ Transfer(n) \/ Verify(n)
      BY <3>2 DEF FetchReleases, Transfer, Verify
    <3>3. CASE SelectRelease(n) \/ AnnounceVerifying(n) \/ Complete(n)
      BY <3>3 DEF SelectRelease, AnnounceVerifying, Complete
    <3>4. CASE EndDownload(n)
      BY <3>4 DEF EndDownload
    <3>. QED
      BY <1>6, <3>1, <3>2, <3>3, <3>4 DEF Downloads
  <2>4. CASE /\ NewsTyped /\ cancelFlag' \in {cancelFlag, FALSE}
             /\ UNCHANGED <<looked, answers, shown, cancels>>
    <3>1. cancelFlag' \in BOOLEAN
      BY <2>4 DEF StatusTyped
    <3>. QED
      BY <2>4, <3>1 DEF StatusTyped
  <2>. QED
    BY <2>1, <2>2, <2>3, <2>4
<1>7. CASE EventArrives
  <2>1. Head(news) \in DownloadStatuses /\ Tail(news) \in Seq(DownloadStatuses)
    BY <1>7, HeadTailProperties DEF EventArrives, StatusTyped
  <2>. QED
    BY <1>7, <2>1 DEF EventArrives, StatusTyped
<1>8. CASE AnswerArrives
  BY <1>8 DEF AnswerArrives, StatusTyped, shellVars
<1>. QED
  BY <1>1, <1>2, <1>3, <1>4, <1>5, <1>6, <1>7, <1>8 DEF UpdateNext, Downloads, updateVars

LEMMA UpdateTypeHolds == UpdateInit /\ [][UpdateNext]_updateVars => []UpdateTypeOK
<1>1. UpdateInv /\ NoticesTyped /\ StatusTyped => UpdateTypeOK
  BY DEF UpdateInv, ChecksTyped, TransfersTyped, NoticesTyped, StatusTyped, UpdateTypeOK
<1>. QED
  BY <1>1, UpdateInvInit, UpdateStep, StatusTypedInit, NoticesStayTyped, StatusStaysTyped, PTL

--------------------------------------------------------------------------------
(* ModelCatalog: the ladder has every model on show, in order.                *)

LEMMA FirstCounted == ASSUME NEW n \in Nat PROVE IsFiniteSet(1..n) /\ Cardinality(1..n) = n
  <1>1. 1 \in Int /\ n \in Int
    OBVIOUS
  <1>2. IsFiniteSet(1..n) /\ Cardinality(1..n) = IF 1 > n THEN 0 ELSE n - 1 + 1
    BY <1>1, FS_Interval, Zenon
  <1> QED
    BY <1>2

LEMMA RegistryIsNumbered == DOMAIN Registry = 1..27
BY DEF Registry

(* The grades of a model, measured or estimated, are numbers, and so is what  *)
(* the ladder sorts by.                                                       *)
Measured == 0..3

LEMMA GradesAreMeasured ==
  ASSUME NEW s \in Measured, NEW a \in Measured, NEW l \in Measured
  PROVE  Grades(s, a, l) \in [speed : Measured, accuracy : Measured, languages : Measured]
BY DEF Grades

LEMMA TableIsMeasured ==
  \A row \in LadderTable : row[2] \in Measured /\ row[3] \in Measured /\ row[4] \in Measured
BY DEF LadderTable, Measured

LEMMA LadderIsMeasured ==
  ASSUME NEW name \in DOMAIN MODEL_LADDER
  PROVE  MODEL_LADDER[name] \in [speed : Measured, accuracy : Measured, languages : Measured]
<1>. DEFINE graded == CHOOSE r \in LadderTable : r[1] = name
<1>1. name \in {row[1] : row \in LadderTable}
  BY DEF MODEL_LADDER
<1>2. \E r \in LadderTable : r[1] = name
  BY <1>1
<1>3. graded \in LadderTable
  BY <1>2
<1>4. MODEL_LADDER[name] = Grades(graded[2], graded[3], graded[4])
  BY <1>1, Zenon DEF MODEL_LADDER
<1>. HIDE DEF graded
<1>. QED
  BY <1>3, <1>4, TableIsMeasured, GradesAreMeasured

LEMMA TiersAreMeasured ==
  ASSUME NEW score, NEW s, NEW a, NEW b PROVE Tier(score, s, a, b) \in Measured
BY DEF Tier, Measured

LEMMA ModelIsMeasured ==
  ASSUME NEW c
  PROVE  ModelLadder(c) \in [speed : Measured, accuracy : Measured, languages : Measured]
<1>1. "faster-whisper-large-v3-turbo" \in DOMAIN MODEL_LADDER
  BY DEF MODEL_LADDER, LadderTable
<1>2. EstimateModelLadder(c) \in [speed : Measured, accuracy : Measured, languages : Measured]
  <2>1. 1 \in Measured /\ 2 \in Measured
    BY DEF Measured
  <2>2. \A l \in Measured : (IF c.name \in Qwen3 THEN 1 ELSE l) \in Measured
    BY <2>1
  <2>3. \A l \in Measured : (IF c.engine = "funasr" THEN 2 ELSE l) \in Measured
    BY <2>1
  <2>. QED
    BY <2>2, <2>3, TiersAreMeasured, GradesAreMeasured DEF EstimateModelLadder
<1>. QED
  BY <1>1, <1>2, LadderIsMeasured DEF ModelLadder

LEMMA RanksAreNumbers ==
  ASSUME NEW key \in SortKeys, NEW i, NEW downloaded PROVE Rank(key, i, downloaded) \in Nat
<1>. DEFINE c == Registry[i]
            grades == ModelLadder(c)
<1>1. grades \in [speed : Measured, accuracy : Measured, languages : Measured]
  BY ModelIsMeasured
<1>. HIDE DEF grades
<1>2. grades.speed \in Nat /\ grades.accuracy \in Nat /\ grades.languages \in Nat
  BY <1>1 DEF Measured
<1>3. key \in {"speed", "accuracy", "languages"} => grades[key] \in Nat
  BY <1>2
<1>4. \A flag : Missing(flag) \in Nat
  BY DEF Missing
<1>5. grades.speed + grades.accuracy \in Nat
  BY <1>2
<1>. QED
  BY <1>3, <1>4, <1>5 DEF Rank, grades

(* How many come before a place counts the places, each once.                 *)
Ahead(S, rank, i) ==
  {j \in S : \/ rank[j] < rank[i]
             \/ rank[j] = rank[i] /\ j < i}

LEMMA AheadCounts ==
  ASSUME NEW S \in SUBSET Nat, IsFiniteSet(S), NEW rank \in [S -> Nat], NEW i \in S
  PROVE  /\ IsFiniteSet(Ahead(S, rank, i)) /\ Cardinality(Ahead(S, rank, i)) \in Nat
         /\ 1 + Cardinality(Ahead(S, rank, i)) \in 1..Cardinality(S)
<1>. DEFINE before == Ahead(S, rank, i)
<1>1. before \subseteq S /\ i \notin before
  BY DEF Ahead
<1>. HIDE DEF before
<1>2. before \in SUBSET (S \ {i})
  BY <1>1
<1>3. IsFiniteSet(S \ {i}) /\ Cardinality(S \ {i}) = Cardinality(S) - 1
  BY FS_RemoveElement
<1>4. IsFiniteSet(before) /\ Cardinality(before) <= Cardinality(S \ {i})
  BY <1>2, <1>3, FS_Subset
<1>5. Cardinality(before) \in Nat /\ Cardinality(S) \in Nat
  BY <1>4, FS_CardinalityType
<1>. QED
  BY <1>3, <1>4, <1>5 DEF before

(* Who is ahead of another has a place before it.                             *)
LEMMA AheadIsBefore ==
  ASSUME NEW S \in SUBSET Nat, IsFiniteSet(S), NEW rank \in [S -> Nat], NEW i \in S, NEW j \in S,
         i \in Ahead(S, rank, j)
  PROVE  Cardinality(Ahead(S, rank, i)) < Cardinality(Ahead(S, rank, j))
<1>. DEFINE before == Ahead(S, rank, i)
            beyond == Ahead(S, rank, j)
<1>1. before \cup {i} \subseteq beyond /\ i \notin before
  <2>1. i \notin before
    BY DEF Ahead
  <2>2. rank[i] < rank[j] \/ (rank[i] = rank[j] /\ i < j)
    BY DEF Ahead
  <2>3. ASSUME NEW q \in before PROVE q \in beyond
    <3>1. q \in S /\ (rank[q] < rank[i] \/ (rank[q] = rank[i] /\ q < i))
      BY <2>3 DEF Ahead
    <3>2. /\ q \in Nat /\ i \in Nat /\ j \in Nat
          /\ rank[q] \in Nat /\ rank[i] \in Nat /\ rank[j] \in Nat
      BY <3>1
    <3>3. rank[q] < rank[j] \/ (rank[q] = rank[j] /\ q < j)
      BY <2>2, <3>1, <3>2
    <3>. QED
      BY <3>1, <3>3 DEF Ahead
  <2>. QED
    BY <2>1, <2>3
<1>2. /\ IsFiniteSet(before) /\ Cardinality(before) \in Nat
      /\ IsFiniteSet(beyond) /\ Cardinality(beyond) \in Nat
  <2>1. IsFiniteSet(before) /\ Cardinality(before) \in Nat
    BY AheadCounts, Zenon
  <2>2. IsFiniteSet(beyond) /\ Cardinality(beyond) \in Nat
    BY AheadCounts, Zenon
  <2>. QED
    BY <2>1, <2>2
<1>. HIDE DEF before, beyond
<1>3. Cardinality(before \cup {i}) = Cardinality(before) + 1
  BY <1>1, <1>2, FS_AddElement
<1>4. Cardinality(before \cup {i}) <= Cardinality(beyond)
  <2>1. before \cup {i} \in SUBSET beyond
    BY <1>1
  <2>. QED
    BY <1>2, <2>1, FS_Subset
<1>. QED
  BY <1>2, <1>3, <1>4 DEF before, beyond

LEMMA OneIsAhead ==
  ASSUME NEW S \in SUBSET Nat, NEW rank \in [S -> Nat], NEW i \in S, NEW j \in S, i # j
  PROVE  i \in Ahead(S, rank, j) \/ j \in Ahead(S, rank, i)
<1>1. rank[i] \in Nat /\ rank[j] \in Nat /\ i \in Nat /\ j \in Nat
  OBVIOUS
<1>. QED
  BY <1>1 DEF Ahead

(* Every place is somebody's, and only one's.                                 *)
LEMMA PlacesAreTaken ==
  ASSUME NEW S \in SUBSET Nat, IsFiniteSet(S), NEW rank \in [S -> Nat]
  PROVE  /\ Cardinality(S) \in Nat
         /\ \A p \in 1..Cardinality(S) :
              \E i \in S : 1 + Cardinality(Ahead(S, rank, i)) = p
         /\ \A i, j \in S :
              Cardinality(Ahead(S, rank, i)) = Cardinality(Ahead(S, rank, j)) => i = j
<1>. DEFINE place == [i \in S |-> 1 + Cardinality(Ahead(S, rank, i))]
            n == Cardinality(S)
<1>1. n \in Nat
  BY FS_CardinalityType
<1>2. place \in [S -> 1..n]
  BY AheadCounts
<1>3. \A i \in S : Cardinality(Ahead(S, rank, i)) \in Nat
  BY AheadCounts
<1>4. ASSUME NEW i \in S, NEW j \in S,
             Cardinality(Ahead(S, rank, i)) = Cardinality(Ahead(S, rank, j)), i # j
      PROVE  FALSE
  <2>1. \/ Cardinality(Ahead(S, rank, i)) < Cardinality(Ahead(S, rank, j))
        \/ Cardinality(Ahead(S, rank, j)) < Cardinality(Ahead(S, rank, i))
    BY <1>4, OneIsAhead, AheadIsBefore
  <2>. QED
    BY <1>3, <1>4, <2>1
<1>5. ASSUME NEW i \in S, NEW j \in S, place[i] = place[j] PROVE i = j
  <2>1. Cardinality(Ahead(S, rank, i)) = Cardinality(Ahead(S, rank, j))
    BY <1>3, <1>5
  <2>. QED
    BY <1>4, <2>1
<1>. HIDE DEF place
<1>6. place \in Injection(S, 1..n)
  BY <1>2, <1>5 DEF Injection, IsInjective
<1>7. IsFiniteSet(1..n) /\ Cardinality(1..n) = n
  <2>1. 1 \in Int /\ n \in Int
    BY <1>1
  <2>2. IsFiniteSet(1..n) /\ Cardinality(1..n) = IF 1 > n THEN 0 ELSE n - 1 + 1
    BY <2>1, FS_Interval, Zenon
  <2>. QED
    BY <1>1, <2>2
<1>8. place \in Surjection(S, 1..n)
  BY <1>6, <1>7, FS_Injection
<1>9. \A p \in 1..n : \E i \in S : place[i] = p
  BY <1>8 DEF Surjection
<1>. QED
  BY <1>1, <1>4, <1>9 DEF place

(* A table that has each of S in one row, in the order of the ranks.          *)
RowsOf(S, rank) ==
  [p \in 1..Cardinality(S) |-> CHOOSE i \in S : 1 + Cardinality(Ahead(S, rank, i)) = p]

Sorts(table, S, rank) ==
  /\ table \in [1..Cardinality(S) -> S] /\ Cardinality(S) \in Nat
  /\ \A i \in S : \E p \in 1..Cardinality(S) : table[p] = i
  /\ \A p, q \in 1..Cardinality(S) : table[p] = table[q] => p = q
  /\ \A p, q \in 1..Cardinality(S) : p < q => rank[table[p]] <= rank[table[q]]

LEMMA RowsAreSorted ==
  ASSUME NEW S \in SUBSET Nat, IsFiniteSet(S), NEW rank \in [S -> Nat]
  PROVE  Sorts(RowsOf(S, rank), S, rank)
<1>. DEFINE table == RowsOf(S, rank)
<1>. DEFINE n == Cardinality(S)
<1>1. n \in Nat /\ \A p \in 1..n : \E i \in S : 1 + Cardinality(Ahead(S, rank, i)) = p
  BY PlacesAreTaken
<1>2. ASSUME NEW p \in 1..n
      PROVE  table[p] \in S /\ 1 + Cardinality(Ahead(S, rank, table[p])) = p
  <2>1. table[p] = CHOOSE i \in S : 1 + Cardinality(Ahead(S, rank, i)) = p
    BY <1>2 DEF RowsOf
  <2>. QED
    BY <1>1, <2>1
<1>3. \A i \in S : 1 + Cardinality(Ahead(S, rank, i)) \in 1..n
  BY AheadCounts
<1>4. ASSUME NEW i \in S PROVE \E p \in 1..n : table[p] = i
  <2>. DEFINE p == 1 + Cardinality(Ahead(S, rank, i))
  <2>1. p \in 1..n
    BY <1>3
  <2>2. table[p] \in S /\ 1 + Cardinality(Ahead(S, rank, table[p])) = p
    BY <1>2, <2>1
  <2>3. Cardinality(Ahead(S, rank, table[p])) = Cardinality(Ahead(S, rank, i))
    <3>1. /\ Cardinality(Ahead(S, rank, table[p])) \in Nat
          /\ Cardinality(Ahead(S, rank, i)) \in Nat
      BY <2>2, AheadCounts, Zenon
    <3>. QED
      BY <2>2, <3>1
  <2>4. table[p] = i
    BY <2>2, <2>3, PlacesAreTaken
  <2>. QED
    BY <2>1, <2>4
<1>5. ASSUME NEW p \in 1..n, NEW q \in 1..n, p < q PROVE rank[table[p]] <= rank[table[q]]
  <2>1. /\ table[p] \in S /\ 1 + Cardinality(Ahead(S, rank, table[p])) = p
        /\ table[q] \in S /\ 1 + Cardinality(Ahead(S, rank, table[q])) = q
    BY <1>2
  <2>2. rank[table[p]] \in Nat /\ rank[table[q]] \in Nat
    BY <2>1
  <2>3. CASE rank[table[q]] < rank[table[p]]
    <3>1. table[q] \in Ahead(S, rank, table[p])
      BY <2>1, <2>3 DEF Ahead
    <3>2. Cardinality(Ahead(S, rank, table[q])) < Cardinality(Ahead(S, rank, table[p]))
      BY <2>1, <3>1, AheadIsBefore
    <3>3. Cardinality(Ahead(S, rank, table[q])) \in Nat /\ Cardinality(Ahead(S, rank, table[p])) \in Nat
      BY <2>1, AheadCounts
    <3>. QED
      BY <1>5, <2>1, <3>2, <3>3
  <2>. QED
    BY <2>2, <2>3
<1>6. table \in [1..n -> S]
  BY <1>2 DEF RowsOf
<1>7. ASSUME NEW p \in 1..n, NEW q \in 1..n, table[p] = table[q] PROVE p = q
  BY <1>2, <1>7
<1>. QED
  BY <1>1, <1>4, <1>5, <1>6, <1>7 DEF Sorts

(* Whatever the models on show are, by whichever key and whatever is          *)
(* downloaded: the ladder has every one of them in exactly one row, and no    *)
(* row is worse by the key than one below it.                                 *)
THEOREM LadderSortsShown ==
  ASSUME NEW key \in SortKeys, NEW S \in SUBSET (DOMAIN Registry), NEW downloaded
  PROVE  LET table == LadderRows(key, S, downloaded)
         IN /\ table \in [1..Cardinality(S) -> S]
            /\ \A i \in S : \E p \in 1..Cardinality(S) : table[p] = i
            /\ \A p, q \in 1..Cardinality(S) : table[p] = table[q] => p = q
            /\ \A p, q \in 1..Cardinality(S) :
                 p < q => Rank(key, table[p], downloaded) <= Rank(key, table[q], downloaded)
<1>. DEFINE rank == [i \in S |-> Rank(key, i, downloaded)]
            table == LadderRows(key, S, downloaded)
<1>1. S \in SUBSET Nat /\ IsFiniteSet(S)
  <2>1. S \subseteq 1..27
    BY RegistryIsNumbered
  <2>2. IsFiniteSet(1..27)
    BY FirstCounted
  <2>. QED
    BY <2>1, <2>2, FS_Subset
<1>2. rank \in [S -> Nat]
  BY RanksAreNumbers
<1>3. table = RowsOf(S, rank)
  BY DEF LadderRows, RowsOf, Ahead
<1>4. \A i \in S : rank[i] = Rank(key, i, downloaded)
  OBVIOUS
<1>. HIDE DEF rank, table
<1>5. /\ table \in [1..Cardinality(S) -> S] /\ Cardinality(S) \in Nat
      /\ \A i \in S : \E p \in 1..Cardinality(S) : table[p] = i
      /\ \A p, q \in 1..Cardinality(S) : table[p] = table[q] => p = q
      /\ \A p, q \in 1..Cardinality(S) : p < q => rank[table[p]] <= rank[table[q]]
  BY <1>1, <1>2, <1>3, RowsAreSorted DEF Sorts
<1>6. \A p \in 1..Cardinality(S) : table[p] \in S
  BY <1>5
<1>7. \A p, q \in 1..Cardinality(S) :
        p < q => Rank(key, table[p], downloaded) <= Rank(key, table[q], downloaded)
  BY <1>4, <1>5, <1>6
<1>. QED
  BY <1>5, <1>7 DEF table

LEMMA LadderIsTyped ==
  ASSUME NEW key \in SortKeys, NEW S \in SUBSET (DOMAIN Registry), NEW downloaded
  PROVE  LadderRows(key, S, downloaded) \in Seq(DOMAIN Registry)
<1>. DEFINE table == LadderRows(key, S, downloaded)
<1>1. table \in [1..Cardinality(S) -> S]
  BY LadderSortsShown
<1>2. Cardinality(S) \in Nat
  <2>1. S \subseteq 1..27
    BY RegistryIsNumbered
  <2>2. IsFiniteSet(1..27)
    BY FirstCounted
  <2>3. IsFiniteSet(S)
    BY <2>1, <2>2, FS_Subset
  <2>. QED
    BY <2>3, FS_CardinalityType
<1>. HIDE DEF table
<1>3. table \in [1..Cardinality(S) -> DOMAIN Registry]
  BY <1>1
<1>4. table \in Seq(DOMAIN Registry)
  BY <1>2, <1>3
<1>. QED
  BY <1>4 DEF table

(* What the page recommends is a model on the shelf.                          *)
LEMMA FirstIsOne ==
  ASSUME NEW some \in SUBSET Names, NEW rest \in SUBSET Names
  PROVE  FirstAmong(some, rest) \in some \cup rest \cup {NoModel}
<1>. DEFINE pool == IF some # {} THEN some ELSE rest
<1>1. pool \in SUBSET Names /\ pool \subseteq some \cup rest
  OBVIOUS
<1>. HIDE DEF pool
<1>2. ASSUME pool # {}
      PROVE  \E n \in pool : \A other \in pool : Place(n) <= Place(other)
  <2>. DEFINE places == {Place(n) : n \in pool}
  <2>1. \A n \in Names : Place(n) \in Nat
    <3>1. \A n \in Names : Place(n) \in DOMAIN Registry
      BY DEF Names, Place
    <3>. QED
      BY <3>1, RegistryIsNumbered
  <2>2. places \subseteq Nat /\ places # {}
    BY <1>1, <1>2, <2>1
  <2>3. PICK least \in places : \A o \in places : least <= o
    BY <2>2, LeastExists
  <2>. QED
    BY <2>3
<1>3. pool # {} => (CHOOSE n \in pool : \A other \in pool : Place(n) <= Place(other)) \in pool
  BY <1>2
<1>4. FirstAmong(some, rest) =
        IF pool = {} THEN NoModel
        ELSE CHOOSE n \in pool : \A other \in pool : Place(n) <= Place(other)
  BY DEF FirstAmong, pool
<1>. QED
  BY <1>1, <1>3, <1>4

LEMMA RecommendedIsOne ==
  ASSUME NEW state
  PROVE  RecommendedDownloadModel(state) \in Shelf \cup {NoModel}
<1>. DEFINE missing == {n \in Shelf : state[n] = "no"}
<1>1. missing \cap Recommended \in SUBSET Names /\ missing \in SUBSET Names
  BY CatalogAssumption
<1>2. RecommendedDownloadModel(state) = FirstAmong(missing \cap Recommended, missing)
  BY DEF RecommendedDownloadModel
<1>3. missing \subseteq Shelf
  OBVIOUS
<1>. HIDE DEF missing
<1>. QED
  BY <1>1, <1>2, <1>3, FirstIsOne

LEMMA GuidedIsOne ==
  ASSUME NEW g, NEW state
  PROVE  GuideRecommendedModel(g, state) \in Shelf \cup {NoModel}
<1>. DEFINE suited == {n \in Shelf : IF g = "general" THEN n \in Recommended
                                     ELSE ModelCategory(Config(n)) = g}
            absent == {n \in suited : state[n] = "no"}
<1>1. suited \subseteq Shelf /\ absent \subseteq suited
  OBVIOUS
<1>2. GuideRecommendedModel(g, state) = FirstAmong(absent, suited)
  BY DEF GuideRecommendedModel
<1>. HIDE DEF suited, absent
<1>3. suited \in SUBSET Names /\ absent \in SUBSET Names
  BY <1>1, CatalogAssumption
<1>. QED
  BY <1>1, <1>2, <1>3, FirstIsOne

BrowseBounded == browsed \in 0..MaxBrowse
CatalogTyped ==
  /\ have \in [Shelf -> {"yes", "no", "unknown"}]
  /\ category \in Filters /\ guide \in Guides
  /\ pinned \subseteq Shelf /\ found \subseteq Shelf
  /\ ladder \in [expanded : BOOLEAN, key : SortKeys]
  /\ wanted \in Shelf \cup {NoModel}

LEMMA CatalogInitTyped == CatalogInit => CatalogTyped /\ BrowseBounded
<1>. SUFFICES ASSUME CatalogInit PROVE CatalogTyped /\ BrowseBounded
  OBVIOUS
<1>1. BrowseBounded
  BY CatalogAssumption DEF CatalogInit, BrowseBounded
<1>2. [expanded |-> FALSE, key |-> "balanced"] \in [expanded : BOOLEAN, key : SortKeys]
  BY DEF SortKeys
<1>3. category \in Filters /\ guide \in Guides
  BY DEF CatalogInit, Filters, Guides
<1>4. have \in [Shelf -> {"yes", "no", "unknown"}]
  BY DEF CatalogInit
<1>5. pinned \subseteq Shelf /\ found \subseteq Shelf /\ wanted \in Shelf \cup {NoModel}
  BY DEF CatalogInit
<1>6. ladder \in [expanded : BOOLEAN, key : SortKeys]
  BY <1>2, Zenon DEF CatalogInit
<1>. QED
  BY <1>1, <1>3, <1>4, <1>5, <1>6, Zenon DEF CatalogTyped

LEMMA CatalogStaysTyped ==
  CatalogTyped /\ BrowseBounded /\ [CatalogNext]_catalogVars
    => CatalogTyped' /\ BrowseBounded'
<1>. SUFFICES ASSUME CatalogTyped, BrowseBounded, [CatalogNext]_catalogVars
              PROVE  CatalogTyped' /\ BrowseBounded'
  OBVIOUS
<1>0. Browse => BrowseBounded'
  BY CatalogAssumption DEF Browse, BrowseBounded
<1>1. ASSUME NEW c \in Filters, ChooseCategory(c) PROVE CatalogTyped' /\ BrowseBounded'
  BY <1>0, <1>1 DEF ChooseCategory, CatalogTyped
<1>2. \A g \in Guides : GuideCategory(g) \in Filters
  BY DEF Guides, GuideCategory, Filters, Categories
<1>3. CASE ChooseGuide
  BY <1>0, <1>2, <1>3 DEF ChooseGuide, CatalogTyped
<1>4. CASE ShowMatches
  <2>1. GuideCategory(guide) \in Filters
    BY <1>2 DEF CatalogTyped
  <2>. QED
    BY <1>1, <1>4, <2>1 DEF ShowMatches
<1>5. CASE SearchModels
  BY <1>0, <1>5 DEF SearchModels, CatalogTyped
<1>6. CASE TogglePinnedModel
  <2>1. pinned' \subseteq Shelf
    BY <1>6 DEF TogglePinnedModel, VisibleModels, CatalogTyped
  <2>. QED
    BY <1>0, <1>6, <2>1 DEF TogglePinnedModel, CatalogTyped
<1>7. CASE ToggleLadder \/ SortLadder
  <2>1. ladder \in [expanded : BOOLEAN, key : SortKeys]
    BY DEF CatalogTyped
  <2>2. \A flag \in BOOLEAN : [ladder EXCEPT !.expanded = flag] \in [expanded : BOOLEAN, key : SortKeys]
    BY <2>1
  <2>3. \A key \in SortKeys : [ladder EXCEPT !.key = key] \in [expanded : BOOLEAN, key : SortKeys]
    BY <2>1
  <2>4. (~ladder.expanded) \in BOOLEAN
    OBVIOUS
  <2>5. ladder' \in [expanded : BOOLEAN, key : SortKeys]
    <3>1. CASE ToggleLadder
      <4>1. ladder' = [ladder EXCEPT !.expanded = ~ladder.expanded]
        BY <3>1 DEF ToggleLadder
      <4>. QED
        BY <2>2, <2>4, <4>1
    <3>2. CASE SortLadder
      BY <2>3, <3>2 DEF SortLadder
    <3>. QED
      BY <1>7, <3>1, <3>2
  <2>. QED
    BY <1>0, <1>7, <2>5 DEF ToggleLadder, SortLadder, CatalogTyped
<1>8. CASE DownloadRecommended \/ DownloadGuided
  <2>1. wanted' \in Shelf \cup {NoModel}
    BY <1>8, RecommendedIsOne, GuidedIsOne DEF DownloadRecommended, DownloadGuided, Want
  <2>. QED
    BY <1>0, <1>8, <2>1 DEF DownloadRecommended, DownloadGuided, Want, CatalogTyped
<1>9. CASE CatalogArrives
  <2>1. have' \in [Shelf -> {"yes", "no", "unknown"}]
    BY <1>9 DEF CatalogArrives
  <2>. QED
    BY <1>0, <1>9, <2>1 DEF CatalogArrives, CatalogTyped
<1>10. CASE UNCHANGED catalogVars
  BY <1>10 DEF catalogVars, CatalogTyped, BrowseBounded
<1>. QED
  BY <1>1, <1>3, <1>4, <1>5, <1>6, <1>7, <1>8, <1>9, <1>10 DEF CatalogNext

LEMMA CatalogTypeHolds == CatalogInit /\ [][CatalogNext]_catalogVars => []CatalogTypeOK
<1>1. CatalogTyped /\ BrowseBounded => CatalogTypeOK
  <2>. SUFFICES ASSUME CatalogTyped, BrowseBounded PROVE CatalogTypeOK
    OBVIOUS
  <2>. DEFINE listed == {i \in DOMAIN Registry : Registry[i].name \in Shelf}
              present == {n \in Shelf : have[n] = "yes"}
  <2>1. ladder.key \in SortKeys
    BY DEF CatalogTyped
  <2>2. listed \in SUBSET (DOMAIN Registry)
    OBVIOUS
  <2>3. LadderRows(ladder.key, listed, present) \in Seq(DOMAIN Registry)
    <3>. HIDE DEF listed, present
    <3>. QED
      BY <2>1, <2>2, LadderIsTyped
  <2>. QED
    BY <2>3 DEF CatalogTyped, BrowseBounded, CatalogTypeOK
<1>. QED
  BY <1>1, CatalogInitTyped, CatalogStaysTyped, PTL

================================================================================
