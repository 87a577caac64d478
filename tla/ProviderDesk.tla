----------------------------- MODULE ProviderDesk -----------------------------
(* The panel of language model providers (LLMProvidersPanel.tsx) with its     *)
(* capability test (LLMCompatibility.tsx), and the rows it edits              *)
(* (llm_providers.py, llm_capabilities.py), which other windows edit too.     *)
(* A capability test takes minutes; what it recommends was tested on the      *)
(* configuration the row had when the test began.  The answer of the list     *)
(* query is taken to arrive when it is read.                                  *)
EXTENDS Naturals

CONSTANTS LLMs,          \* ids of providers
          Endpoints,     \* configurations: address, key and model
          MaxUpdates,    \* bound: updates of rows
          MaxProbes      \* bound: tests the user starts

(* The first row is an update.                                                *)
ASSUME ProviderAssumption == MaxUpdates \in Nat \ {0} /\ MaxProbes \in Nat

VARIABLES llmRows,          \* the table: endpoint, compatibility and updated_at
          updates,       \* updates so far, and so the clock of updated_at
          providerItems, \* the list as last read
          selectedProviderId,
          llmForm,       \* the dialog: the row it edits, and its fields
          rowSave,        \* mutation of the form
          probe,         \* capability test under way: what the service tests
          result,        \* its result, with the configuration it was made on
          storing,      \* apply of the result
          applied,       \* updated_at after the last apply, or 0
          removing,      \* delete confirmation: the provider it was opened on
          deleting,      \* deletions under way
          probes         \* counter for the bound

providerVars == <<llmRows, updates, providerItems, selectedProviderId, llmForm, rowSave,
                  probe, result, storing, applied, removing, deleting, probes>>

Nobody == "nobody"
NoRow == [endpoint |-> "none", compatibility |-> "none", updated_at |-> 0]
Tunings == {"default"} \cup Endpoints    \* compatibility: default, or tested for an endpoint
NoForm == [of |-> Nobody, fields |-> NoRow]
NotSavingRow == [step |-> "none", of |-> Nobody, fields |-> NoRow]
NoProbe == [step |-> "none", of |-> Nobody, on |-> NoRow]
NoResult == [of |-> Nobody, on |-> NoRow]
NotStoring == [step |-> "none", to |-> Nobody, compatibility |-> "none", expected |-> 0,
            of |-> Nobody, on |-> NoRow]

Listable(table) == {p \in LLMs : table[p] # NoRow}

(* selectedProvider, after the effect that drops an id that is not listed.    *)
Selected(items, id) == IF id \in Listable(items) THEN id
                       ELSE IF Listable(items) = {} THEN Nobody
                       ELSE CHOOSE p \in Listable(items) : TRUE
ShownProvider == Selected(providerItems, selectedProviderId)

ProviderInit ==
  /\ \E p \in LLMs, e \in Endpoints :
       llmRows = [q \in LLMs |-> IF q = p
                 THEN [endpoint |-> e, compatibility |-> "default", updated_at |-> 1] ELSE NoRow]
  /\ updates = 1
  /\ providerItems = [p \in LLMs |-> NoRow] /\ selectedProviderId = Nobody
  /\ llmForm = NoForm /\ rowSave = NotSavingRow
  /\ probe = NoProbe /\ result = NoResult /\ storing = NotStoring /\ applied = 0
  /\ removing = Nobody /\ deleting = {} /\ probes = 0

probeVars == <<probe, result, storing, applied, probes>>
editVars == <<llmForm, rowSave, removing, deleting>>
listVars == <<providerItems, selectedProviderId>>

(***************************************************************************)
(* The list.  Forms and panels of the provider shown live as long as one   *)
(* is shown; a form is filled anew when its row differs from the former.   *)
(***************************************************************************)
ProvidersListed ==
  /\ providerItems # llmRows /\ providerItems' = llmRows
  /\ selectedProviderId' = Selected(llmRows, selectedProviderId)
  /\ llmForm' = LET to == Selected(llmRows, selectedProviderId) IN
       IF llmForm.of = Nobody THEN llmForm
       ELSE IF to = Nobody THEN NoForm
       ELSE IF to = llmForm.of /\ llmRows[to] = providerItems[to] THEN llmForm
       ELSE [of |-> to, fields |-> llmRows[to]]
  /\ IF Listable(llmRows) = {}
     THEN /\ result' = NoResult /\ applied' = 0 /\ removing' = Nobody
          /\ probe' = NoProbe /\ storing' = NotStoring
     ELSE UNCHANGED <<result, applied, removing, probe, storing>>
  /\ UNCHANGED <<llmRows, updates, rowSave, deleting, probes>>

SelectProvider(p) ==
  /\ p \in Listable(providerItems) /\ llmForm = NoForm /\ removing = Nobody
  /\ selectedProviderId' = p /\ selectedProviderId # p
  /\ UNCHANGED <<llmRows, updates, providerItems>>
  /\ UNCHANGED editVars /\ UNCHANGED probeVars

(* Variant: the expected revision is not compared.                            *)
UpdateUnchecked(p, fields, expected) ==
  /\ llmRows[p] # NoRow /\ expected \in Nat
  /\ updates' = updates + 1
  /\ llmRows' = [llmRows EXCEPT ![p] = [fields EXCEPT !.updated_at = updates']]

(* update_provider: with an expected updated_at the row must still have it.   *)
UpdateProvider(p, fields, expected) ==
  /\ llmRows[p] # NoRow /\ expected \in {0, llmRows[p].updated_at}
  /\ updates' = updates + 1
  /\ llmRows' = [llmRows EXCEPT ![p] = [fields EXCEPT !.updated_at = updates']]

CreateProvider(p, fields) ==
  /\ llmRows[p] = NoRow /\ updates' = updates + 1
  /\ llmRows' = [llmRows EXCEPT ![p] = [fields EXCEPT !.updated_at = updates']]

(* Another window edits, adds or deletes a provider.                          *)
OtherWindow ==
  /\ updates < MaxUpdates
  /\ \E p \in LLMs, e \in Endpoints :
       \/ UpdateProvider(p, [llmRows[p] EXCEPT !.endpoint = e], 0)
       \/ CreateProvider(p, [NoRow EXCEPT !.endpoint = e, !.compatibility = "default"])
       \/ llmRows[p] # NoRow /\ updates' = updates + 1 /\ llmRows' = [llmRows EXCEPT ![p] = NoRow]
  /\ UNCHANGED listVars /\ UNCHANGED editVars /\ UNCHANGED probeVars

(***************************************************************************)
(* The form: add (of nobody) or edit.                                      *)
(***************************************************************************)
OpenForm ==
  /\ llmForm = NoForm /\ removing = Nobody /\ ShownProvider # Nobody
  /\ llmForm' = [of |-> ShownProvider, fields |-> providerItems[ShownProvider]]
  /\ UNCHANGED <<llmRows, updates, rowSave, removing, deleting>>
  /\ UNCHANGED listVars /\ UNCHANGED probeVars

EditForm ==
  /\ llmForm # NoForm
  /\ \/ \E e \in Endpoints : llmForm' = [llmForm EXCEPT !.fields.endpoint = e]
     \/ llmForm' = [llmForm EXCEPT !.fields.compatibility = "default"]
  /\ UNCHANGED <<llmRows, updates, rowSave, removing, deleting>>
  /\ UNCHANGED listVars /\ UNCHANGED probeVars

CloseForm ==
  /\ llmForm # NoForm /\ llmForm' = NoForm
  /\ UNCHANGED <<llmRows, updates, rowSave, removing, deleting>>
  /\ UNCHANGED listVars /\ UNCHANGED probeVars

SubmitForm ==
  /\ llmForm # NoForm /\ rowSave.step = "none" /\ updates < MaxUpdates
  /\ rowSave' = [step |-> "asked", of |-> llmForm.of, fields |-> llmForm.fields]
  /\ UNCHANGED <<llmRows, updates, llmForm, removing, deleting>>
  /\ UNCHANGED listVars /\ UNCHANGED probeVars

(* The save carries all fields and expects no revision.                       *)
SaveForm ==
  /\ rowSave.step = "asked" /\ updates < MaxUpdates
  /\ UpdateProvider(rowSave.of, rowSave.fields, 0)
  /\ rowSave' = [rowSave EXCEPT !.step = "saved"]
  /\ UNCHANGED <<llmForm, removing, deleting>>
  /\ UNCHANGED listVars /\ UNCHANGED probeVars

(* Saved: the list is read again; the connection test that follows only       *)
(* leaves a message.                                                          *)
FormSaved ==
  /\ rowSave.step = "saved" /\ rowSave' = NotSavingRow
  /\ UNCHANGED <<llmRows, updates, llmForm, removing, deleting>>
  /\ UNCHANGED listVars /\ UNCHANGED probeVars

(* The row is gone, or the request is not answered.                           *)
RowSaveFails ==
  /\ rowSave.step = "asked" /\ rowSave' = NotSavingRow
  /\ UNCHANGED <<llmRows, updates, llmForm, removing, deleting>>
  /\ UNCHANGED listVars /\ UNCHANGED probeVars

(***************************************************************************)
(* Deletion, of the provider shown when the user confirms.                 *)
(***************************************************************************)
AskRemove ==
  /\ removing = Nobody /\ llmForm = NoForm /\ ShownProvider # Nobody
  /\ removing' = ShownProvider
  /\ UNCHANGED <<llmRows, updates, llmForm, rowSave, deleting>>
  /\ UNCHANGED listVars /\ UNCHANGED probeVars

KeepRow ==
  /\ removing # Nobody /\ removing' = Nobody
  /\ UNCHANGED <<llmRows, updates, llmForm, rowSave, deleting>>
  /\ UNCHANGED listVars /\ UNCHANGED probeVars

(* The confirmation closes and the request goes out; nothing waits for it.    *)
ConfirmRemove ==
  /\ removing # Nobody /\ removing' = Nobody /\ ShownProvider # Nobody
  /\ deleting' = deleting \cup {ShownProvider}
  /\ UNCHANGED <<llmRows, updates, llmForm, rowSave>>
  /\ UNCHANGED listVars /\ UNCHANGED probeVars

(* delete_provider, whose row may be gone already. *)
DeleteProvider(p) ==
  /\ p \in deleting /\ deleting' = deleting \ {p}
  /\ llmRows' = [llmRows EXCEPT ![p] = NoRow]
  /\ UNCHANGED <<updates, llmForm, rowSave, removing>>
  /\ UNCHANGED listVars /\ UNCHANGED probeVars

DeletionFails(p) ==
  /\ p \in deleting /\ deleting' = deleting \ {p}
  /\ UNCHANGED <<llmRows, updates, llmForm, rowSave, removing>>
  /\ UNCHANGED listVars /\ UNCHANGED probeVars

(***************************************************************************)
(* The capability test.  The panel is not keyed by its provider.           *)
(***************************************************************************)
StartProbe ==
  /\ ShownProvider # Nobody
  /\ probe.step = "none" /\ storing.step = "none" /\ probes < MaxProbes
  /\ probe' = [step |-> "asked", of |-> ShownProvider, on |-> NoRow]
  /\ result' = NoResult /\ applied' = 0 /\ probes' = probes + 1
  /\ UNCHANGED <<llmRows, updates, storing>>
  /\ UNCHANGED listVars /\ UNCHANGED editVars

(* test_capabilities copies the row and tests the copy.                       *)
ProbeReads ==
  /\ probe.step = "asked" /\ llmRows[probe.of] # NoRow
  /\ probe' = [probe EXCEPT !.step = "reading", !.on = llmRows[probe.of]]
  /\ UNCHANGED <<llmRows, updates, result, storing, applied, probes>>
  /\ UNCHANGED listVars /\ UNCHANGED editVars

ProbePasses ==
  /\ probe.step = "reading"
  /\ probe' = NoProbe /\ result' = [of |-> probe.of, on |-> probe.on]
  /\ UNCHANGED <<llmRows, updates, storing, applied, probes>>
  /\ UNCHANGED listVars /\ UNCHANGED editVars

(* The row is gone or disabled (the button is locked for a provider shown as  *)
(* disabled), a sample fails, or the provider is silent.                      *)
ProbeFails ==
  /\ probe.step # "none" /\ probe' = NoProbe
  /\ UNCHANGED <<llmRows, updates, result, storing, applied, probes>>
  /\ UNCHANGED listVars /\ UNCHANGED editVars

(* A result is shown, and can be applied, while its revision is the one of    *)
(* the provider shown.                                                        *)
ResultIsCurrent == /\ result # NoResult /\ ShownProvider # Nobody
           /\ result.on.updated_at = providerItems[ShownProvider].updated_at

ApplyTested ==
  /\ ResultIsCurrent /\ storing.step = "none" /\ probe.step = "none"
  /\ storing' = [step |-> "asked", to |-> ShownProvider,
                  compatibility |-> result.on.endpoint,
                  expected |-> result.on.updated_at, of |-> result.of, on |-> result.on]
  /\ UNCHANGED <<llmRows, updates, probe, result, applied, probes>>
  /\ UNCHANGED listVars /\ UNCHANGED editVars

StoreTested ==
  /\ storing.step = "asked" /\ updates < MaxUpdates
  /\ UpdateProvider(storing.to, [llmRows[storing.to] EXCEPT
                                    !.compatibility = storing.compatibility],
                    storing.expected)
  /\ storing' = [storing EXCEPT !.step = "stored", !.expected = updates']
  /\ UNCHANGED <<probe, result, applied, probes>>
  /\ UNCHANGED listVars /\ UNCHANGED editVars

TestedStored ==
  /\ storing.step = "stored" /\ storing' = NotStoring /\ applied' = storing.expected
  /\ UNCHANGED <<llmRows, updates, probe, result, probes>>
  /\ UNCHANGED listVars /\ UNCHANGED editVars

(* LLM_PROVIDER_CHANGED, the row is gone, or the request is not answered.     *)
ApplyRefused ==
  /\ storing.step = "asked" /\ storing' = NotStoring
  /\ UNCHANGED <<llmRows, updates, probe, result, applied, probes>>
  /\ UNCHANGED listVars /\ UNCHANGED editVars

ProviderNext ==
  \/ ProvidersListed \/ OtherWindow
  \/ \E p \in LLMs : SelectProvider(p)
  \/ OpenForm \/ EditForm \/ CloseForm \/ SubmitForm \/ SaveForm \/ FormSaved \/ RowSaveFails
  \/ AskRemove \/ KeepRow \/ ConfirmRemove
  \/ \E p \in LLMs : DeleteProvider(p)
  \/ \E p \in LLMs : DeletionFails(p)
  \/ StartProbe \/ ProbeReads \/ ProbePasses \/ ProbeFails
  \/ ApplyTested \/ StoreTested \/ TestedStored \/ ApplyRefused

ProviderSpec == ProviderInit /\ [][ProviderNext]_providerVars

ProviderTypeOK ==
  /\ llmRows \in [LLMs -> [endpoint : Endpoints \cup {"none"},
                           compatibility : Tunings \cup {"none"},
                           updated_at : 0..MaxUpdates]]
  /\ updates \in 1..MaxUpdates
  /\ selectedProviderId \in LLMs \cup {Nobody} /\ llmForm.of \in LLMs \cup {Nobody}
  /\ rowSave.step \in {"none", "asked", "saved"}
  /\ probe.step \in {"none", "asked", "reading"}
  /\ storing.step \in {"none", "asked", "stored"} /\ removing \in LLMs \cup {Nobody}
  /\ deleting \subseteq LLMs

(* Settings that a test recommends are stored only in the provider, and on    *)
(* the very configuration, that they were tested on, although the panel is    *)
(* shared by all providers and forms and other windows edit rows meanwhile.   *)
AppliedWasTested ==
  [][StoreTested => /\ storing.to = storing.of
                    /\ llmRows'[storing.to].endpoint = storing.on.endpoint]_providerVars
===============================================================================
