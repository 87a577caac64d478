---------------------------- MODULE AsrProviders ----------------------------
(* The speech providers: the page that lists, edits, tests and deletes them   *)
(* (ProvidersPage.tsx) and their rows (providers.py).  The page works on the  *)
(* rows its last poll returned; other clients change rows as well.  A row is  *)
(* its revision; a form holds the fields of the row it was filled from.       *)
EXTENDS Naturals

CONSTANTS AsrIds,        \* providers, in the order of the list
          MaxRevision,   \* bound: revisions of a row
          MaxClicks      \* bound: buttons

ASSUME AsrAssumption == AsrIds # {} /\ AsrIds \subseteq Nat \ {0}
                        /\ MaxRevision \in Nat \ {0} /\ MaxClicks \in Nat

VARIABLES asrRows,       \* ASRProvider: id -> revision, 0 without a row
          preferred,     \* settings.default_provider_id, 0 for none
          asrList,       \* providersQuery.data
          picked,        \* selectedProviderId
          editing,       \* editingProvider
          asrForm,       \* ProviderForm: whose fields, of which revision, typed in
          asrRemoving,   \* the confirmation of a deletion is open
          sending,       \* mutations: kind, provider, and what a save sends
          waiting,       \* isPending of the form on show: the number of its save
          testedText,    \* testMessage: the provider it is about
          clicks         \* counter for the bound

asrVars == <<asrRows, preferred, asrList, picked, editing, asrForm, asrRemoving, sending,
             waiting, testedText, clicks>>

NobodyAsr == 0
NotWaiting == MaxClicks
Empty == [of |-> NobodyAsr, revision |-> 0, typed |-> FALSE]
HasRow(rows, id) == id # NobodyAsr /\ rows[id] # 0
FirstOf(rows) == IF \E id \in AsrIds : HasRow(rows, id)
                 THEN CHOOSE id \in AsrIds :
                        HasRow(rows, id) /\ \A o \in AsrIds : HasRow(rows, o) => id <= o
                 ELSE NobodyAsr
SelectedAsr(rows, id) == IF HasRow(rows, id) THEN id ELSE FirstOf(rows)
ShownAsr == SelectedAsr(asrList, picked)
(* The dialog shows the selected provider, or nothing. *)
Editing(rows, id, of) == of # NobodyAsr /\ SelectedAsr(rows, id) = of
Open == Editing(asrList, picked, editing)

(* Variant: the fields stay when the form is opened for another provider.     *)
FilledOnce(rows, id) == IF asrForm = Empty THEN [of |-> id, revision |-> rows[id], typed |-> FALSE]
                        ELSE asrForm
Filled(rows, id) == [of |-> id, revision |-> rows[id], typed |-> FALSE]

AsrInit ==
  /\ asrRows = [id \in AsrIds |-> 1] /\ preferred = NobodyAsr
  /\ asrList = [id \in AsrIds |-> 0] /\ picked = NobodyAsr /\ editing = NobodyAsr
  /\ asrForm = Empty /\ asrRemoving = FALSE /\ sending = {} /\ testedText = NobodyAsr
  /\ waiting = NotWaiting /\ clicks = 0

(***************************************************************************)
(* Renders: the form is filled when the dialog opens and whenever the row  *)
(* it is given has changed; a dialog that closes forgets it, and the save  *)
(* it waits for.                                                           *)
(***************************************************************************)
FormOn(rows, id, of) ==
  /\ asrForm' = IF ~Editing(rows, id, of) THEN Empty
                ELSE IF Open /\ rows[of] = asrList[of] THEN asrForm ELSE Filled(rows, of)
  /\ waiting' = IF Editing(rows, id, of) THEN waiting ELSE NotWaiting

ListAnswered ==
  /\ asrList # asrRows /\ asrList' = asrRows
  /\ picked' = SelectedAsr(asrRows, picked)
  /\ FormOn(asrRows, picked', editing)
  /\ UNCHANGED <<asrRows, preferred, editing, asrRemoving, sending, testedText, clicks>>

Click == clicks < MaxClicks /\ clicks' = clicks + 1

Pick ==
  /\ Click /\ \E id \in AsrIds : HasRow(asrList, id) /\ picked' = id
  /\ ~Open /\ ~asrRemoving /\ picked' # picked
  /\ FormOn(asrList, picked', editing)
  /\ UNCHANGED <<asrRows, preferred, asrList, editing, asrRemoving, sending, testedText>>

OpenAsrForm ==
  /\ Click /\ ShownAsr # NobodyAsr /\ ~Open /\ ~asrRemoving
  /\ editing' = ShownAsr /\ FormOn(asrList, picked, editing')
  /\ UNCHANGED <<asrRows, preferred, asrList, picked, asrRemoving, sending, testedText>>

CloseAsrForm ==
  /\ Open /\ editing' = NobodyAsr /\ FormOn(asrList, picked, editing')
  /\ UNCHANGED <<asrRows, preferred, asrList, picked, asrRemoving, sending, testedText, clicks>>

TypeField ==
  /\ Open /\ ~asrForm.typed /\ asrForm' = [asrForm EXCEPT !.typed = TRUE]
  /\ UNCHANGED <<asrRows, preferred, asrList, picked, editing, asrRemoving, sending, waiting,
                 testedText, clicks>>

(***************************************************************************)
(* The mutations: Save of the form, Create, Test, Default and Delete.      *)
(***************************************************************************)
AsrCall(kind, id, form) ==
  [kind |-> kind, id |-> id, form |-> form, no |-> clicks]
SendAsr(call) ==
  /\ Click /\ sending' = sending \cup {call}
  /\ UNCHANGED <<asrRows, preferred, asrList, picked, editing, asrForm, testedText>>

(* isPending is that of this form: one that was opened again does not know of *)
(* the save its predecessor waits for, nor does another form for a new one.   *)
SaveAsrForm ==
  /\ Open /\ ~\E c \in sending : c.no = waiting
  /\ SendAsr(AsrCall("save", editing, asrForm)) /\ waiting' = clicks /\ UNCHANGED asrRemoving
SendNew ==
  /\ ~Open /\ ~asrRemoving
  /\ SendAsr(AsrCall("create", NobodyAsr, Empty)) /\ UNCHANGED <<waiting, asrRemoving>>
TestOrPrefer ==
  /\ ShownAsr # NobodyAsr /\ ~Open /\ ~asrRemoving /\ UNCHANGED <<waiting, asrRemoving>>
  /\ \E kind \in {"test", "prefer"} : SendAsr(AsrCall(kind, ShownAsr, Empty))
AskRemoval ==
  /\ ShownAsr # NobodyAsr /\ ~Open /\ ~asrRemoving /\ asrRemoving' = TRUE
  /\ UNCHANGED <<asrRows, preferred, asrList, picked, editing, asrForm, sending, waiting,
                 testedText, clicks>>
(* What is deleted is what the page shows now, not when it was asked.         *)
ConfirmRemoval ==
  /\ asrRemoving /\ asrRemoving' = FALSE /\ ShownAsr # NobodyAsr
  /\ SendAsr(AsrCall("remove", ShownAsr, Empty)) /\ UNCHANGED waiting
KeepProvider ==
  /\ asrRemoving /\ asrRemoving' = FALSE
  /\ UNCHANGED <<asrRows, preferred, asrList, picked, editing, asrForm, sending, waiting,
                 testedText, clicks>>

(* The services.  A request for a row that is gone is refused; the preference *)
(* is not compared with the rows, and a deletion leaves it.                   *)
ServeAsr ==
  /\ \E c \in sending :
       /\ sending' = sending \ {c}
       /\ \/ /\ c.kind = "save" /\ UNCHANGED <<preferred, testedText>>
             /\ IF asrRows[c.id] = 0 THEN UNCHANGED asrRows
                ELSE asrRows[c.id] < MaxRevision /\ asrRows' = [asrRows EXCEPT ![c.id] = @ + 1]
          \/ /\ c.kind = "create" /\ UNCHANGED <<preferred, testedText>>
             /\ \/ \E id \in AsrIds : asrRows[id] = 0 /\ asrRows' = [asrRows EXCEPT ![id] = 1]
                \/ UNCHANGED asrRows
          \/ /\ c.kind = "test" /\ testedText' = c.id /\ UNCHANGED <<asrRows, preferred>>
          \/ /\ c.kind = "prefer" /\ preferred' = c.id /\ UNCHANGED <<asrRows, testedText>>
          \/ /\ c.kind = "remove" /\ UNCHANGED <<preferred, testedText>>
             /\ asrRows' = [asrRows EXCEPT ![c.id] = 0]
  /\ UNCHANGED <<asrList, picked, editing, asrForm, asrRemoving, waiting, clicks>>

OthersChangeRow ==
  /\ \E id \in AsrIds :
       /\ asrRows[id] # 0
       /\ \/ asrRows' = [asrRows EXCEPT ![id] = 0]
          \/ asrRows[id] < MaxRevision /\ asrRows' = [asrRows EXCEPT ![id] = @ + 1]
  /\ UNCHANGED <<preferred, asrList, picked, editing, asrForm, asrRemoving, sending,
                 waiting, testedText, clicks>>

AsrNext ==
  \/ ListAnswered \/ Pick \/ OpenAsrForm \/ CloseAsrForm \/ TypeField \/ SaveAsrForm \/ SendNew
  \/ TestOrPrefer \/ AskRemoval \/ ConfirmRemoval \/ KeepProvider \/ ServeAsr
  \/ OthersChangeRow

AsrSpec == AsrInit /\ [][AsrNext]_asrVars

AsrTypeOK ==
  /\ asrRows \in [AsrIds -> 0..MaxRevision] /\ asrList \in [AsrIds -> 0..MaxRevision]
  /\ {preferred, picked, editing, testedText, asrForm.of} \subseteq AsrIds \cup {NobodyAsr}
  /\ asrForm.revision \in 0..MaxRevision /\ {asrForm.typed, asrRemoving} \subseteq BOOLEAN
  /\ \A c \in sending : /\ c.kind \in {"save", "create", "test", "prefer", "remove"}
                        /\ c.id \in AsrIds \cup {NobodyAsr}
  /\ clicks \in 0..MaxClicks /\ waiting \in 0..NotWaiting

(* A save sends the provider it names the fields that were read from this     *)
(* provider, never those of another that was selected or edited before, and   *)
(* the form on show has not missed a change the list knows of                 *)
(* (ProvidersPage's one dialog and form for whatever provider is selected).   *)
SavedIsOwn ==
  /\ \A c \in sending : c.kind = "save" => c.form.of = c.id
  /\ Open => asrForm.of = editing /\ asrForm.revision = asrList[editing]
=============================================================================
