---------------------------- MODULE ModelStorage ----------------------------
(* Moving the model files to another directory: the panel of the settings     *)
(* page (ModelStorageSettings.tsx) and the service (model_storage.py), whose  *)
(* thread copies, switches the configured root and then empties the old one.  *)
(* The handlers of the requests take turns; the thread runs beside them.  A   *)
(* file stands for a model or a cache with its content.                       *)
EXTENDS Naturals, FiniteSets

CONSTANTS Files,         \* what the first root holds
          Roots,         \* directories; FirstRoot is the configured one
          FirstRoot,
          MaxChoices,    \* bound: changes in the dialog
          MaxJobs,       \* bound: relocations
          MaxDamage      \* bound: failed steps and restarts

ASSUME StorageAssumption ==
  FirstRoot \in Roots /\ {MaxChoices, MaxJobs, MaxDamage} \subseteq Nat

VARIABLES root,          \* model_storage.json: the configured root
          disk,          \* root -> files in place
          staging,       \* root -> files in the staging directory of the job
          homes,         \* where the moves have put all of Files and not taken them away
          relocation,    \* _job and its file, which recovery reads
          mover,         \* the job's thread
          stop,          \* _cancel_event
          cancelling,    \* a cancellation has seen the job active and not said so
          busy,          \* model_operation: passed require_storage, or registered
          dialog,        \* open, target, mode, plan
          planAsked,     \* the request planMutation is waiting for, or none
          startAsked,    \* the request startMutation is waiting for, or none
          jobShown,      \* relocation.data.status
          choices, relocations, damage  \* counters for the bounds

dialogVars == <<dialog, planAsked, startAsked, jobShown, choices>>
threadVars == <<root, disk, staging, homes, mover>>
storageVars == <<threadVars, relocation, stop, cancelling, busy, dialogVars, relocations,
                 damage>>

Modes == {"move", "adopt"}
NoTarget == "none"
NoRequest == [target |-> NoTarget, mode |-> "move"]
Idling == [step |-> "none", todo |-> {}]
MoverAt(step) == mover.step = step
JobActive == relocation.status \in {"running", "cancelling"}

StorageInit ==
  /\ root = FirstRoot /\ homes = {FirstRoot}
  /\ \E some \in SUBSET Files :
       disk = [r \in Roots |-> IF r = FirstRoot THEN Files ELSE some]
  /\ staging = [r \in Roots |-> {}]
  /\ relocation = [status |-> "idle", source |-> FirstRoot, target |-> NoTarget, mode |-> "move"]
  /\ mover = Idling /\ stop = FALSE /\ cancelling = FALSE /\ busy = "no"
  /\ dialog = [open |-> FALSE, target |-> NoTarget, mode |-> "move", plan |-> "none"]
  /\ planAsked = NoRequest /\ startAsked = NoRequest /\ jobShown = "idle"
  /\ choices = 0 /\ relocations = 0 /\ damage = 0

(***************************************************************************)
(* The panel.                                                              *)
(***************************************************************************)
Chosen(new) == /\ choices < MaxChoices /\ choices' = choices + 1
               /\ dialog' = new
               /\ UNCHANGED <<threadVars, relocation, stop, cancelling, busy, planAsked,
                              startAsked, jobShown, relocations, damage>>

ChooseLocation ==
  /\ jobShown \notin {"running", "cancelling"} /\ ~dialog.open
  /\ \E r \in Roots : Chosen([dialog EXCEPT !.open = TRUE, !.target = r, !.plan = "none"])

ChooseMoveMode ==
  /\ dialog.open
  /\ \E mode \in Modes \ {dialog.mode} :
       Chosen([dialog EXCEPT !.mode = mode, !.plan = "none"])

CloseDialog == dialog.open /\ Chosen([dialog EXCEPT !.open = FALSE])

AskPlan ==
  /\ dialog.open /\ planAsked = NoRequest
  /\ planAsked' = [target |-> dialog.target, mode |-> dialog.mode]
  /\ UNCHANGED <<threadVars, relocation, stop, cancelling, busy, dialog, startAsked, jobShown,
                 choices, relocations, damage>>

(* plan_relocation: what the target lacks and what stands in the way.         *)
Plannable(target) == target # root /\ busy # "registered"

(* The plan is shown whatever the dialog asks for by now. *)
PlanAnswered ==
  /\ planAsked # NoRequest /\ planAsked' = NoRequest
  /\ dialog' = [dialog EXCEPT !.plan = IF Plannable(planAsked.target) THEN "valid" ELSE "invalid"]
  /\ UNCHANGED <<threadVars, relocation, stop, cancelling, busy, startAsked, jobShown, choices,
                 relocations, damage>>

PressStart ==
  /\ dialog.open /\ dialog.plan = "valid" /\ startAsked = NoRequest
  /\ startAsked' = [target |-> dialog.target, mode |-> dialog.mode]
  /\ UNCHANGED <<threadVars, relocation, stop, cancelling, busy, dialog, planAsked, jobShown,
                 choices, relocations, damage>>

(* The handler plans again, and start_relocation refuses a second job.        *)
StartJob ==
  /\ startAsked # NoRequest /\ ~cancelling /\ relocations < MaxJobs
  /\ Plannable(startAsked.target) /\ ~JobActive
  /\ relocation' = [status |-> "running", source |-> root, target |-> startAsked.target,
             mode |-> startAsked.mode]
  /\ mover' = [step |-> "planning", todo |-> {}] /\ stop' = FALSE
  /\ relocations' = relocations + 1 /\ startAsked' = NoRequest
  /\ dialog' = [dialog EXCEPT !.open = FALSE, !.plan = "none"]
  /\ UNCHANGED <<root, disk, staging, homes, cancelling, busy, planAsked, jobShown, choices,
                 damage>>

RefuseJob ==
  /\ startAsked # NoRequest /\ (JobActive \/ ~Plannable(startAsked.target))
  /\ startAsked' = NoRequest
  /\ UNCHANGED <<threadVars, relocation, stop, cancelling, busy, dialog, planAsked, jobShown,
                 choices, relocations, damage>>

(* cancel_relocation: it looks at the job and then marks it, and the thread   *)
(* may have ended it in between.                                              *)
AskCancel ==
  /\ jobShown \in {"running", "cancelling"} /\ JobActive /\ ~cancelling
  /\ cancelling' = TRUE
  /\ UNCHANGED <<threadVars, relocation, stop, busy, dialogVars, relocations, damage>>

MarkCancel ==
  /\ cancelling /\ cancelling' = FALSE
  /\ stop' = TRUE /\ relocation' = [relocation EXCEPT !.status = "cancelling"]
  /\ UNCHANGED <<threadVars, busy, dialogVars, relocations, damage>>

PollJob ==
  /\ jobShown # relocation.status /\ jobShown' = relocation.status
  /\ UNCHANGED <<threadVars, relocation, stop, cancelling, busy, dialog, planAsked, startAsked,
                 choices, relocations, damage>>

(***************************************************************************)
(* Other work with models: it asks for the storage, then registers itself. *)
(***************************************************************************)
Operation ==
  /\ \/ busy = "no" /\ ~JobActive /\ busy' = "passed"
     \/ busy = "passed" /\ busy' = "registered"
     \/ busy = "registered" /\ busy' = "no"
  /\ UNCHANGED <<threadVars, relocation, stop, cancelling, dialogVars, relocations, damage>>

(***************************************************************************)
(* _run_relocation.                                                        *)
(***************************************************************************)
Unthreaded == <<stop, cancelling, busy, dialogVars, relocations>>
Go(step, todo) == mover' = [step |-> step, todo |-> todo] /\ UNCHANGED relocation
Finish(status) == /\ mover' = Idling /\ relocation' = [relocation EXCEPT !.status = status]
                  /\ staging' = [staging EXCEPT ![relocation.target] = {}]
Damage == damage < MaxDamage /\ damage' = damage + 1
Intact == UNCHANGED damage

PlanJob ==
  /\ MoverAt("planning") /\ Plannable(relocation.target) /\ Intact
  /\ IF relocation.mode = "move" THEN Go("copying", disk[relocation.source])
     ELSE Go("looking", {})
  /\ UNCHANGED <<root, disk, staging, homes, Unthreaded>>

PlanFails ==
  /\ MoverAt("planning") /\ ~Plannable(relocation.target) /\ Intact
  /\ Finish("failed") /\ UNCHANGED <<root, disk, homes, Unthreaded>>

CopyItem ==
  /\ MoverAt("copying") /\ ~stop /\ Intact
  /\ \E file \in mover.todo :
       /\ staging' = [staging EXCEPT ![relocation.target] = @ \cup {file}]
       /\ Go("copying", mover.todo \ {file})
  /\ UNCHANGED <<root, disk, homes, Unthreaded>>

CopyCancelled ==
  /\ MoverAt("copying") /\ mover.todo # {} /\ stop /\ Intact
  /\ Finish("cancelled") /\ UNCHANGED <<root, disk, homes, Unthreaded>>

StartFinal ==
  /\ MoverAt("copying") /\ mover.todo = {} /\ Intact
  /\ Go("finalizing", {}) /\ UNCHANGED <<root, disk, staging, homes, Unthreaded>>

(* A file that is there already, with the same content, is not replaced.      *)
FinalizeItem ==
  /\ MoverAt("finalizing") /\ Intact
  /\ \E file \in staging[relocation.target] :
       /\ staging' = [staging EXCEPT ![relocation.target] = @ \ {file}]
       /\ disk' = [disk EXCEPT ![relocation.target] = @ \cup {file}]
  /\ UNCHANGED <<root, homes, mover, relocation, Unthreaded>>

Finalized ==
  /\ MoverAt("finalizing") /\ staging[relocation.target] = {} /\ Intact
  /\ Go("looking", {}) /\ UNCHANGED <<root, disk, staging, homes, Unthreaded>>

LastLook ==
  /\ MoverAt("looking") /\ Intact
  /\ IF stop THEN Finish("cancelled") ELSE Go("switching", {}) /\ UNCHANGED staging
  /\ UNCHANGED <<root, disk, homes, Unthreaded>>

(* Before the switch an error leaves the root and what it holds alone.        *)
JobBreaks ==
  /\ mover.step \in {"copying", "finalizing", "switching"} /\ Damage
  /\ Finish("failed") /\ UNCHANGED <<root, disk, homes, Unthreaded>>

(* A move from a root that holds the files has brought them to the target.    *)
Rehomed == IF relocation.mode = "move" /\ relocation.source \in homes
           THEN homes \cup {relocation.target} ELSE homes

(* Variant: the source is emptied before the target is known to work.         *)
SwitchAndClean ==
  /\ MoverAt("switching") /\ Intact
  /\ root' = relocation.target /\ homes' = Rehomed
  /\ disk' = IF relocation.mode = "move" THEN [disk EXCEPT ![relocation.source] = {}] ELSE disk
  /\ Go("activating", {}) /\ UNCHANGED <<staging, Unthreaded>>

(* set_model_storage_root replaces its file at once.                          *)
SwitchRoot ==
  /\ MoverAt("switching") /\ Intact
  /\ root' = relocation.target /\ homes' = Rehomed
  /\ Go("activating", {}) /\ UNCHANGED <<disk, staging, Unthreaded>>

Activate ==
  /\ MoverAt("activating") /\ Intact
  /\ IF relocation.mode = "move"
     THEN Go("cleaning", disk[relocation.source]) /\ homes' = homes \ {relocation.source}
     ELSE Go("ending", {}) /\ UNCHANGED homes
  /\ UNCHANGED <<root, disk, staging, Unthreaded>>

ActivationFails ==
  /\ MoverAt("activating") /\ Damage
  /\ root' = relocation.source
  /\ Finish("failed") /\ UNCHANGED <<disk, homes, Unthreaded>>

(* _remove_owned_source goes on when something cannot be removed.             *)
RemoveItem ==
  /\ MoverAt("cleaning")
  /\ \E file \in mover.todo :
       /\ Go("cleaning", mover.todo \ {file})
       /\ \/ disk' = [disk EXCEPT ![relocation.source] = @ \ {file}] /\ Intact
          \/ UNCHANGED disk /\ Damage
  /\ UNCHANGED <<root, staging, homes, Unthreaded>>

Removed ==
  /\ MoverAt("cleaning") /\ mover.todo = {} /\ Intact
  /\ Go("ending", {}) /\ UNCHANGED <<root, disk, staging, homes, Unthreaded>>

EndJob ==
  /\ MoverAt("ending") /\ Intact
  /\ Finish("complete") /\ UNCHANGED <<root, disk, homes, Unthreaded>>

(* The last write of the job's file fails: the handler for errors takes the   *)
(* root back to the source, which may have been emptied.                      *)
EndFails ==
  /\ MoverAt("ending") /\ Damage
  /\ root' = relocation.source /\ Finish("failed") /\ UNCHANGED <<disk, homes, Unthreaded>>

(* The process ends; recover_interrupted_relocation reads the job's file.     *)
(* What is left in a staging directory is named to the user; no job reads it. *)
RestartService ==
  /\ Damage /\ JobActive
  /\ relocation' = [relocation EXCEPT !.status = "failed"]
  /\ mover' = Idling /\ stop' = FALSE /\ cancelling' = FALSE /\ busy' = "no"
  /\ planAsked' = NoRequest /\ startAsked' = NoRequest
  /\ staging' = [r \in Roots |-> {}]
  /\ UNCHANGED <<root, disk, homes, dialog, jobShown, choices, relocations>>

Thread ==
  \/ PlanJob \/ PlanFails \/ CopyItem \/ CopyCancelled \/ StartFinal \/ FinalizeItem
  \/ Finalized \/ LastLook \/ JobBreaks \/ SwitchRoot \/ Activate \/ ActivationFails
  \/ RemoveItem \/ Removed \/ EndJob \/ EndFails

StorageNext ==
  \/ ChooseLocation \/ ChooseMoveMode \/ CloseDialog \/ AskPlan \/ PlanAnswered \/ PressStart
  \/ StartJob \/ RefuseJob \/ AskCancel \/ MarkCancel \/ PollJob \/ Operation
  \/ Thread \/ RestartService

StorageSpec == StorageInit /\ [][StorageNext]_storageVars

StorageTypeOK ==
  /\ root \in Roots /\ homes \subseteq Roots
  /\ disk \in [Roots -> SUBSET Files] /\ staging \in [Roots -> SUBSET Files]
  /\ relocation.status \in {"idle", "running", "cancelling", "complete", "cancelled", "failed"}
  /\ relocation.source \in Roots /\ relocation.target \in Roots \cup {NoTarget}
  /\ relocation.mode \in Modes
  /\ mover.step \in {"none", "planning", "copying", "finalizing", "looking", "switching",
                     "activating", "cleaning", "ending"}
  /\ mover.todo \subseteq Files
  /\ {stop, cancelling, dialog.open} \subseteq BOOLEAN
  /\ busy \in {"no", "passed", "registered"}
  /\ dialog.target \in Roots \cup {NoTarget} /\ dialog.plan \in {"none", "valid", "invalid"}
  /\ {planAsked, startAsked} \subseteq [target : Roots \cup {NoTarget}, mode : Modes]
  /\ jobShown \in {"idle", "running", "cancelling", "complete", "cancelled", "failed"}

(* No model file is lost: whatever is cancelled, fails or is cut short by a   *)
(* restart, the files are whole where the moves have put them                 *)
(* (_run_relocation), which needs the copy to be whole before the switch and  *)
(* the switch to be final before the source is emptied.                       *)
ModelsAreKept == homes # {} /\ \A r \in homes : Files \subseteq disk[r]

(* While the thread works on the directories its job counts as active, which  *)
(* is what keeps a second job and new work with models away (start_relocation,*)
(* require_storage), whatever a cancellation finds and marks; and the files   *)
(* never go to the root they come from, which is emptied.                     *)
MoverIsKnown == mover.step # "none" => JobActive /\ relocation.target # relocation.source
=============================================================================
