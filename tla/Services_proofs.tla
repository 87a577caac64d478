---------------------------- MODULE Services_proofs ----------------------------
(* Proofs about the other jobs of the server - the relocation of the models,  *)
(* the installation of the CUDA kit - and about the media folders, for any    *)
(* sets of files and directories, any number of releases and any bounds.      *)
EXTENDS Translation_proofs, MCServices

(******************************************************************************)
(* The relocation of the models.  Where the files are is known from how far   *)
(* the thread is: they are on their way from the source through the staging   *)
(* directory to the target until the switch, and the source is only emptied   *)
(* when it is no longer one of the homes.                                     *)
(******************************************************************************)
MoveRequest == [target : Roots \cup {NoTarget}, mode : Modes]
JobStatuses == {"idle", "running", "cancelling", "complete", "cancelled", "failed"}
MoverSteps == {"none", "planning", "copying", "finalizing", "looking", "switching",
               "activating", "cleaning", "ending"}

DiskTyped ==
  /\ root \in Roots /\ homes \subseteq Roots
  /\ disk \in [Roots -> SUBSET Files] /\ staging \in [Roots -> SUBSET Files]
  /\ relocation \in [status : JobStatuses, source : Roots, target : Roots \cup {NoTarget},
                     mode : Modes]
  /\ mover \in [step : MoverSteps, todo : SUBSET Files]

DialogTyped ==
  /\ stop \in BOOLEAN /\ cancelling \in BOOLEAN /\ busy \in {"no", "passed", "registered"}
  /\ dialog \in [open : BOOLEAN, target : Roots \cup {NoTarget}, mode : Modes,
                 plan : {"none", "valid", "invalid"}]
  /\ planAsked \in MoveRequest /\ startAsked \in MoveRequest /\ jobShown \in JobStatuses

AskedIsRoot ==
  /\ dialog.open => dialog.target \in Roots
  /\ startAsked # NoRequest => startAsked.target \in Roots

(* The job carries the files: it moves them from a directory that has them.   *)
Carries == relocation.mode = "move" /\ relocation.source \in homes
On(where) == Files \subseteq where

FilesOnTheirWay ==
  /\ MoverAt("copying") =>
       relocation.mode = "move" /\ (Carries => On(staging[relocation.target] \cup mover.todo))
  /\ MoverAt("finalizing") =>
       relocation.mode = "move"
         /\ (Carries => On(staging[relocation.target] \cup disk[relocation.target]))
  /\ mover.step \in {"looking", "switching"} => (Carries => On(disk[relocation.target]))
  /\ MoverAt("activating") => (Carries => relocation.target \in homes)
  /\ MoverAt("cleaning") => relocation.source \notin homes

ThreadKnown == mover.step # "none" => relocation.target \in Roots /\ MoverIsKnown

StorageInv == DiskTyped /\ DialogTyped /\ AskedIsRoot /\ FilesOnTheirWay /\ ThreadKnown
                /\ ModelsAreKept
StorageState == DiskTyped /\ FilesOnTheirWay /\ ThreadKnown /\ ModelsAreKept

LEMMA NoRequestTyped == NoRequest \in MoveRequest
  BY DEF NoRequest, MoveRequest, Modes

LEMMA StorageInitInv == StorageInit => StorageInv
  <1> SUFFICES ASSUME StorageInit PROVE StorageInv
    OBVIOUS
  <1>1. DiskTyped
    BY StorageAssumption
    DEF StorageInit, DiskTyped, JobStatuses, Modes, MoverSteps, Idling
  <1>2. DialogTyped
    BY NoRequestTyped DEF StorageInit, DialogTyped, JobStatuses, Modes
  <1>3. AskedIsRoot
    BY DEF StorageInit, AskedIsRoot
  <1>4. FilesOnTheirWay /\ ThreadKnown
    BY DEF StorageInit, FilesOnTheirWay, ThreadKnown, MoverAt, Idling
  <1>5. ModelsAreKept
    BY StorageAssumption DEF StorageInit, ModelsAreKept
  <1> QED
    BY <1>1, <1>2, <1>3, <1>4, <1>5 DEF StorageInv

(* What goes on in the panel moves no file.                                   *)
LEMMA PanelKeeps ==
  ASSUME StorageInv,
         ChooseLocation \/ ChooseMoveMode \/ CloseDialog \/ AskPlan \/ PlanAnswered \/ PressStart
           \/ RefuseJob \/ AskCancel \/ PollJob \/ Operation
  PROVE  StorageInv'
  <1>1. UNCHANGED <<threadVars, relocation>>
    BY DEF ChooseLocation, ChooseMoveMode, CloseDialog, Chosen, AskPlan, PlanAnswered, PressStart,
           RefuseJob, AskCancel, PollJob, Operation
  <1>2. StorageState'
    BY <1>1 DEF StorageInv, StorageState, threadVars, DiskTyped, FilesOnTheirWay, ThreadKnown,
                ModelsAreKept, MoverAt, Carries, On, MoverIsKnown, JobActive
  <1>3. DialogTyped'
    <2> USE DEF StorageInv, DialogTyped, DiskTyped
    <2>1. CASE ChooseLocation \/ ChooseMoveMode \/ CloseDialog
      BY <2>1 DEF ChooseLocation, ChooseMoveMode, CloseDialog, Chosen
    <2>2. CASE AskPlan \/ PressStart
      BY <2>2 DEF AskPlan, PressStart, MoveRequest
    <2>3. CASE PlanAnswered
      BY <2>3, NoRequestTyped DEF PlanAnswered
    <2>4. CASE RefuseJob \/ AskCancel \/ PollJob \/ Operation
      BY <2>4, NoRequestTyped DEF RefuseJob, AskCancel, PollJob, Operation, dialogVars
    <2> QED
      BY <2>1, <2>2, <2>3, <2>4
  <1>4. AskedIsRoot'
    <2> USE DEF StorageInv, AskedIsRoot, DialogTyped
    <2>1. CASE ChooseLocation \/ ChooseMoveMode \/ CloseDialog
      BY <2>1 DEF ChooseLocation, ChooseMoveMode, CloseDialog, Chosen
    <2>2. CASE AskPlan \/ PressStart
      BY <2>2 DEF AskPlan, PressStart
    <2>3. CASE PlanAnswered
      BY <2>3 DEF PlanAnswered
    <2>4. CASE RefuseJob \/ AskCancel \/ PollJob \/ Operation
      BY <2>4 DEF RefuseJob, AskCancel, PollJob, Operation, dialogVars
    <2> QED
      BY <2>1, <2>2, <2>3, <2>4
  <1> QED
    BY <1>2, <1>3, <1>4 DEF StorageInv, StorageState

LEMMA StartKeeps == StorageInv /\ StartJob => StorageInv'
  <1> SUFFICES ASSUME StorageInv, StartJob PROVE StorageInv'
    OBVIOUS
  <1>1. /\ relocation' = [status |-> "running", source |-> root, target |-> startAsked.target,
                           mode |-> startAsked.mode]
        /\ startAsked.target \in Roots /\ startAsked.mode \in Modes
        /\ startAsked.target # root
    BY DEF StartJob, Plannable, StorageInv, AskedIsRoot, DialogTyped, MoveRequest
  <1>2. DiskTyped'
    BY <1>1 DEF StartJob, StorageInv, DiskTyped, JobStatuses, MoverSteps
  <1>3. DialogTyped' /\ AskedIsRoot'
    BY NoRequestTyped DEF StartJob, StorageInv, DialogTyped, AskedIsRoot
  <1>4. FilesOnTheirWay' /\ ModelsAreKept'
    BY DEF StartJob, StorageInv, FilesOnTheirWay, MoverAt, ModelsAreKept
  <1>5. ThreadKnown'
    BY <1>1 DEF ThreadKnown, MoverIsKnown, JobActive
  <1> QED
    BY <1>2, <1>3, <1>4, <1>5 DEF StorageInv

LEMMA MarkKeeps == StorageInv /\ MarkCancel => StorageInv'
  <1> SUFFICES ASSUME StorageInv, MarkCancel PROVE StorageInv'
    OBVIOUS
  <1>1. /\ relocation' = [relocation EXCEPT !.status = "cancelling"] /\ UNCHANGED threadVars
        /\ relocation'.status = "cancelling" /\ relocation'.mode = relocation.mode
        /\ relocation'.source = relocation.source /\ relocation'.target = relocation.target
    BY DEF MarkCancel, StorageInv, DiskTyped
  <1>2. DiskTyped'
    BY <1>1 DEF StorageInv, DiskTyped, JobStatuses, threadVars
  <1>3. DialogTyped' /\ AskedIsRoot'
    BY DEF MarkCancel, StorageInv, DialogTyped, AskedIsRoot, dialogVars
  <1>4. FilesOnTheirWay' /\ ModelsAreKept'
    BY <1>1 DEF StorageInv, FilesOnTheirWay, MoverAt, Carries, On, ModelsAreKept, threadVars
  <1>5. ThreadKnown'
    BY <1>1 DEF StorageInv, ThreadKnown, MoverIsKnown, JobActive, threadVars
  <1> QED
    BY <1>2, <1>3, <1>4, <1>5 DEF StorageInv

(* The end of a job, in whatever way.                                         *)
LEMMA FinishKeeps ==
  ASSUME StorageInv, NEW outcome \in JobStatuses, Finish(outcome), root' \in Roots,
         UNCHANGED <<disk, homes, Unthreaded>>
  PROVE  StorageInv'
  <1>1. DiskTyped'
    BY DEF Finish, StorageInv, DiskTyped, Idling, MoverSteps
  <1>2. DialogTyped' /\ AskedIsRoot'
    BY DEF StorageInv, DialogTyped, AskedIsRoot, Unthreaded, dialogVars
  <1>3. FilesOnTheirWay' /\ ModelsAreKept' /\ ThreadKnown'
    BY DEF Finish, StorageInv, FilesOnTheirWay, MoverAt, Idling, ModelsAreKept, ThreadKnown
  <1> QED
    BY <1>1, <1>2, <1>3 DEF StorageInv

LEMMA RestartKeeps == StorageInv /\ RestartService => StorageInv'
  <1> SUFFICES ASSUME StorageInv, RestartService PROVE StorageInv'
    OBVIOUS
  <1>1. DiskTyped'
    BY DEF RestartService, StorageInv, DiskTyped, JobStatuses, Idling, MoverSteps
  <1>2. DialogTyped' /\ AskedIsRoot'
    BY NoRequestTyped DEF RestartService, StorageInv, DialogTyped, AskedIsRoot
  <1>3. FilesOnTheirWay' /\ ModelsAreKept' /\ ThreadKnown'
    BY DEF RestartService, StorageInv, FilesOnTheirWay, MoverAt, Idling, ModelsAreKept, ThreadKnown
  <1> QED
    BY <1>1, <1>2, <1>3 DEF StorageInv

(* The other steps of the thread leave the dialog and the job alone.          *)
LEMMA GoKeeps ==
  ASSUME StorageInv, NEW step \in MoverSteps, NEW todo \in SUBSET Files, Go(step, todo),
         mover.step # "none", UNCHANGED Unthreaded,
         root' \in Roots, homes' \subseteq Roots, disk' \in [Roots -> SUBSET Files],
         staging' \in [Roots -> SUBSET Files], FilesOnTheirWay', ModelsAreKept'
  PROVE  StorageInv'
  BY DEF StorageInv, Go, Unthreaded, dialogVars, DiskTyped, DialogTyped, AskedIsRoot, ThreadKnown,
         MoverIsKnown, JobActive

LEMMA BeforeSwitchKeeps ==
  ASSUME StorageInv,
         PlanJob \/ CopyItem \/ StartFinal \/ FinalizeItem \/ Finalized
           \/ (LastLook /\ ~stop)
  PROVE  StorageInv'
  <1> USE DEF MoverSteps
  <1> DEFINE here == relocation.target
  <1>0. mover.step # "none" => here \in Roots /\ here # relocation.source
    BY DEF StorageInv, ThreadKnown, MoverIsKnown
  <1>1. CASE PlanJob
    <2>1. ModelsAreKept' /\ (Carries => On(disk[relocation.source])) /\ MoverAt("planning")
      BY <1>1 DEF PlanJob, StorageInv, ModelsAreKept, Carries, On
    <2>2. CASE relocation.mode = "move"
      <3>1. Go("copying", disk[relocation.source]) /\ disk[relocation.source] \in SUBSET Files
        BY <1>1, <2>2 DEF PlanJob, StorageInv, DiskTyped
      <3>2. FilesOnTheirWay'
        BY <1>1, <2>1, <2>2, <3>1 DEF PlanJob, Go, FilesOnTheirWay, MoverAt, Carries, On
      <3> QED
        BY <1>1, <2>1, <3>1, <3>2, GoKeeps DEF PlanJob, MoverAt, StorageInv, DiskTyped
    <2>3. CASE relocation.mode # "move"
      <3>1. Go("looking", {})
        BY <1>1, <2>3 DEF PlanJob
      <3>2. FilesOnTheirWay'
        BY <1>1, <2>3, <3>1 DEF PlanJob, Go, FilesOnTheirWay, MoverAt, Carries
      <3> QED
        BY <1>1, <2>1, <3>1, <3>2, GoKeeps DEF PlanJob, MoverAt, StorageInv, DiskTyped
    <2> QED
      BY <2>2, <2>3
  <1>2. CASE CopyItem
    <2>1. PICK item \in mover.todo :
            /\ staging' = [staging EXCEPT ![here] = @ \cup {item}]
            /\ Go("copying", mover.todo \ {item})
      BY <1>2 DEF CopyItem
    <2>2. staging'[here] = staging[here] \cup {item} /\ staging' \in [Roots -> SUBSET Files]
      BY <1>0, <1>2, <2>1 DEF CopyItem, MoverAt, StorageInv, DiskTyped
    <2>3. FilesOnTheirWay'
      BY <1>2, <2>1, <2>2 DEF CopyItem, Go, StorageInv, FilesOnTheirWay, MoverAt, Carries, On
    <2>4. ModelsAreKept' /\ mover.todo \ {item} \in SUBSET Files
      BY <1>2 DEF CopyItem, StorageInv, ModelsAreKept, DiskTyped
    <2> QED
      BY <1>2, <2>1, <2>2, <2>3, <2>4, GoKeeps DEF CopyItem, MoverAt, StorageInv, DiskTyped
  <1>3. CASE StartFinal
    <2>1. FilesOnTheirWay' /\ ModelsAreKept'
      BY <1>3 DEF StartFinal, Go, StorageInv, FilesOnTheirWay, MoverAt, Carries, On, ModelsAreKept
    <2> QED
      BY <1>3, <2>1, GoKeeps DEF StartFinal, MoverAt, StorageInv, DiskTyped
  <1>4. CASE FinalizeItem
    <2>1. PICK item \in staging[here] :
            /\ staging' = [staging EXCEPT ![here] = @ \ {item}]
            /\ disk' = [disk EXCEPT ![here] = @ \cup {item}]
      BY <1>4 DEF FinalizeItem
    <2>2. /\ staging'[here] = staging[here] \ {item} /\ disk'[here] = disk[here] \cup {item}
          /\ staging' \in [Roots -> SUBSET Files] /\ disk' \in [Roots -> SUBSET Files]
          /\ \A r \in Roots : disk[r] \subseteq disk'[r]
      BY <1>0, <1>4, <2>1 DEF FinalizeItem, MoverAt, StorageInv, DiskTyped
    <2>3. FilesOnTheirWay'
      BY <1>4, <2>1, <2>2 DEF FinalizeItem, StorageInv, FilesOnTheirWay, MoverAt, Carries, On
    <2>4. ModelsAreKept'
      BY <1>4, <2>2 DEF FinalizeItem, StorageInv, DiskTyped, ModelsAreKept
    <2>5. Go(mover.step, mover.todo) /\ mover.step \in MoverSteps /\ mover.todo \in SUBSET Files
      BY <1>4 DEF FinalizeItem, Go, StorageInv, DiskTyped
    <2> QED
      BY <1>4, <2>2, <2>3, <2>4, <2>5, GoKeeps DEF FinalizeItem, MoverAt, StorageInv, DiskTyped
  <1>5. CASE Finalized
    <2>1. FilesOnTheirWay' /\ ModelsAreKept'
      BY <1>5 DEF Finalized, Go, StorageInv, FilesOnTheirWay, MoverAt, Carries, On, ModelsAreKept
    <2> QED
      BY <1>5, <2>1, GoKeeps DEF Finalized, MoverAt, StorageInv, DiskTyped
  <1>6. CASE LastLook /\ ~stop
    <2>1. FilesOnTheirWay' /\ ModelsAreKept'
      BY <1>6 DEF LastLook, Go, StorageInv, FilesOnTheirWay, MoverAt, Carries, On, ModelsAreKept
    <2> QED
      BY <1>6, <2>1, GoKeeps DEF LastLook, MoverAt, StorageInv, DiskTyped
  <1> QED
    BY <1>1, <1>2, <1>3, <1>4, <1>5, <1>6

LEMMA AfterSwitchKeeps ==
  ASSUME StorageInv, SwitchRoot \/ Activate \/ RemoveItem \/ Removed
  PROVE  StorageInv'
  <1> USE DEF MoverSteps
  <1>0. mover.step # "none" =>
          relocation.target \in Roots /\ relocation.target # relocation.source
    BY DEF StorageInv, ThreadKnown, MoverIsKnown
  <1>1. CASE SwitchRoot
    <2>1. homes' \subseteq Roots /\ (Carries => relocation.target \in homes')
            /\ (homes' = homes \/ (Carries /\ homes' = homes \cup {relocation.target}))
      BY <1>0, <1>1 DEF SwitchRoot, Rehomed, Carries, StorageInv, DiskTyped, MoverAt
    <2>2. ModelsAreKept'
      BY <1>1, <2>1 DEF SwitchRoot, StorageInv, ModelsAreKept, FilesOnTheirWay, MoverAt, On
    <2>3. FilesOnTheirWay'
      BY <1>0, <1>1, <2>1 DEF SwitchRoot, Go, FilesOnTheirWay, MoverAt, Carries
    <2> QED
      BY <1>0, <1>1, <2>1, <2>2, <2>3, GoKeeps DEF SwitchRoot, MoverAt, StorageInv, DiskTyped
  <1>2. CASE Activate
    <2>1. CASE relocation.mode = "move"
      <3>1. /\ Go("cleaning", disk[relocation.source]) /\ homes' = homes \ {relocation.source}
            /\ disk[relocation.source] \in SUBSET Files
        BY <1>2, <2>1 DEF Activate, StorageInv, DiskTyped
      <3>2. ModelsAreKept'
        BY <1>0, <1>2, <2>1, <3>1
        DEF Activate, StorageInv, ModelsAreKept, FilesOnTheirWay, MoverAt, Carries
      <3>3. FilesOnTheirWay'
        BY <1>2, <3>1 DEF Activate, Go, FilesOnTheirWay, MoverAt
      <3> QED
        BY <1>2, <3>1, <3>2, <3>3, GoKeeps DEF Activate, MoverAt, StorageInv, DiskTyped
    <2>2. CASE relocation.mode # "move"
      <3>1. Go("ending", {}) /\ UNCHANGED homes
        BY <1>2, <2>2 DEF Activate
      <3>2. FilesOnTheirWay' /\ ModelsAreKept'
        BY <1>2, <3>1 DEF Activate, Go, FilesOnTheirWay, MoverAt, StorageInv, ModelsAreKept
      <3> QED
        BY <1>2, <3>1, <3>2, GoKeeps DEF Activate, MoverAt, StorageInv, DiskTyped
    <2> QED
      BY <2>1, <2>2
  <1>3. CASE RemoveItem
    <2>1. PICK item \in mover.todo :
            /\ Go("cleaning", mover.todo \ {item})
            /\ \/ disk' = [disk EXCEPT ![relocation.source] = @ \ {item}]
               \/ UNCHANGED disk
      BY <1>3 DEF RemoveItem
    <2>2. /\ disk' \in [Roots -> SUBSET Files]
          /\ \A r \in Roots \ {relocation.source} : disk'[r] = disk[r]
      BY <2>1 DEF StorageInv, DiskTyped
    <2>3. ModelsAreKept' /\ FilesOnTheirWay'
      BY <1>3, <2>1, <2>2
      DEF RemoveItem, Go, StorageInv, ModelsAreKept, DiskTyped, FilesOnTheirWay, MoverAt
    <2>4. mover.todo \ {item} \in SUBSET Files
      BY DEF StorageInv, DiskTyped
    <2> QED
      BY <1>3, <2>1, <2>2, <2>3, <2>4, GoKeeps DEF RemoveItem, MoverAt, StorageInv, DiskTyped
  <1>4. CASE Removed
    <2>1. FilesOnTheirWay' /\ ModelsAreKept'
      BY <1>4 DEF Removed, Go, FilesOnTheirWay, MoverAt, StorageInv, ModelsAreKept
    <2> QED
      BY <1>4, <2>1, GoKeeps DEF Removed, MoverAt, StorageInv, DiskTyped
  <1> QED
    BY <1>1, <1>2, <1>3, <1>4

LEMMA EndsKeep ==
  ASSUME StorageInv,
         PlanFails \/ CopyCancelled \/ (LastLook /\ stop) \/ JobBreaks \/ ActivationFails
           \/ EndJob \/ EndFails
  PROVE  StorageInv'
  <1>1. UNCHANGED <<disk, homes, Unthreaded>> /\ \E outcome \in JobStatuses : Finish(outcome)
    BY DEF PlanFails, CopyCancelled, LastLook, JobBreaks, ActivationFails, EndJob, EndFails,
           JobStatuses
  <1>2. root' \in Roots
    BY DEF PlanFails, CopyCancelled, LastLook, JobBreaks, ActivationFails, EndJob, EndFails,
           StorageInv, DiskTyped
  <1> QED
    BY <1>1, <1>2, FinishKeeps

LEMMA StorageStep == StorageInv /\ [StorageNext]_storageVars => StorageInv'
  <1> SUFFICES ASSUME StorageInv, [StorageNext]_storageVars PROVE StorageInv'
    OBVIOUS
  <1>1. CASE UNCHANGED storageVars
    BY <1>1 DEF storageVars, threadVars, dialogVars, StorageInv, DiskTyped, DialogTyped,
                AskedIsRoot, FilesOnTheirWay, ThreadKnown, ModelsAreKept, MoverAt, Carries, On,
                MoverIsKnown, JobActive
  <1>2. CASE Thread
    BY <1>2, BeforeSwitchKeeps, AfterSwitchKeeps, EndsKeep DEF Thread
  <1> QED
    BY <1>1, <1>2, PanelKeeps, StartKeeps, MarkKeeps, RestartKeeps DEF StorageNext

LEMMA StorageHolds == StorageSpec => []StorageInv
  <1> QED
    BY StorageInitInv, StorageStep, PTL DEF StorageSpec

(* The relocation is well typed: the configured root, the job and its thread. *)
THEOREM StorageTypeOKHolds == StorageSpec => []StorageTypeOK
  <1>1. StorageInv => StorageTypeOK
    BY DEF StorageInv, DiskTyped, DialogTyped, StorageTypeOK, JobStatuses, MoverSteps, MoveRequest
  <1> QED
    BY <1>1, StorageHolds, PTL

(* No relocation loses a model file (_run_relocation), whatever it is         *)
(* cancelled by, wherever it fails and whenever the service restarts.         *)
THEOREM ModelsAreKeptHolds == StorageSpec => []ModelsAreKept
  <1> QED
    BY StorageHolds, PTL DEF StorageInv

(* A thread that works on the directories has an active job.                  *)
THEOREM MoverIsKnownHolds == StorageSpec => []MoverIsKnown
  <1>1. StorageInv => MoverIsKnown
    BY DEF StorageInv, ThreadKnown, MoverIsKnown
  <1> QED
    BY <1>1, StorageHolds, PTL

(******************************************************************************)
(* The CUDA kit.  Between the exchange of the directory and its manifest the  *)
(* thread is at "mark": what is there then is of the release the thread was  *)
(* started by, or what a removal left of it.                                  *)
(******************************************************************************)
LoadSteps == {"none", "manifest", "parts", "zip", "extract", "files", "install", "mark",
              "clear"}
KitJobs == {"idle", "running", "completed", "failed", "cancelled"}
Leavings == {"manifest", "parts", "zip", "tree"}
KitCalls == {"toggle", "download", "cancel", "delete", "redetect"}

KitTyped ==
  /\ kitRelease \in 1..Releases /\ loaded \in 0..Partial
  /\ kit \in [content : 0..Partial, manifest : 0..Releases]
  /\ turnedOn \in BOOLEAN /\ stopped \in BOOLEAN /\ again \in BOOLEAN /\ restarting \in BOOLEAN
  /\ loader \in [step : LoadSteps, lost : SUBSET Leavings]
  /\ deletion \in {"none", "kit", "downloads"} /\ kitCalls \subseteq KitCalls
  /\ kitJob \in KitJobs /\ kitFile \in KitJobs
  /\ gpu \in {"unknown", "yes", "no"} /\ probed \in {"pending", "device", "nodevice"}

PanelTyped ==
  /\ toggle.next \in BOOLEAN /\ seenKit.on \in BOOLEAN
  /\ presses \in 0..MaxPresses /\ breaks \in 0..MaxBreaks

MarkedNext == loader.step = "mark" => kit.content \in {0, kitRelease, Partial}

KitInv == KitTyped /\ PanelTyped /\ MarkedNext /\ KitIsVerified

LEMMA FollowingSteps ==
  /\ DOMAIN Following = {"manifest", "parts", "zip", "extract", "files"}
  /\ \A step \in DOMAIN Following : Following[step] \in LoadSteps \ {"none", "mark"}
  BY DEF Following, LoadSteps

LEMMA KitInitInv == KitInit => KitInv
  <1> SUFFICES ASSUME KitInit PROVE KitInv
    OBVIOUS
  <1>1. kitRelease \in 1..Releases /\ loaded \in 0..Partial
          /\ kit \in [content : 0..Partial, manifest : 0..Releases]
    BY KitAssumption DEF KitInit, NoKit, Partial
  <1>2. loader \in [step : LoadSteps, lost : SUBSET Leavings]
    BY DEF KitInit, AtRest, LoadSteps
  <1>3. KitTyped
    BY <1>1, <1>2 DEF KitInit, KitTyped, KitJobs
  <1>4. toggle.next \in BOOLEAN
    BY DEF KitInit
  <1>5. seenKit.on \in BOOLEAN
    BY DEF KitInit, KitAnswer
  <1>6. presses \in 0..MaxPresses /\ breaks \in 0..MaxBreaks
    BY KitAssumption DEF KitInit
  <1>7. MarkedNext /\ KitIsVerified
    BY DEF KitInit, MarkedNext, KitIsVerified, KitPresent, NoKit, AtRest
  <1> QED
    BY <1>3, <1>4, <1>5, <1>6, <1>7 DEF KitInv, PanelTyped

(* What leaves the kit and its thread alone.                                  *)
LEMMA KitUntouched ==
  ASSUME MarkedNext, KitIsVerified, UNCHANGED <<kit, kitRelease>>,
         loader'.step = loader.step \/ loader'.step # "mark"
  PROVE  MarkedNext' /\ KitIsVerified'
  BY DEF MarkedNext, KitIsVerified, KitPresent, Partial

(* What a removal leaves has no manifest, or is what it was.                  *)
LEMMA KitRemoved ==
  ASSUME KitTyped, MarkedNext, KitIsVerified, UNCHANGED kitRelease,
         kit' \in {NoKit, [kit EXCEPT !.manifest = 0], kit},
         loader'.step = loader.step \/ loader'.step # "mark"
  PROVE  /\ MarkedNext' /\ KitIsVerified'
         /\ kit' \in [content : 0..Partial, manifest : 0..Releases]
  BY KitAssumption DEF KitTyped, MarkedNext, KitIsVerified, KitPresent, Partial, NoKit

LEMMA KitPanelKeeps ==
  ASSUME KitInv,
         PressToggle \/ PressDownload \/ PressAgain \/ PressRemove \/ PressCancel
           \/ PressRedetect \/ PollKit
  PROVE  KitInv'
  <1>1. UNCHANGED <<diskVars, processVars>>
    BY DEF PressToggle, PressDownload, PressAgain, PressRemove, PressCancel, PressRedetect, PollKit,
           PressKit
  <1>2. MarkedNext' /\ KitIsVerified'
    BY <1>1, KitUntouched DEF KitInv, diskVars, processVars, jobVars
  <1>3. CASE PollKit
    <2>1. KitTyped' /\ PanelTyped'
      BY <1>1, <1>3
      DEF PollKit, KitAnswer, KitInv, KitTyped, PanelTyped, diskVars, processVars, jobVars
    <2> QED
      BY <1>2, <2>1 DEF KitInv
  <1>4. CASE ~PollKit
    <2>1. PICK call \in KitCalls : PressKit(call)
      BY <1>4 DEF PressToggle, PressDownload, PressAgain, PressRemove, PressCancel, PressRedetect,
                  KitCalls
    <2>2. again' \in BOOLEAN /\ toggle'.next \in BOOLEAN
      <3>1. CASE PressToggle
        <4>1. toggle'.next \in BOOLEAN
          BY <3>1 DEF PressToggle
        <4> QED
          BY <3>1, <4>1 DEF PressToggle, KitInv, KitTyped
      <3>2. CASE PressAgain
        BY <3>2 DEF PressAgain, KitInv, PanelTyped
      <3>3. CASE PressDownload \/ PressRemove \/ PressCancel \/ PressRedetect
        BY <3>3 DEF PressDownload, PressRemove, PressCancel, PressRedetect, KitInv, KitTyped,
                    PanelTyped
      <3> QED
        BY <1>4, <3>1, <3>2, <3>3
    <2>3. KitTyped'
      BY <1>1, <2>1, <2>2 DEF PressKit, KitInv, KitTyped, diskVars, processVars, jobVars
    <2>4. PanelTyped'
      BY <2>1, <2>2, KitAssumption DEF PressKit, KitInv, PanelTyped
    <2> QED
      BY <1>2, <2>3, <2>4 DEF KitInv
  <1> QED
    BY <1>3, <1>4

LEMMA KitRequestsKeep ==
  ASSUME KitInv,
         SetEnabled \/ Redetect \/ CallFails \/ StartKit \/ CancelKit \/ BeginDeletion
           \/ RemoveDownloads \/ ProbeEnds
  PROVE  KitInv'
  <1>1. UNCHANGED <<kit, kitRelease>> /\ (loader'.step = loader.step \/ loader'.step # "mark")
    BY DEF SetEnabled, Redetect, CallFails, StartKit, CancelKit, BeginDeletion, RemoveDownloads,
           ProbeEnds, diskVars, processVars, jobVars, KitInv, KitTyped
  <1>2. MarkedNext' /\ KitIsVerified'
    BY <1>1, KitUntouched DEF KitInv
  <1>3. KitTyped'
    <2> USE DEF KitInv, KitTyped
    <2>1. CASE SetEnabled
      BY <2>1 DEF SetEnabled, Answered, ForgetProbe, PanelTyped, jobVars
    <2>2. CASE Redetect \/ CancelKit
      BY <2>2 DEF Redetect, CancelKit, Answered, ForgetProbe, diskVars, JobRuns, jobVars
    <2>7. CASE CallFails
      BY <2>7 DEF CallFails, diskVars, processVars, jobVars
    <2>3. CASE StartKit
      <3>1. UNCHANGED <<diskVars, loaded, probed, gpu, again, restarting>>
              /\ kitCalls' \subseteq kitCalls /\ stopped' \in BOOLEAN
        BY <2>3 DEF StartKit, Answered
      <3>2. kitJob' \in KitJobs /\ kitFile' \in KitJobs
        BY <2>3 DEF StartKit, jobVars, KitJobs
      <3>3. loader' \in [step : LoadSteps, lost : SUBSET Leavings]
        <4>1. loader' = loader \/ loader' = [step |-> "manifest", lost |-> {}]
          BY <2>3 DEF StartKit, jobVars
        <4> QED
          BY <4>1 DEF LoadSteps
      <3> QED
        BY <3>1, <3>2, <3>3 DEF diskVars
    <2>4. CASE BeginDeletion
      BY <2>4 DEF BeginDeletion, processVars, jobVars
    <2>5. CASE RemoveDownloads
      <3>1. /\ UNCHANGED <<kitRelease, turnedOn, kit, loaded, kitJob, kitFile, stopped, restarting>>
            /\ deletion' = "none" /\ again' = FALSE /\ kitCalls' \subseteq KitCalls
            /\ probed' = "pending" /\ gpu' = "unknown"
        BY <2>5 DEF RemoveDownloads, ForgetProbe, KitCalls
      <3>2. loader' \in [step : LoadSteps, lost : SUBSET Leavings]
        <4>1. Downloaded \subseteq Leavings
          BY DEF Downloaded, Leavings
        <4>2. PICK removed \in SUBSET Downloaded : loader' = [loader EXCEPT !.lost = @ \cup removed]
          BY <2>5 DEF RemoveDownloads
        <4> QED
          BY <4>1, <4>2
      <3> QED
        BY <3>1, <3>2
    <2>6. CASE ProbeEnds
      BY <2>6 DEF ProbeEnds, diskVars, kitPanelVars, jobVars
    <2> QED
      BY <2>1, <2>2, <2>3, <2>4, <2>5, <2>6, <2>7
  <1>4. PanelTyped'
    BY KitAssumption
    DEF KitInv, KitTyped, PanelTyped, SetEnabled, Redetect, CallFails, StartKit, CancelKit,
        BeginDeletion, RemoveDownloads, ProbeEnds, kitPanelVars
  <1> QED
    BY <1>2, <1>3, <1>4 DEF KitInv

LEMMA KitThreadKeeps ==
  ASSUME KitInv,
         RemoveKitFiles \/ LoadStep \/ LoadCancelled \/ LoadFails \/ ReplaceKit \/ MarkKit
           \/ ClearDownloads
  PROVE  KitInv'
  <1>1. PanelTyped'
    BY KitAssumption
    DEF KitInv, PanelTyped, RemoveKitFiles, LoadStep, LoadCancelled, LoadFails, ReplaceKit, MarkKit,
        ClearDownloads, kitPanelVars, Undisturbed
  <1> USE DEF KitInv
  <1>2. CASE RemoveKitFiles
    <2>1. MarkedNext' /\ KitIsVerified' /\ kit' \in [content : 0..Partial, manifest : 0..Releases]
      BY <1>2, KitRemoved DEF RemoveKitFiles, processVars, jobVars
    <2> QED
      BY <1>1, <1>2, <2>1 DEF RemoveKitFiles, processVars, jobVars, kitPanelVars, KitTyped
  <1>3. CASE LoadStep
    <2>1. loader' = [loader EXCEPT !.step = Following[@]]
            /\ loader'.step \in LoadSteps \ {"none", "mark"} /\ UNCHANGED <<kit, kitRelease>>
      BY <1>3, FollowingSteps DEF LoadStep, KitTyped, Undisturbed
    <2>2. MarkedNext' /\ KitIsVerified'
      BY <2>1, KitUntouched
    <2>3. loader' \in [step : LoadSteps, lost : SUBSET Leavings]
      BY <2>1 DEF KitTyped
    <2> QED
      BY <1>1, <1>3, <2>2, <2>3 DEF LoadStep, KitTyped, Undisturbed, kitPanelVars
  <1>4. CASE LoadCancelled \/ ClearDownloads
    <2>1. MarkedNext' /\ KitIsVerified'
      BY <1>4, KitUntouched
      DEF LoadCancelled, ClearDownloads, EndLoad, AtRest, Undisturbed
    <2>2. /\ UNCHANGED <<kit, Undisturbed>> /\ loader' = AtRest
          /\ kitJob' \in KitJobs /\ kitFile' \in KitJobs
          /\ UNCHANGED <<probed, gpu>> \/ (probed' = "pending" /\ gpu' = "unknown")
      BY <1>4 DEF LoadCancelled, ClearDownloads, EndLoad, ForgetProbe, KitTyped, KitJobs
    <2>3. KitTyped'
      BY <2>2 DEF AtRest, Undisturbed, KitTyped, LoadSteps, kitPanelVars
    <2> QED
      BY <1>1, <2>1, <2>3
  <1>5. CASE LoadFails
    <2>1. UNCHANGED kit \/ kit' \in {NoKit, [kit EXCEPT !.manifest = 0], kit}
      BY <1>5 DEF LoadFails
    <2>2. MarkedNext' /\ KitIsVerified' /\ kit' \in [content : 0..Partial, manifest : 0..Releases]
      BY <1>5, <2>1, KitRemoved DEF LoadFails, EndLoad, AtRest, Undisturbed
    <2>3. KitTyped'
      BY <1>5, <2>2
      DEF LoadFails, EndLoad, AtRest, Undisturbed, KitTyped, KitJobs, LoadSteps, ForgetProbe,
          kitPanelVars
    <2> QED
      BY <1>1, <2>2, <2>3
  <1>6. CASE ReplaceKit
    <2>1. kit' = [content |-> kitRelease, manifest |-> 0] /\ UNCHANGED kitRelease
      BY <1>6 DEF ReplaceKit, Undisturbed
    <2>2. MarkedNext' /\ KitIsVerified'
      BY <2>1 DEF MarkedNext, KitIsVerified, KitPresent
    <2>3. kit' \in [content : 0..Partial, manifest : 0..Releases]
      BY <2>1, KitAssumption DEF KitTyped, Partial
    <2> QED
      BY <1>1, <1>6, <2>2, <2>3 DEF ReplaceKit, Undisturbed, kitPanelVars, KitTyped, LoadSteps
  <1>7. CASE MarkKit
    <2>1. kit' = [kit EXCEPT !.manifest = kitRelease] /\ UNCHANGED kitRelease
            /\ kit.content \in {kitRelease, Partial}
      BY <1>7 DEF MarkKit, Undisturbed, MarkedNext
    <2>2. /\ kit' \in [content : 0..Partial, manifest : 0..Releases]
          /\ kit'.content = kit.content /\ kit'.manifest = kitRelease
      BY <2>1, KitAssumption DEF KitTyped, Partial
    <2>3. KitIsVerified' /\ MarkedNext'
      BY <2>1, <2>2 DEF KitIsVerified, KitPresent, MarkedNext, Partial
    <2> QED
      BY <1>1, <1>7, <2>2, <2>3 DEF MarkKit, Undisturbed, kitPanelVars, KitTyped, LoadSteps
  <1> QED
    BY <1>2, <1>3, <1>4, <1>5, <1>6, <1>7

LEMMA NewProcessKeeps ==
  ASSUME KitInv, NewProcess, kitRelease' \in 1..Releases, restarting' \in BOOLEAN,
         breaks' \in 0..MaxBreaks
  PROVE  KitInv'
  <1>1. /\ kit' \in [content : 0..Partial, manifest : 0..Releases]
        /\ \/ kit'.manifest = kit.manifest /\ kit'.content \in {kit.content, Partial}
           \/ kit' = NoKit
    BY KitAssumption DEF KitInv, KitTyped, NewProcess, Interrupted, NoKit, Partial
  <1>2. KitIsVerified' /\ MarkedNext'
    BY <1>1, KitAssumption
    DEF KitInv, KitTyped, NewProcess, KitIsVerified, KitPresent, MarkedNext, NoKit, AtRest, Partial
  <1>3. loaded' \in 0..Partial
    BY <1>1, KitAssumption DEF NewProcess, Partial, KitInv, KitTyped
  <1>4. KitTyped' /\ PanelTyped'
    BY <1>1, <1>3
    DEF KitInv, KitTyped, PanelTyped, NewProcess, AtRest, LoadSteps, KitCalls, KitJobs
  <1> QED
    BY <1>2, <1>4 DEF KitInv

LEMMA KitEndsKeep ==
  ASSUME KitInv, RestartKit \/ RestartFails \/ CrashOrUpdate
  PROVE  KitInv'
  <1>1. breaks' \in 0..MaxBreaks /\ restarting' \in BOOLEAN /\ kitRelease' \in 1..Releases
    <2>1. CASE RestartKit
      BY <2>1 DEF RestartKit, KitInv, KitTyped, PanelTyped
    <2>2. CASE RestartFails
      <3>1. breaks' \in 0..MaxBreaks
        BY <2>2, KitAssumption DEF RestartFails, KitInv, PanelTyped
      <3>2. restarting' \in BOOLEAN
        BY <2>2 DEF RestartFails
      <3>3. kitRelease' \in 1..Releases
        BY <2>2 DEF RestartFails, KitInv, KitTyped, diskVars
      <3> QED
        BY <3>1, <3>2, <3>3
    <2>3. CASE CrashOrUpdate
      BY <2>3, KitAssumption DEF CrashOrUpdate, KitInv, KitTyped, PanelTyped
    <2> QED
      BY <2>1, <2>2, <2>3
  <1>2. CASE RestartFails
    <2>1. MarkedNext' /\ KitIsVerified'
      BY <1>2, KitUntouched DEF RestartFails, diskVars, processVars, jobVars, KitInv
    <2> QED
      BY <1>1, <1>2, <2>1
      DEF RestartFails, diskVars, processVars, jobVars, KitInv, KitTyped, PanelTyped
  <1> QED
    BY <1>1, <1>2, NewProcessKeeps DEF RestartKit, CrashOrUpdate

LEMMA KitStep == KitInv /\ [KitNext]_kitVars => KitInv'
  <1> SUFFICES ASSUME KitInv, [KitNext]_kitVars PROVE KitInv'
    OBVIOUS
  <1>1. CASE UNCHANGED kitVars
    BY <1>1 DEF kitVars, diskVars, processVars, jobVars, kitPanelVars, KitInv, KitTyped, PanelTyped,
                MarkedNext, KitIsVerified, KitPresent
  <1> QED
    BY <1>1, KitPanelKeeps, KitRequestsKeep, KitThreadKeeps, KitEndsKeep DEF KitNext

LEMMA KitHolds == KitSpec => []KitInv
  <1> QED
    BY KitInitInv, KitStep, PTL DEF KitSpec

LEMMA KitStatusTyped ==
  KitStatus \in {"not_downloaded", "downloading", "ready", "enabled", "enable_failed",
                "invalidated"}
  BY DEF KitStatus

LEMMA KitTypeOKHolds == KitSpec => []KitTypeOK
  <1>1. KitInv => KitTypeOK
    BY KitStatusTyped, FollowingSteps
    DEF KitInv, KitTyped, PanelTyped, KitTypeOK, LoadSteps, KitCalls, KitJobs, Leavings
  <1> QED
    BY <1>1, KitHolds, PTL

(* A manifest never vouches for files of another release than its own         *)
(* (_install_kit), whatever deletions, failures, restarts and updates come in *)
(* between, and whatever torch each release has.                              *)
THEOREM KitIsVerifiedHolds == KitSpec => []KitIsVerified
  <1> QED
    BY KitHolds, PTL DEF KitInv

(******************************************************************************)
(* The media folders.  The panel never sends what it was filled with: a key   *)
(* that nobody touched still has the value of the answer on show.             *)
(******************************************************************************)
AllValues == Folders \cup {"reference", "copy", "yes", "no"} \cup Own \cup {Absent}
Patches == {p \in [Keys -> AllValues] : \A key \in Keys : p[key] \in Offers(key) \cup {Absent}}
Drafts == {p \in [Keys -> AllValues] : \A key \in Keys : p[key] \in Offers(key) \cup Own \cup {Absent}}

FoldersTyped ==
  /\ file \in Patches /\ readable \in BOOLEAN /\ place \in [Folders -> Places]
  /\ seen.values \in Drafts /\ folderDraft \in Drafts /\ touched \subseteq Keys
  /\ folderRead.step \in {"none", "asked", "answered"} /\ folderRead.saw.values \in Drafts
  /\ folderSave \in [step : {"none", "asked", "answered", "refused"}, payload : Patches,
                     touched : SUBSET Keys]
  /\ folderEdits \in 0..MaxFolderEdits /\ folderSaves \in 0..MaxFolderSaves
  /\ faults \in 0..MaxFolderFaults

DraftFollows ==
  seen # NoAnswer =>
    \A key \in Keys : \/ folderDraft[key] = seen.values[key]
                      \/ key \in touched /\ folderDraft[key] \in Offers(key)

SendsTouched ==
  \A key \in Keys \ folderSave.touched : folderSave.payload[key] = Absent

FoldersInv == FoldersTyped /\ DraftFollows /\ SendsTouched

LEMMA OffersKnown ==
  /\ \A key \in DirKeys : Offers(key) = Folders
  /\ Offers("ingest_mode") = {"reference", "copy"} /\ Offers("delete_derived") = {"yes", "no"}
  /\ \A key \in Keys : Offers(key) \subseteq AllValues
  BY DEF Offers, Keys, DirKeys, AllValues

LEMMA NoKeysTyped == NoKeys \in Patches /\ NoKeys \in Drafts
  BY DEF NoKeys, Patches, Drafts, AllValues

LEMMA FoldersInitInv == FoldersInit => FoldersInv
  <1> SUFFICES ASSUME FoldersInit PROVE FoldersInv
    OBVIOUS
  <1>1. folderDraft \in Drafts
    BY OffersKnown DEF FoldersInit, Drafts, NoKeys, Keys, DirKeys, AllValues
  <1>2. FoldersTyped
    BY <1>1, NoKeysTyped, FoldersAssumption
    DEF FoldersInit, FoldersTyped, NoAnswer, NoFolderSave, Places
  <1> QED
    BY <1>2 DEF FoldersInit, FoldersInv, DraftFollows, SendsTouched, NoFolderSave, NoKeys

LEMMA ResolvedTyped == ASSUME file \in Patches PROVE InspectMediaStorage.values \in Drafts
  <1>1. \A key \in Keys : Resolve(key) \in Offers(key) \cup Own \cup {Absent}
    BY OffersKnown, NoKeysTyped DEF Resolve, StoredKeys, Patches, Own, Keys, DirKeys
  <1> QED
    BY <1>1, OffersKnown DEF InspectMediaStorage, Drafts, AllValues, Own

(* An accepted update of a file that can be read stores the keys it was sent  *)
(* and no other.                                                              *)
LEMMA UpdateStores ==
  ASSUME FoldersTyped, NEW payload \in Patches, NEW outcome, UpdateMediaStorage(payload, outcome)
  PROVE  /\ file' \in Patches /\ readable' \in BOOLEAN /\ place' \in [Folders -> Places]
         /\ outcome # "refused" /\ readable =>
              \A key \in Keys : payload[key] = Absent => file'[key] = file[key]
  <1>1. CASE outcome = "refused"
    <2>1. PICK r \in Refusals(payload) :
            file' = r.file /\ readable' = r.readable /\ place' = r.place
      BY <1>1 DEF UpdateMediaStorage
    <2>2. r.file = file /\ r.readable = readable /\ r.place \in [Folders -> Places]
      BY DEF Refusals, FoldersTyped, Places
    <2> QED
      BY <1>1, <2>1, <2>2 DEF FoldersTyped
  <1>2. CASE outcome # "refused"
    <2>1. /\ file' = AcceptedFolders(payload).file
          /\ readable' = AcceptedFolders(payload).readable
          /\ place' = AcceptedFolders(payload).place
      BY <1>2 DEF UpdateMediaStorage
    <2>2. StoredKeys \in Patches /\ (readable => StoredKeys = file)
      BY NoKeysTyped DEF StoredKeys, FoldersTyped
    <2>3. /\ file' \in Patches /\ readable' \in BOOLEAN
          /\ readable => \A key \in Keys : payload[key] = Absent => file'[key] = file[key]
      BY <2>1, <2>2 DEF AcceptedFolders, Patches
    <2>4. place' \in [Folders -> Places]
      BY <2>1 DEF AcceptedFolders, FoldersTyped, Places
    <2> QED
      BY <2>3, <2>4
  <1> QED
    BY <1>1, <1>2

LEMMA DraftKeeps ==
  ASSUME FoldersInv, NEW key \in Keys, NEW value \in Offers(key), Draft(key, value)
  PROVE  FoldersInv'
  <1>1. folderDraft' \in Drafts
    BY OffersKnown DEF FoldersInv, FoldersTyped, Draft, Drafts
  <1>2. FoldersTyped'
    BY <1>1, FoldersAssumption DEF FoldersInv, FoldersTyped, Draft, folderFileVars
  <1>3. DraftFollows'
    BY DEF FoldersInv, FoldersTyped, DraftFollows, Draft, Drafts
  <1>4. SendsTouched'
    BY DEF FoldersInv, SendsTouched, Draft
  <1> QED
    BY <1>2, <1>3, <1>4 DEF FoldersInv

LEMMA PanelOfFoldersKeeps ==
  ASSUME FoldersInv,
         PickDirectory \/ ChooseMode \/ ToggleDelete \/ FoldersSaved \/ ReadFolders
           \/ FoldersSeen \/ FoldersArrive
  PROVE  FoldersInv'
  <1>1. CASE PickDirectory \/ ChooseMode \/ ToggleDelete
    <2>1. \E key \in Keys : \E value \in Offers(key) : Draft(key, value)
      BY <1>1, OffersKnown DEF PickDirectory, ChooseMode, ToggleDelete, Keys
    <2> QED
      BY <2>1, DraftKeeps
  <1>2. CASE FoldersSaved \/ ReadFolders \/ FoldersSeen
    <2>1. UNCHANGED <<folderFileVars, panelOfFolders, folderCounts>>
            /\ (folderSave' = folderSave \/ folderSave' = NoFolderSave)
      BY <1>2 DEF FoldersSaved, ReadFolders, FoldersSeen
    <2>2. folderRead'.step \in {"none", "asked", "answered"} /\ folderRead'.saw.values \in Drafts
      BY <1>2, NoKeysTyped, ResolvedTyped
      DEF FoldersSaved, ReadFolders, FoldersSeen, FoldersInv, FoldersTyped, NoAnswer
    <2>3. FoldersTyped'
      BY <2>1, <2>2, NoKeysTyped
      DEF FoldersInv, FoldersTyped, folderFileVars, panelOfFolders, folderCounts, NoFolderSave
    <2>4. DraftFollows' /\ SendsTouched'
      BY <2>1 DEF FoldersInv, DraftFollows, SendsTouched, panelOfFolders, NoFolderSave, NoKeys
    <2> QED
      BY <2>3, <2>4 DEF FoldersInv
  <1>3. CASE FoldersArrive
    <2>1. /\ UNCHANGED <<folderFileVars, folderSave, folderCounts>> /\ seen' = folderRead.saw
          /\ folderRead' = [step |-> "none", saw |-> NoAnswer]
          /\ \/ UNCHANGED <<seen, folderDraft, touched>>
             \/ folderDraft' = seen'.values /\ touched' = {}
      BY <1>3 DEF FoldersArrive
    <2>2. FoldersTyped'
      BY <2>1, NoKeysTyped
      DEF FoldersInv, FoldersTyped, folderFileVars, folderCounts, NoAnswer
    <2>3. DraftFollows' /\ SendsTouched'
      BY <2>1 DEF FoldersInv, DraftFollows, SendsTouched
    <2> QED
      BY <2>2, <2>3 DEF FoldersInv
  <1> QED
    BY <1>1, <1>2, <1>3

(* What is sent differs from the answer on show, so somebody touched it.      *)
LEMMA SaveSends == FoldersInv /\ SaveFolders => FoldersInv'
  <1> SUFFICES ASSUME FoldersInv, SaveFolders PROVE FoldersInv'
    OBVIOUS
  <1>1. FolderPayload \in Patches /\ \A key \in Keys \ touched : FolderPayload[key] = Absent
    BY DEF SaveFolders, FoldersInv, FoldersTyped, DraftFollows, FolderPayload, Patches, Drafts,
           AllValues
  <1>2. folderSave' = [step |-> "asked", payload |-> FolderPayload, touched |-> touched]
    BY DEF SaveFolders
  <1>3. FoldersTyped'
    BY <1>1, <1>2, FoldersAssumption
    DEF SaveFolders, FoldersInv, FoldersTyped, folderFileVars, panelOfFolders
  <1>4. DraftFollows' /\ SendsTouched'
    BY <1>1, <1>2 DEF SaveFolders, FoldersInv, DraftFollows, SendsTouched, panelOfFolders
  <1> QED
    BY <1>3, <1>4 DEF FoldersInv

LEMMA HandledKeeps == FoldersInv /\ SaveHandled => FoldersInv'
  <1> SUFFICES ASSUME FoldersInv, SaveHandled PROVE FoldersInv'
    OBVIOUS
  <1>1. PICK outcome \in {"answered", "refused"} :
          /\ UpdateMediaStorage(folderSave.payload, outcome)
          /\ folderSave' = [folderSave EXCEPT !.step = outcome]
    BY DEF SaveHandled
  <1>2. file' \in Patches /\ readable' \in BOOLEAN /\ place' \in [Folders -> Places]
    BY <1>1, UpdateStores DEF FoldersInv, FoldersTyped
  <1>3. folderSave'.payload = folderSave.payload /\ folderSave'.touched = folderSave.touched
    BY <1>1 DEF FoldersInv, FoldersTyped
  <1>4. FoldersTyped'
    BY <1>1, <1>2 DEF SaveHandled, FoldersInv, FoldersTyped, panelOfFolders, folderCounts
  <1>5. DraftFollows' /\ SendsTouched'
    BY <1>3 DEF SaveHandled, FoldersInv, DraftFollows, SendsTouched, panelOfFolders
  <1> QED
    BY <1>4, <1>5 DEF FoldersInv

LEMMA OthersKeep == FoldersInv /\ (OtherSaves \/ DiskChanges) => FoldersInv'
  <1> SUFFICES ASSUME FoldersInv, OtherSaves \/ DiskChanges PROVE FoldersInv'
    OBVIOUS
  <1>1. file' \in Patches /\ readable' \in BOOLEAN /\ place' \in [Folders -> Places]
    <2>1. CASE OtherSaves
      <3>1. PICK key \in Keys : \E v \in Offers(key) :
              UpdateMediaStorage([NoKeys EXCEPT ![key] = v], "answered")
        BY <2>1 DEF OtherSaves
      <3>2. PICK value \in Offers(key) :
              UpdateMediaStorage([NoKeys EXCEPT ![key] = value], "answered")
        BY <3>1
      <3>3. [NoKeys EXCEPT ![key] = value] \in Patches
        BY OffersKnown DEF NoKeys, Patches, AllValues
      <3> QED
        BY <3>2, <3>3, UpdateStores DEF FoldersInv
    <2>2. CASE DiskChanges
      BY <2>2, NoKeysTyped DEF DiskChanges, FoldersInv, FoldersTyped
    <2> QED
      BY <2>1, <2>2
  <1>2. UNCHANGED <<seen, folderDraft, touched, folderRead, folderSave, folderEdits>>
    BY DEF OtherSaves, DiskChanges, panelOfFolders
  <1>3. folderSaves' \in 0..MaxFolderSaves /\ faults' \in 0..MaxFolderFaults
    BY FoldersAssumption DEF OtherSaves, DiskChanges, FoldersInv, FoldersTyped
  <1> QED
    BY <1>1, <1>2, <1>3 DEF FoldersInv, FoldersTyped, DraftFollows, SendsTouched

LEMMA FoldersStep == FoldersInv /\ [FoldersNext]_folderVars => FoldersInv'
  <1> SUFFICES ASSUME FoldersInv, [FoldersNext]_folderVars PROVE FoldersInv'
    OBVIOUS
  <1>1. CASE UNCHANGED folderVars
    BY <1>1 DEF folderVars, folderFileVars, panelOfFolders, folderCounts, FoldersInv, FoldersTyped,
                DraftFollows, SendsTouched
  <1> QED
    BY <1>1, PanelOfFoldersKeeps, SaveSends, HandledKeeps, OthersKeep DEF FoldersNext

LEMMA FoldersHolds == FoldersSpec => []FoldersInv
  <1> QED
    BY FoldersInitInv, FoldersStep, PTL DEF FoldersSpec

LEMMA FoldersTypeOKHolds == FoldersSpec => []FoldersTypeOK
  <1>1. FoldersInv => FoldersTypeOK
    BY DEF FoldersInv, FoldersTyped, FoldersTypeOK, Patches, Drafts
  <1> QED
    BY <1>1, FoldersHolds, PTL

(* A save of the panel (update_media_storage_config) leaves alone every key   *)
(* its user did not set, whatever another window or the disk changed since    *)
(* the panel was filled, as long as the file can be read.                     *)
THEOREM SavesOnlyTouchedHolds == FoldersSpec => SavesOnlyTouched
  <1> DEFINE Spares == readable /\ folderSave.step = "asked" /\ folderSave'.step = "answered" =>
                         \A key \in Keys \ folderSave.touched : file'[key] = file[key]
  <1>1. FoldersInv /\ [FoldersNext]_folderVars => [Spares]_folderVars
    <2> SUFFICES ASSUME FoldersInv, FoldersNext, readable, folderSave.step = "asked",
                        folderSave'.step = "answered", NEW key \in Keys \ folderSave.touched
                 PROVE  file'[key] = file[key]
      OBVIOUS
    <2>1. SaveHandled
      BY DEF FoldersNext, PickDirectory, ChooseMode, ToggleDelete, Draft, SaveFolders, FoldersSaved,
             ReadFolders, FoldersSeen, FoldersArrive, OtherSaves, DiskChanges, NoFolderSave,
             panelOfFolders
    <2>2. PICK outcome \in {"answered", "refused"} :
            /\ UpdateMediaStorage(folderSave.payload, outcome)
            /\ folderSave' = [folderSave EXCEPT !.step = outcome]
      BY <2>1 DEF SaveHandled
    <2>3. outcome = "answered" /\ folderSave.payload \in Patches
      BY <2>2 DEF FoldersInv, FoldersTyped
    <2>4. folderSave.payload[key] = Absent
      BY DEF FoldersInv, SendsTouched
    <2> QED
      BY <2>2, <2>3, <2>4, UpdateStores DEF FoldersInv
  <1> QED
    BY <1>1, FoldersHolds, PTL DEF FoldersSpec, SavesOnlyTouched

(******************************************************************************)
(* The services together.  They share nothing, so that each of them behaves   *)
(* in ServicesSpec as it does alone, and what is proved of it holds there.    *)
(******************************************************************************)
LEMMA ServicesAreThemselves == ServicesSpec => Spec /\ StorageSpec /\ KitSpec /\ FoldersSpec
  <1>1. ServicesInit => Init /\ StorageInit /\ KitInit /\ FoldersInit
    BY DEF ServicesInit
  <1>2. [ServicesNext]_servicesVars =>
          [Next]_vars /\ [StorageNext]_storageVars /\ [KitNext]_kitVars /\ [FoldersNext]_folderVars
    BY DEF ServicesNext, TranslationService, StorageService, KitService, FolderService, servicesVars
  <1> QED
    BY <1>1, <1>2, PTL DEF ServicesSpec, Spec, StorageSpec, KitSpec, FoldersSpec

(* Every variable of every one of these services has its type.                *)
THEOREM ServicesTypeOKHolds == ServicesSpec => []ServicesTypeOK
  <1>1. TypeOK /\ StorageTypeOK /\ KitTypeOK /\ FoldersTypeOK => ServicesTypeOK
    BY DEF ServicesTypeOK
  <1> QED
    BY <1>1, ServicesAreThemselves, TranslationTypeOK, StorageTypeOKHolds, KitTypeOKHolds,
       FoldersTypeOKHolds, PTL
==============================================================================
