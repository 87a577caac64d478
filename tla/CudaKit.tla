------------------------------- MODULE CudaKit -------------------------------
(* The CUDA kit: the panel of the settings page                               *)
(* (CudaAccelerationSettings.tsx) and the service (cuda_kit.py), whose thread *)
(* downloads, verifies and installs the kit of the running release.  What is  *)
(* installed counts when the process starts.  The handlers take turns; the    *)
(* thread and a deletion, which has a thread of its own, run beside them.     *)
EXTENDS Naturals

CONSTANTS Releases,      \* number of releases of the software, each with its kit
          TorchOf,       \* release -> base version of the torch it and its kit have
          Untold,        \* releases whose own torch does not say its version
          MaxPresses,    \* bound: buttons of the panel
          MaxBreaks      \* bound: failed steps and processes that end

ASSUME KitAssumption ==
  /\ Releases \in Nat \ {0} /\ {MaxPresses, MaxBreaks} \subseteq Nat
  /\ TorchOf \in [1..Releases -> Nat \ {0}] /\ Untold \subseteq 1..Releases

VARIABLES kitRelease,    \* of the running software
          turnedOn,      \* config.json: enabled
          kit,           \* the installed directory: content and manifest, 0 for none
          loaded,        \* the kit this process started with, or 0
          probed,        \* the runtime probe: not yet, or whether it found a device
          gpu,           \* the answer of nvidia-smi, if it is there
          kitJob,        \* _job's status
          kitFile,       \* ... and what its file says, which the next process reads
          loader,        \* its thread: step, and what was removed under it
          stopped,       \* _cancel_event
          deletion,      \* delete_kit: how far it is
          seenKit,       \* the query's data
          kitCalls,      \* the mutations that wait for an answer
          toggle,        \* the toggle's value and the status before it
          again,         \* redownload: start once the deletion is answered
          restarting,    \* runRestart
          presses, breaks   \* counters for the bounds

diskVars == <<kitRelease, turnedOn, kit, deletion>>
jobVars == <<kitJob, kitFile, loader>>
processVars == <<loaded, probed, gpu, jobVars, stopped>>
kitPanelVars == <<seenKit, kitCalls, toggle, again, restarting, presses>>
kitVars == <<diskVars, processVars, kitPanelVars, breaks>>

NoKit == [content |-> 0, manifest |-> 0]
AtRest == [step |-> "none", lost |-> {}]
(* What a removal cut short by the end of the process leaves, if torch and    *)
(* the manifest are still there.                                              *)
Partial == Releases + 1
KitPresent == kit.manifest # 0 /\ kit.content # 0
JobRuns == kitJob = "running"

(* _current_torch_version asks the import system, where a loaded kit comes    *)
(* before what the release ships; 0 where nothing says a version.             *)
CurrentTorch ==
  IF loaded # 0 /\ kit.content # 0
  THEN TorchOf[IF kit.content = Partial THEN kit.manifest ELSE kit.content]
  ELSE IF kitRelease \in Untold THEN 0 ELSE TorchOf[kitRelease]
KitMismatch == CurrentTorch \notin {0, TorchOf[kit.manifest]}

(* acceleration_status: ready is said of a kit that is not turned on.         *)
KitStatus ==
  CASE JobRuns -> "downloading"
    [] ~JobRuns /\ ~KitPresent -> "not_downloaded"
    [] ~JobRuns /\ KitPresent /\ KitMismatch -> "invalidated"
    [] ~JobRuns /\ KitPresent /\ ~KitMismatch ->
         IF ~turnedOn THEN "ready"
         ELSE IF probed = "pending" \/ (loaded # 0 /\ probed = "device")
              THEN "enabled" ELSE "enable_failed"

KitAnswer == [status |-> KitStatus, on |-> turnedOn, job |-> kitJob, kit |-> KitPresent,
              gpu |-> gpu]

KitInit ==
  /\ kitRelease \in 1..Releases /\ turnedOn = FALSE /\ kit = NoKit /\ loaded = 0 /\ probed = "pending"
  /\ gpu = "unknown" /\ kitJob = "idle" /\ kitFile = "idle" /\ loader = AtRest /\ stopped = FALSE
  /\ deletion = "none" /\ seenKit = KitAnswer /\ kitCalls = {}
  /\ toggle = [next |-> FALSE, before |-> "ready"] /\ again = FALSE /\ restarting = FALSE
  /\ presses = 0 /\ breaks = 0

(***************************************************************************)
(* The panel.                                                              *)
(***************************************************************************)
Supported == seenKit.gpu # "no"
SeenRunning == seenKit.job = "running"

PressKit(call) ==
  /\ presses < MaxPresses /\ presses' = presses + 1
  /\ call \notin kitCalls /\ kitCalls' = kitCalls \cup {call}
  /\ UNCHANGED <<diskVars, processVars, seenKit, restarting, breaks>>

PressToggle ==
  /\ Supported /\ ~restarting /\ PressKit("toggle") /\ UNCHANGED again
  /\ toggle' = [next |-> ~seenKit.on, before |-> seenKit.status]

PressDownload ==
  /\ Supported /\ ~SeenRunning
  /\ \/ seenKit.status = "not_downloaded" /\ seenKit.job \in {"idle", "cancelled"}
     \/ seenKit.job = "failed"
  /\ PressKit("download") /\ UNCHANGED <<again, toggle>>

PressAgain ==
  /\ Supported /\ seenKit.status = "invalidated" /\ ~SeenRunning
  /\ "download" \notin kitCalls /\ PressKit("delete") /\ again' = TRUE /\ UNCHANGED toggle

PressRemove ==
  /\ Supported /\ seenKit.kit /\ ~SeenRunning
  /\ PressKit("delete") /\ UNCHANGED <<again, toggle>>

PressCancel == /\ Supported /\ SeenRunning
               /\ PressKit("cancel") /\ UNCHANGED <<again, toggle>>

PressRedetect ==
  /\ seenKit.gpu # "unknown"
  /\ PressKit("redetect") /\ UNCHANGED <<again, toggle>>

PollKit ==
  /\ seenKit # KitAnswer /\ seenKit' = KitAnswer
  /\ UNCHANGED <<diskVars, processVars, kitCalls, toggle, again, restarting, presses, breaks>>

(***************************************************************************)
(* The requests.                                                           *)
(***************************************************************************)
Answered(call) == call \in kitCalls /\ kitCalls' = kitCalls \ {call}
ForgetProbe == probed' = "pending" /\ gpu' = "unknown"

(* set_enabled, and what the page does with its answer.                       *)
SetEnabled ==
  /\ Answered("toggle")
  /\ turnedOn' = toggle.next /\ ForgetProbe
  /\ restarting' =
       (restarting \/ toggle.before \in
          IF toggle.next THEN {"ready", "enable_failed"} ELSE {"enabled", "enable_failed"})
  /\ UNCHANGED <<kitRelease, kit, deletion, loaded, jobVars, stopped, seenKit, toggle,
                 again, presses, breaks>>

Redetect ==
  /\ Answered("redetect") /\ ForgetProbe
  /\ UNCHANGED <<diskVars, loaded, jobVars, stopped, seenKit, toggle, again,
                 restarting, presses, breaks>>

(* A request may fail: its answer is an error, or config.json is not written. *)
CallFails ==
  /\ breaks < MaxBreaks /\ breaks' = breaks + 1
  /\ \E call \in kitCalls :
       /\ call = "delete" => deletion = "none"
       /\ kitCalls' = kitCalls \ {call}
       /\ again' = (again /\ call # "delete")
  /\ UNCHANGED <<diskVars, processVars, seenKit, toggle, restarting, presses>>

(* The job is running before its file says so and before it has a thread.     *)
StartKit ==
  /\ Answered("download")
  /\ IF JobRuns THEN UNCHANGED <<jobVars, stopped, breaks>>
     ELSE /\ kitJob' = "running" /\ stopped' = FALSE
          /\ \/ /\ kitFile' = "running" /\ loader' = [step |-> "manifest", lost |-> {}]
                /\ UNCHANGED breaks
             \/ breaks < MaxBreaks /\ breaks' = breaks + 1 /\ UNCHANGED <<kitFile, loader>>
  /\ UNCHANGED <<diskVars, loaded, probed, gpu, seenKit, toggle, again, restarting, presses>>

CancelKit ==
  /\ Answered("cancel")
  /\ stopped' = (stopped \/ JobRuns)
  /\ UNCHANGED <<diskVars, loaded, probed, gpu, jobVars, seenKit, toggle, again,
                 restarting, presses, breaks>>

(* delete_kit looks for a download before it removes anything.                *)
BeginDeletion ==
  /\ "delete" \in kitCalls /\ deletion = "none"
  /\ IF JobRuns THEN /\ kitCalls' = kitCalls \ {"delete"} /\ again' = FALSE
                     /\ UNCHANGED deletion
     ELSE deletion' = "kit" /\ UNCHANGED <<kitCalls, again>>
  /\ UNCHANGED <<kitRelease, turnedOn, kit, processVars, seenKit, toggle, restarting, presses,
                 breaks>>

(* What the downloads directory may hold at each step of a download, and what *)
(* the step reads of it.                                                      *)
Downloaded == CASE loader.step = "manifest" -> {"manifest"}
            [] loader.step = "parts" -> {"manifest", "parts"}
            [] loader.step = "zip" -> {"manifest", "parts", "zip"}
            [] loader.step \in {"extract", "files", "install"} ->
                 {"manifest", "parts", "zip", "tree"}
            [] loader.step \in {"mark", "clear"} -> {"manifest", "parts", "zip"}
            [] OTHER -> {}
Reads == [manifest |-> {}, parts |-> {}, zip |-> {"parts"}, extract |-> {"zip"},
          files |-> {"tree"}, install |-> {"tree"}, mark |-> {"manifest"}, clear |-> {}]
HasInput == loader.lost \cap Reads[loader.step] = {}

(* Files in use stay, and nobody says so.                                     *)
RemoveKitFiles ==
  /\ deletion = "kit" /\ deletion' = "downloads"
  /\ kit' \in {NoKit, [kit EXCEPT !.manifest = 0], kit}
  /\ UNCHANGED <<kitRelease, turnedOn, processVars, kitPanelVars, breaks>>

RemoveDownloads ==
  /\ deletion = "downloads" /\ deletion' = "none" /\ ForgetProbe
  /\ \E removed \in SUBSET Downloaded : loader' = [loader EXCEPT !.lost = @ \cup removed]
  /\ kitCalls' = (kitCalls \ {"delete"}) \cup IF again THEN {"download"} ELSE {}
  /\ again' = FALSE
  /\ UNCHANGED <<kitRelease, turnedOn, kit, loaded, kitJob, kitFile, stopped, seenKit,
                 toggle, restarting, presses, breaks>>

(* The threads of the two probes.                                             *)
ProbeEnds ==
  /\ \/ /\ probed = "pending" /\ turnedOn /\ KitPresent
        /\ probed' \in {"device", "nodevice"} /\ UNCHANGED gpu
     \/ gpu = "unknown" /\ gpu' \in {"yes", "no"} /\ UNCHANGED probed
  /\ UNCHANGED <<diskVars, loaded, jobVars, stopped, kitPanelVars, breaks>>

(***************************************************************************)
(* _run_download.                                                          *)
(***************************************************************************)
Following == [manifest |-> "parts", parts |-> "zip", zip |-> "extract",
              extract |-> "files", files |-> "install"]
Undisturbed == <<kitRelease, turnedOn, deletion, loaded, stopped, kitPanelVars>>
EndLoad(status) == kitJob' = status /\ loader' = AtRest

(* Each of them is verified against the manifest before the next begins.  A   *)
(* thread whose files were removed goes on until it needs them: a fetch makes *)
(* the directory again.                                                       *)
LoadStep ==
  /\ loader.step \in DOMAIN Following /\ ~stopped /\ HasInput
  /\ loader' = [loader EXCEPT !.step = Following[@]]
  /\ UNCHANGED <<kit, kitJob, kitFile, probed, gpu, breaks, Undisturbed>>

LoadCancelled ==
  /\ loader.step \in DOMAIN Following /\ stopped /\ EndLoad("cancelled")
  /\ \/ kitFile' = "cancelled" /\ UNCHANGED breaks
     \/ breaks < MaxBreaks /\ breaks' = breaks + 1 /\ UNCHANGED kitFile
  /\ UNCHANGED <<kit, probed, gpu, Undisturbed>>

(* An extracted kit that is not what its manifest says takes the old kit with *)
(* it, as far as the files are not in use.  What made the step fail may keep  *)
(* the file from being written, too.                                          *)
LoadFails ==
  /\ loader.step # "none"
  /\ \/ /\ \/ loader.lost \cap (Reads[loader.step] \cup Downloaded) # {}
           \/ loader.step = "mark" /\ kit.content = 0
        /\ UNCHANGED breaks
     \/ breaks < MaxBreaks /\ breaks' = breaks + 1
  /\ EndLoad("failed") /\ kitFile' \in {"failed", kitFile}
  /\ IF loader.step \in {"extract", "files"}
     THEN kit' \in {NoKit, [kit EXCEPT !.manifest = 0], kit} /\ ForgetProbe
     ELSE UNCHANGED <<kit, probed, gpu>>
  /\ UNCHANGED Undisturbed

(* Variant: the manifest is put beside the kit before the kit is replaced.    *)
MarkFirst ==
  /\ loader.step = "install" /\ HasInput
  /\ IF kit.manifest # kitRelease
     THEN kit' = [kit EXCEPT !.manifest = kitRelease] /\ UNCHANGED loader
     ELSE /\ kit' = [kit EXCEPT !.content = kitRelease]
          /\ loader' = [loader EXCEPT !.step = "mark"]
  /\ UNCHANGED <<kitJob, kitFile, probed, gpu, breaks, Undisturbed>>

(* _install_kit: the directory is exchanged, the manifest follows.            *)
ReplaceKit ==
  /\ loader.step = "install" /\ HasInput
  /\ kit' = [content |-> kitRelease, manifest |-> 0]
  /\ loader' = [loader EXCEPT !.step = "mark"]
  /\ UNCHANGED <<kitJob, kitFile, probed, gpu, breaks, Undisturbed>>

MarkKit ==
  /\ loader.step = "mark" /\ kit.content # 0 /\ HasInput
  /\ kit' = [kit EXCEPT !.manifest = kitRelease]
  /\ loader' = [loader EXCEPT !.step = "clear"]
  /\ UNCHANGED <<kitJob, kitFile, probed, gpu, breaks, Undisturbed>>

ClearDownloads ==
  /\ loader.step = "clear" /\ ForgetProbe
  /\ EndLoad("completed") /\ kitFile' = "completed"
  /\ UNCHANGED <<kit, breaks, Undisturbed>>

(***************************************************************************)
(* The process ends and starts again.  The shell hands it the kit it finds *)
(* (main.rs), with or without a manifest and of whatever release.          *)
(***************************************************************************)
Interrupted ==
  LET removing == deletion = "kit" \/ loader.step \in {"extract", "files"}
  IN {kit} \cup (IF loader.step = "install" THEN {NoKit} ELSE {})
           \cup (IF removing /\ kit.content # 0 THEN {[kit EXCEPT !.content = Partial]} ELSE {})

NewProcess ==
  /\ kit' \in Interrupted
  /\ kitFile' = IF kitFile = "running" THEN "failed" ELSE kitFile
  /\ kitJob' = kitFile'
  /\ loader' = AtRest /\ stopped' = FALSE /\ probed' = "pending" /\ gpu' = "unknown"
  /\ loaded' = IF turnedOn THEN kit'.content ELSE 0
  /\ deletion' = "none" /\ kitCalls' = {} /\ again' = FALSE
  /\ UNCHANGED <<turnedOn, seenKit, toggle, presses>>

RestartKit ==
  /\ restarting /\ restarting' = FALSE /\ NewProcess /\ UNCHANGED <<kitRelease, breaks>>

RestartFails ==
  /\ restarting /\ restarting' = FALSE /\ breaks < MaxBreaks /\ breaks' = breaks + 1
  /\ UNCHANGED <<diskVars, processVars, seenKit, kitCalls, toggle, again, presses>>

CrashOrUpdate ==
  /\ breaks < MaxBreaks /\ breaks' = breaks + 1 /\ NewProcess /\ UNCHANGED restarting
  /\ kitRelease' \in kitRelease..Releases

KitNext ==
  \/ PressToggle \/ PressDownload \/ PressAgain \/ PressRemove \/ PressCancel
  \/ PressRedetect \/ PollKit
  \/ SetEnabled \/ Redetect \/ CallFails \/ StartKit \/ CancelKit
  \/ BeginDeletion \/ RemoveKitFiles \/ RemoveDownloads \/ ProbeEnds
  \/ LoadStep \/ LoadCancelled \/ LoadFails \/ ReplaceKit \/ MarkKit
  \/ ClearDownloads
  \/ RestartKit \/ RestartFails \/ CrashOrUpdate

KitSpec == KitInit /\ [][KitNext]_kitVars

KitTypeOK ==
  /\ kitRelease \in 1..Releases /\ loaded \in 0..Partial
  /\ kit \in [content : 0..Partial, manifest : 0..Releases]
  /\ {turnedOn, stopped, again, restarting, toggle.next} \subseteq BOOLEAN
  /\ gpu \in {"unknown", "yes", "no"} /\ probed \in {"pending", "device", "nodevice"}
  /\ {kitJob, kitFile} \subseteq {"idle", "running", "completed", "failed", "cancelled"}
  /\ loader.step \in {"none", "install", "mark", "clear"} \cup DOMAIN Following
  /\ loader.lost \subseteq {"manifest", "parts", "zip", "tree"}
  /\ deletion \in {"none", "kit", "downloads"}
  /\ kitCalls \subseteq {"toggle", "download", "cancel", "delete", "redetect"}
  /\ KitStatus \in {"not_downloaded", "downloading", "ready", "enabled", "enable_failed",
                    "invalidated"}
  /\ presses \in 0..MaxPresses /\ breaks \in 0..MaxBreaks

(* The manifest that vouches for the installed kit is the one its files were  *)
(* verified against (_install_kit), whatever was installed before and         *)
(* whenever a deletion, a failure or the end of the process comes in between. *)
(* (Files may be missing where the process ended in the middle of a removal.) *)
(* It says nothing of the release: a kit of another one counts as ready or    *)
(* enabled while the torch versions are the same or one is not known.         *)
KitIsVerified == KitPresent => kit.content \in {kit.manifest, Partial}
=============================================================================
