----------------------------- MODULE ModelDesk -----------------------------
(* Managed model downloads: the models page (ModelsPage.tsx and               *)
(* ModelManagement.tsx) and the service (models.py), whose one worker thread  *)
(* takes the queued downloads in turn.  A page shows what its last polls      *)
(* returned, so a request may find a download that has moved on.              *)
EXTENDS Naturals, Sequences

CONSTANTS Models,        \* names of the catalog
          Sources,       \* number of hubs a model can be fetched from
          MaxAsks,       \* bound: requests of the page
          MaxFaults      \* bound: failed fetches and lost storage

ASSUME ModelAssumption == Sources \in Nat \ {0} /\ MaxAsks \in Nat /\ MaxFaults \in Nat

VARIABLES queue,         \* _download_queue
          active,        \* _active_downloads
          cancelled,     \* _cancelled_downloads
          paused,        \* _paused_downloads
          failed,        \* _download_errors
          installed,     \* models with a marker and whole weights on disk
          fetcher,       \* the download worker
          foundGone,       \* requests that found nothing on disk, before the lock
          joining,       \* requests that listed a download and are about to queue it
          emptied,       \* deletions that removed the files, before the lock
          dropped,       \* a deletion forgot a download that was still to run
          rows,          \* ModelListRow: what the models query said
          progress,      \* progressByModel: what the downloads query said
          writable,      \* the model storage can be written
          asks, faults   \* counters for the bounds

downloadVars == <<queue, active, cancelled, paused, failed, installed, fetcher>>
modelVars == <<queue, active, cancelled, paused, failed, installed, fetcher, foundGone,
               joining, emptied, dropped, rows, progress, writable, asks, faults>>

IdleFetcher == [step |-> "idle", models |-> {}, source |-> 0]
At(step) == fetcher.step = step
Fetching == CHOOSE m \in fetcher.models : TRUE
Queued(m) == \E k \in DOMAIN queue : queue[k] = m
Pending(m) == Queued(m) \/ joining[m] > 0 \/ m \in fetcher.models

ModelInit ==
  /\ queue = <<>> /\ active = {} /\ cancelled = {} /\ paused = {} /\ failed = {}
  /\ installed = {} /\ fetcher = IdleFetcher /\ foundGone = {}
  /\ joining = [m \in Models |-> 0] /\ emptied = {} /\ dropped = {}
  /\ rows = [m \in Models |-> "missing"] /\ progress = [m \in Models |-> "none"]
  /\ writable = TRUE /\ asks = 0 /\ faults = 0

(***************************************************************************)
(* The worker: _run_download from one checkpoint to the next.              *)
(***************************************************************************)
Move(step) == fetcher' = [fetcher EXCEPT !.step = step]

(* The finally clause. *)
Forget(m) == /\ active' = active \ {m} /\ cancelled' = cancelled \ {m}
             /\ paused' = paused \ {m} /\ fetcher' = IdleFetcher
             /\ dropped' = IF m \in dropped /\ (Queued(m) \/ joining[m] > 0)
                           THEN dropped ELSE dropped \ {m}

(* Variant: a run that failed is not taken off the list.                      *)
EndRunListed(m, error) ==
  IF error THEN /\ fetcher' = IdleFetcher /\ failed' = failed \cup {m}
                /\ UNCHANGED <<active, cancelled, paused, dropped>>
  ELSE Forget(m) /\ UNCHANGED failed

EndRun(m, error) ==
  /\ Forget(m)
  /\ failed' = IF error THEN failed \cup {m} ELSE failed

TakeDownload ==
  /\ At("idle") /\ queue # <<>>
  /\ fetcher' = [step |-> "begin", models |-> {Head(queue)}, source |-> 0]
  /\ queue' = Tail(queue)
  /\ UNCHANGED <<active, cancelled, paused, failed, installed, foundGone, joining,
                 emptied, dropped, rows, progress, writable, asks, faults>>

StorageLost ==
  /\ At("begin") /\ ~writable
  /\ EndRun(Fetching, TRUE)
  /\ UNCHANGED <<queue, installed, foundGone, joining, emptied, rows, progress,
                 writable, asks, faults>>

(* _download_checkpoint: a stopped download ends, a paused one waits here.    *)
Stopped ==
  /\ fetcher.step \in {"begin", "between", "fetched", "gone"} /\ Fetching \in cancelled
  /\ EndRun(Fetching, FALSE)
  /\ UNCHANGED <<queue, installed, foundGone, joining, emptied, rows, progress,
                 writable, asks, faults>>

Passes(m) == m \notin cancelled /\ m \notin paused

Connect ==
  /\ \/ At("begin") /\ writable
     \/ At("between")
  /\ Passes(Fetching)
  /\ fetcher' = [fetcher EXCEPT !.step = "fetching", !.source = @ + 1]
  /\ UNCHANGED <<queue, active, cancelled, paused, failed, installed, foundGone,
                 joining, emptied, dropped, rows, progress, writable, asks, faults>>

(* A fetch fails: by itself, or because the checkpoint inside it noticed the  *)
(* stop, which the handler for failed hubs catches like any other error.  The *)
(* last hub that fails makes the run an error.                                *)
FetchFails ==
  /\ At("fetching")
  /\ \/ Fetching \in cancelled /\ UNCHANGED faults
     \/ faults < MaxFaults /\ faults' = faults + 1
  /\ IF fetcher.source < Sources
     THEN Move("between") /\ UNCHANGED <<active, cancelled, paused, failed, dropped>>
     ELSE EndRun(Fetching, TRUE)
  /\ UNCHANGED <<queue, installed, foundGone, joining, emptied, rows, progress,
                 writable, asks>>

FetchEnds ==
  /\ At("fetching")
  /\ Move("fetched")
  /\ UNCHANGED <<queue, active, cancelled, paused, failed, installed, foundGone,
                 joining, emptied, dropped, rows, progress, writable, asks, faults>>

(* The files are looked at and the stop is looked for one last time.          *)
FilesChecked ==
  /\ At("fetched") /\ Passes(Fetching)
  /\ Move("marking")
  /\ UNCHANGED <<queue, active, cancelled, paused, failed, installed, foundGone,
                 joining, emptied, dropped, rows, progress, writable, asks, faults>>

WriteMarker ==
  /\ At("marking")
  /\ installed' = installed \cup {Fetching} /\ EndRun(Fetching, FALSE)
  /\ UNCHANGED <<queue, foundGone, joining, emptied, rows, progress, writable, asks,
                 faults>>

(* No weights, or no directory for the marker: a deletion came in between.    *)
FilesGone ==
  /\ At("gone") /\ EndRun(Fetching, TRUE)
  /\ UNCHANGED <<queue, installed, foundGone, joining, emptied, rows, progress,
                 writable, asks, faults>>

Worker == \/ TakeDownload \/ StorageLost \/ Stopped \/ Connect \/ FetchFails
          \/ FetchEnds \/ FilesChecked \/ WriteMarker \/ FilesGone

(***************************************************************************)
(* The requests.  The page offers them by what it last heard.              *)
(***************************************************************************)
Ask == asks < MaxAsks /\ asks' = asks + 1
ShownActive(m) == rows[m] = "downloading" \/ progress[m] # "none"

(* The button of a row, of the recommended model, or Retry: download_model    *)
(* looks at the disk before it takes the lock.                                *)
AskDownload(m) ==
  /\ Ask /\ ~ShownActive(m) /\ rows[m] \in {"missing", "failed"}
  /\ writable /\ m \notin installed /\ m \notin foundGone
  /\ foundGone' = foundGone \cup {m}
  /\ UNCHANGED <<downloadVars, joining, emptied, dropped, rows, progress, writable,
                 faults>>

(* Variant: a download that is active is queued again.                        *)
QueueTwice(m) ==
  /\ m \in foundGone /\ foundGone' = foundGone \ {m}
  /\ active' = active \cup {m} /\ joining' = [joining EXCEPT ![m] = @ + 1]
  /\ cancelled' = cancelled \ {m} /\ paused' = paused \ {m} /\ failed' = failed \ {m}
  /\ UNCHANGED <<queue, installed, fetcher, emptied, dropped, rows, progress,
                 writable, asks, faults>>

QueueDownload(m) ==
  /\ m \in foundGone /\ foundGone' = foundGone \ {m}
  /\ IF m \in active
     THEN UNCHANGED <<joining, active, cancelled, paused, failed>>
     ELSE /\ active' = active \cup {m} /\ joining' = [joining EXCEPT ![m] = @ + 1]
          /\ cancelled' = cancelled \ {m} /\ paused' = paused \ {m}
          /\ failed' = failed \ {m}
  /\ UNCHANGED <<queue, installed, fetcher, emptied, dropped, rows, progress,
                 writable, asks, faults>>

(* The queue is fed behind the lock.                                          *)
PutDownload(m) ==
  /\ joining[m] > 0 /\ joining' = [joining EXCEPT ![m] = @ - 1]
  /\ queue' = Append(queue, m)
  /\ UNCHANGED <<active, cancelled, paused, failed, installed, fetcher, foundGone,
                 emptied, dropped, rows, progress, writable, asks, faults>>

PauseDownload(m) ==
  /\ Ask /\ ShownActive(m) /\ progress[m] # "paused"
  /\ m \in active \ cancelled /\ paused' = paused \cup {m}
  /\ UNCHANGED <<queue, active, cancelled, failed, installed, fetcher, foundGone,
                 joining, emptied, dropped, rows, progress, writable, faults>>

ResumeDownload(m) ==
  /\ Ask /\ progress[m] = "paused"
  /\ m \in active \cap paused /\ paused' = paused \ {m}
  /\ UNCHANGED <<queue, active, cancelled, failed, installed, fetcher, foundGone,
                 joining, emptied, dropped, rows, progress, writable, faults>>

StopDownload(m) ==
  /\ Ask /\ ShownActive(m)
  /\ m \in active
  /\ cancelled' = cancelled \cup {m} /\ paused' = paused \ {m}
  /\ UNCHANGED <<queue, active, failed, installed, fetcher, foundGone, joining,
                 emptied, dropped, rows, progress, writable, faults>>

(* delete_model: the files first, then what the service knows of a download,  *)
(* which may still be queued or run, and then fetches the files again.        *)
DeleteFiles(m) ==
  /\ Ask /\ writable /\ m \notin emptied
  /\ installed' = installed \ {m} /\ emptied' = emptied \cup {m}
  /\ fetcher' = IF m \in fetcher.models /\ fetcher.step \in {"fetched", "marking"}
                THEN [fetcher EXCEPT !.step = "gone"] ELSE fetcher
  /\ UNCHANGED <<queue, active, cancelled, paused, failed, foundGone, joining,
                 dropped, rows, progress, writable, faults>>

ForgetDownload(m) ==
  /\ m \in emptied /\ emptied' = emptied \ {m}
  /\ active' = active \ {m} /\ cancelled' = cancelled \ {m} /\ paused' = paused \ {m}
  /\ failed' = failed \ {m}
  /\ dropped' = IF Pending(m) THEN dropped \cup {m} ELSE dropped
  /\ UNCHANGED <<queue, installed, fetcher, foundGone, joining, rows, progress,
                 writable, asks, faults>>

(* The models query and the downloads query are polled apart. *)
Row(m) == IF m \in active THEN "downloading"
          ELSE IF m \in installed THEN "downloaded"
          ELSE IF m \in failed THEN "failed" ELSE "missing"
ModelsAnswered ==
  /\ rows' = [m \in Models |-> Row(m)] /\ rows' # rows
  /\ UNCHANGED <<downloadVars, foundGone, joining, emptied, dropped, progress,
                 writable, asks, faults>>

DownloadsAnswered ==
  /\ progress' = [m \in Models |-> IF m \notin active THEN "none"
                                   ELSE IF m \in paused THEN "paused" ELSE "running"]
  /\ progress' # progress
  /\ UNCHANGED <<downloadVars, foundGone, joining, emptied, dropped, rows, writable,
                 asks, faults>>

(* The directory goes away (a drive, a relocation) and comes back. *)
StorageChanges ==
  /\ \/ writable /\ faults < MaxFaults /\ faults' = faults + 1
     \/ ~writable /\ UNCHANGED faults
  /\ writable' = ~writable
  /\ UNCHANGED <<downloadVars, foundGone, joining, emptied, dropped, rows, progress,
                 asks>>

Requests(m) == QueueDownload(m) \/ PutDownload(m) \/ ForgetDownload(m)

ModelNext ==
  \/ TakeDownload \/ StorageLost \/ Stopped \/ Connect \/ FetchFails \/ FetchEnds
  \/ FilesChecked \/ WriteMarker \/ FilesGone
  \/ \E m \in Models : AskDownload(m)
  \/ \E m \in Models : QueueDownload(m)
  \/ \E m \in Models : PutDownload(m)
  \/ \E m \in Models : PauseDownload(m)
  \/ \E m \in Models : ResumeDownload(m)
  \/ \E m \in Models : StopDownload(m)
  \/ \E m \in Models : DeleteFiles(m)
  \/ \E m \in Models : ForgetDownload(m)
  \/ ModelsAnswered \/ DownloadsAnswered \/ StorageChanges

(* A fetch ends or fails, and a request the service took is finished.         *)
ModelFairness == WF_modelVars(Worker) /\ WF_modelVars(\E m \in Models : Requests(m))

ModelSpec == ModelInit /\ [][ModelNext]_modelVars /\ ModelFairness

ModelTypeOK ==
  /\ queue \in Seq(Models) /\ active \subseteq Models /\ cancelled \subseteq Models
  /\ paused \subseteq Models /\ failed \subseteq Models /\ installed \subseteq Models
  /\ fetcher.step \in
       {"idle", "begin", "between", "fetching", "fetched", "marking", "gone"}
  /\ \/ fetcher = IdleFetcher
     \/ fetcher.step # "idle" /\ \E m \in Models : fetcher.models = {m}
  /\ fetcher.source \in 0..Sources
  /\ foundGone \subseteq Models /\ joining \in [Models -> 0..MaxAsks]
  /\ emptied \subseteq Models /\ dropped \subseteq Models
  /\ rows \in [Models -> {"missing", "downloading", "downloaded", "failed"}]
  /\ progress \in [Models -> {"none", "running", "paused"}]
  /\ writable \in BOOLEAN /\ asks \in 0..MaxAsks /\ faults \in 0..MaxFaults

(* A download that is queued or under way is listed, and can be paused and    *)
(* stopped, unless a deletion made the service forget it: neither a second    *)
(* request nor the end of an earlier run of the same model takes it off.  And *)
(* what is paused or stopped is listed, so that none of the two sets keeps a  *)
(* name for the next run of the model to trip over.                           *)
DownloadIsListed ==
  /\ \A m \in Models : Pending(m) => m \in active \/ m \in dropped
  /\ cancelled \cup paused \subseteq active

(* A download comes to an end, also one that waits behind others, unless the  *)
(* worker waits for one that is paused.                                       *)
DownloadSettles ==
  \A m \in Models : m \in active ~> (m \notin active \/ fetcher.models \cap paused # {})
=============================================================================
