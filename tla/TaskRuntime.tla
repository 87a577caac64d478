---- MODULE TaskRuntime ----
(***************************************************************************)
(* The process-local registry of backend/services/task_runtime.py: which   *)
(* task ids wait in a work queue, which ones a worker (or a chunk retry)   *)
(* executes, and which ones somebody asked to cancel.  Every function of   *)
(* the file runs under its own lock, so each is one action here.  Nothing  *)
(* of it survives a restart of the process.                                *)
(***************************************************************************)
CONSTANT Tasks

VARIABLES queuedIds, runningIds, cancelledIds

runtimeVars == <<queuedIds, runningIds, cancelledIds>>

RuntimeTypeOK ==
  /\ queuedIds \subseteq Tasks
  /\ runningIds \subseteq Tasks
  /\ cancelledIds \subseteq Tasks

RuntimeInit ==
  /\ queuedIds = {}
  /\ runningIds = {}
  /\ cancelledIds = {}

(* A fresh process starts with the registry of RuntimeInit. *)
RuntimeReset ==
  /\ queuedIds' = {}
  /\ runningIds' = {}
  /\ cancelledIds' = {}

MarkQueued(t) ==
  /\ queuedIds' = queuedIds \union {t}
  /\ cancelledIds' = cancelledIds \ {t}
  /\ UNCHANGED runningIds

MarkRunning(t) ==
  /\ queuedIds' = queuedIds \ {t}
  /\ runningIds' = runningIds \union {t}
  /\ UNCHANGED cancelledIds

(* Variants of mark_finished that forget one of the sets. *)
MarkFinishedButQueued(t) ==
  /\ runningIds' = runningIds \ {t}
  /\ cancelledIds' = cancelledIds \ {t}
  /\ UNCHANGED queuedIds

MarkFinishedButRunning(t) ==
  /\ queuedIds' = queuedIds \ {t}
  /\ cancelledIds' = cancelledIds \ {t}
  /\ UNCHANGED runningIds

MarkFinished(t) ==
  /\ queuedIds' = queuedIds \ {t}
  /\ runningIds' = runningIds \ {t}
  /\ cancelledIds' = cancelledIds \ {t}

(* request_cancel: a queued id leaves the queued set at once although its   *)
(* entry stays in the work queue; an untracked id is left alone.            *)
RequestCancel(t) ==
  /\ queuedIds' = queuedIds \ {t}
  /\ cancelledIds' = IF t \in queuedIds \union runningIds
                     THEN cancelledIds \union {t}
                     ELSE cancelledIds
  /\ UNCHANGED runningIds

IsCancelled(t) == t \in cancelledIds

ActiveIds == queuedIds \union runningIds

====
