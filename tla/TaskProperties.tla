---- MODULE TaskProperties ----
(***************************************************************************)
(* What the task lifecycle promises.                                       *)
(***************************************************************************)
EXTENDS TaskLifecycle

Writers(t) == {w \in Workers : Runs(w, t)} \union {h \in Handlers : Retries(h, t)}

(* Somebody will still do something about the task: a request that is      *)
(* under way, an entry that waits in a queue, or a worker.                 *)
Owned(t) ==
  \/ \E h \in Handlers : ServesNow(h, t)
  \/ Entries(t) # {}
  \/ \E w \in Workers : WorksOn(w, t)

(* No id is stranded in the registry.  A queued id has an entry in a work  *)
(* queue, an enqueueing about to put one, or a worker that has just taken  *)
(* it, and a running id has a writer; otherwise _require_not_active would  *)
(* refuse every later retry or delete of the task.                         *)
TrackedIsServed ==
  /\ \A t \in queuedIds :
       \/ Entries(t) # {}
       \/ \E h \in Handlers : Enqueues(h, t)
       \/ \E w \in Workers : worker[w].pc \in {"got", "skip", "claim"} /\ worker[w].task = t
  /\ \A t \in runningIds : Writers(t) # {}

(* Neither a row with an active status nor a cancel request waits for      *)
(* nobody.  The interface would show the task as queued or running until   *)
(* reconcile_orphan_tasks, a cancellation or a restart, and a flag that    *)
(* nobody clears would cancel a later run of the task unasked.  The only   *)
(* rows left to those three are the ones whose enqueueing failed behind    *)
(* its commit or whose best-effort failure record failed (lost).           *)
ActiveIsOwned ==
  \A t \in Tasks : /\ Active(t) => Owned(t) \/ t \in lost
                   /\ t \in cancelledIds => Owned(t)

(* "a task never executes twice concurrently and active work retains one   *)
(* writer": workers and chunk retries of one task exclude each other.      *)
SingleWriter == \A t \in Tasks : \A x, y \in Writers(t) : x = y

(* The writer of a task is in the registry, whatever the row says in       *)
(* between: this is what _require_not_active relies on once a cancel has   *)
(* made the status terminal under a running worker.                        *)
WriterIsTracked == \A t \in Tasks : Writers(t) # {} => t \in runningIds

(* A completed task has its transcript and a version of it, although the   *)
(* transcript may be stored in an earlier commit, a retranscription clears *)
(* it and a chunk retry merges it.                                         *)
CompletedHasTranscript ==
  \A t \in Tasks : status[t] = "completed" => transcript[t] /\ versioned[t]

(* A worker past the first check of run_task and before its last commit,   *)
(* or a chunk retry before its own, is changing the task's rows.           *)
Writing(t) ==
  \/ \E w \in Workers : Runs(w, t) /\ worker[w].pc \notin {"start", "finish"}
  \/ \E h \in Handlers : Retries(h, t) /\ handler[h].pc # "finish"

(* While somebody is writing a task no request on it but a cancellation    *)
(* commits: none requeues it, deletes it, removes its chunk rows or        *)
(* versions its transcript.  The check of a request and its commit are     *)
(* several steps of other threads apart.                                   *)
RequestsSpareWriters ==
  [][\A t \in Tasks, h \in Handlers :
       /\ Writing(t)
       /\ handler[h].pc = "commit" /\ handler[h].task = t
       /\ handler[h].kind # "cancel"
       => handler'[h] = handler[h] \/ restarts' # restarts]_vars

(* The worker is about to record, for a task it has completed, that its    *)
(* follow-up failed.                                                       *)
FollowUpFailed(t) ==
  \E w \in Workers : /\ worker[w].pc = "record" /\ worker[w].task = t
                     /\ worker[w].code = "followup"

(* A completed task stays completed until a request about that very task   *)
(* moves it: no other run, reconciliation or restart takes a result back,  *)
(* and of its own worker only the failure of the cleanup that follows.     *)
CompletedIsKept ==
  [][\A t \in Tasks : status[t] = "completed" /\ status'[t] # "completed" =>
       \/ \E h \in Handlers : ServesNow(h, t) /\ handler[h].kind # "create"
       \/ FollowUpFailed(t)]_vars

(* "a cancelled task is never committed as completed": once cancel_task    *)
(* has returned, the row says cancelled and the worker has been asked to   *)
(* stop, the run that is under way cannot complete the task any more.      *)
CancelHolds ==
  [][\A t \in Tasks :
       /\ status[t] = "cancelled" /\ t \in cancelledIds
       /\ \A h \in Handlers : ServesNow(h, t) => handler[h].kind # "cancel"
       => status'[t] # "completed"]_vars

(* "SHALL NOT persist a cancelled result": where tasks are only created    *)
(* and cancelled, a task that ended cancelled has no transcript.           *)
CancelledHasNoTranscript ==
  \A t \in Tasks : status[t] = "cancelled" /\ ~Owned(t) => ~transcript[t]

(* Every active task reaches a terminal status, unless its enqueueing or   *)
(* the record of its failure was lost.                                     *)
ActiveSettles == \A t \in Tasks : Active(t) ~> ~Active(t) \/ t \in lost

(* Nobody keeps task_transition_lock or the write lock for ever, although  *)
(* each may be wanted by a thread that holds the other.                    *)
LocksAreReleased == (lock # NoOne ~> lock = NoOne) /\ (writer # NoOne ~> writer = NoOne)
====
