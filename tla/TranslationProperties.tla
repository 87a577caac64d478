---- MODULE TranslationProperties ----
(***************************************************************************)
(* What translation runs promise.                                          *)
(***************************************************************************)
EXTENDS Translation

Stored(r) == {b \in Batches : stored[r][b] # NoConfig}

(* The protocol of queue, thread and attempts implements the contract,     *)
(* whatever it hides: a late answer, an old queue entry or an exiting      *)
(* thread never moves a run, stores a batch twice, publishes a result that *)
(* is not whole or publishes it again.                                     *)
Contract == INSTANCE TranslationContract WITH done <- [r \in Runs |-> Stored(r)]
ContractHolds == Contract!Spec

(* Each task has at most one active run, so that the unique index on the   *)
(* active runs of a task never turns a request into a database error.      *)
OneActiveRun ==
  \A r, s \in Runs : Active(r) /\ Active(s) /\ TaskOf[r] = TaskOf[s] => r = s

Waits(r, a) ==
  \/ \E c \in calls : c.run = r /\ c.attempt = a /\ c.step = "put"
  \/ \E i \in DOMAIN work : work[i] = <<r, a>>
  \/ job.pc = "begin" /\ job.run = r /\ job.attempt = a

(* An active run is in somebody's hands at its present attempt: a queued   *)
(* one has an entry in the queue, or is about to; a running one is what    *)
(* the worker works on.  Otherwise it would block its task for good.       *)
ActiveRunIsServed ==
  \A r \in Runs :
    /\ status[r] = "queued" => Waits(r, attempt[r])
    /\ status[r] = "running" => job.run = r /\ job.attempt = attempt[r] /\ job.pc # "begin"

(* Entries in the queue do not wait for nobody: there is a worker, or      *)
(* somebody who will make sure of one.                                     *)
QueueHasWorker ==
  work # <<>> => alive \/ leavers > 0 \/ \E c \in calls : c.step = "ensure"

(* A run is never stitched together from different endpoints or models,    *)
(* although the provider may be reconfigured between its attempts.         *)
OneConfiguration ==
  \A r \in Runs : \A b \in Stored(r) : stored[r][b] = config[r]

(* What is stored is not paid for again: no batch with a translation is    *)
(* asked for, except to repair the assembled result.                       *)
NotAskedAgain ==
  job.pc \in {"ask", "wait", "store"} /\ ~job.repairs
     /\ Current(job.run, job.attempt)
  => job.batch \notin Stored(job.run)

(* Nobody overwrites a revision unseen. *)
EditsSawLatest == \A r \in Runs : \A i \in DOMAIN versions[r] : versions[r][i] = i - 1

(* Every active run ends, and what is in the queue is taken, although the  *)
(* worker thread may exit and be replaced.                                 *)
RunsSettle ==
  /\ \A r \in Runs : Active(r) ~> ~Active(r)
  /\ work # <<>> ~> work = <<>>
====
