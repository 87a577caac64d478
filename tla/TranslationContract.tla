---- MODULE TranslationContract ----
(***************************************************************************)
(* What the translation runs of a task promise their users, whatever the   *)
(* queue, the worker thread and the provider do: a run moves through the   *)
(* statuses of backend/services/translation.py, its batches are stored     *)
(* once, its result is published once and whole, and a revision is written *)
(* by somebody who has seen the one before it.                             *)
(***************************************************************************)
EXTENDS Naturals, Sequences

CONSTANTS Tasks, Runs, TaskOf, Batches

VARIABLES
  status,    \* TranslationRun.status
  attempt,   \* TranslationRun.attempt
  done,      \* the batches whose translations are stored
  versions   \* per revision of the result, the revision its author had seen

vars == <<status, attempt, done, versions>>

ActiveRun(r) == status[r] \in {"queued", "running"}
Resumable(r) == status[r] \in {"failed", "cancelled", "interrupted"}
Free(t) == \A r \in Runs : TaskOf[r] = t => ~ActiveRun(r)

Init ==
  /\ status = [r \in Runs |-> "absent"]
  /\ attempt = [r \in Runs |-> 0]
  /\ done = [r \in Runs |-> {}]
  /\ versions = [r \in Runs |-> <<>>]

Move(r, s) == status' = [status EXCEPT ![r] = s]

Create(r) ==
  /\ status[r] = "absent" /\ Free(TaskOf[r])
  /\ Move(r, "queued")
  /\ attempt' = [attempt EXCEPT ![r] = 1]
  /\ UNCHANGED <<done, versions>>

Resume(r) ==
  /\ Resumable(r) /\ Free(TaskOf[r])
  /\ Move(r, "queued")
  /\ attempt' = [attempt EXCEPT ![r] = @ + 1]
  /\ UNCHANGED <<done, versions>>

Cancel(r) ==
  /\ ActiveRun(r)
  /\ Move(r, "cancelled")
  /\ UNCHANGED <<attempt, done, versions>>

Start(r) ==
  /\ status[r] = "queued"
  /\ Move(r, "running")
  /\ UNCHANGED <<attempt, done, versions>>

Store(r) ==
  /\ status[r] = "running"
  /\ \E b \in Batches \ done[r] : done' = [done EXCEPT ![r] = @ \union {b}]
  /\ UNCHANGED <<status, attempt, versions>>

Publish(r) ==
  /\ status[r] = "running" /\ done[r] = Batches /\ versions[r] = <<>>
  /\ Move(r, "completed")
  /\ versions' = [versions EXCEPT ![r] = <<0>>]
  /\ UNCHANGED <<attempt, done>>

Fail(r) ==
  /\ status[r] = "running"
  /\ Move(r, "failed")
  /\ UNCHANGED <<attempt, done, versions>>

Edit(r) ==
  /\ status[r] = "completed"
  /\ versions' = [versions EXCEPT ![r] = Append(@, Len(@))]
  /\ UNCHANGED <<status, attempt, done>>

Interrupt ==
  /\ status' = [r \in Runs |-> IF ActiveRun(r) THEN "interrupted" ELSE status[r]]
  /\ UNCHANGED <<attempt, done, versions>>

Delete(t) ==
  LET gone(r) == TaskOf[r] = t /\ status[r] # "absent" IN
  /\ status' = [r \in Runs |-> IF gone(r) THEN "deleted" ELSE status[r]]
  /\ done' = [r \in Runs |-> IF gone(r) THEN {} ELSE done[r]]
  /\ versions' = [r \in Runs |-> IF gone(r) THEN <<>> ELSE versions[r]]
  /\ UNCHANGED attempt

Next ==
  \/ \E r \in Runs : \/ Create(r) \/ Resume(r) \/ Cancel(r) \/ Start(r)
                     \/ Store(r) \/ Publish(r) \/ Fail(r) \/ Edit(r)
  \/ Interrupt
  \/ \E t \in Tasks : Delete(t)

Spec == Init /\ [][Next]_vars
====
