-------------------------- MODULE TaskResults_proofs --------------------------
(***************************************************************************)
(* Of a task's writers and its result.  The first part shows that workers  *)
(* and chunk retries of one task exclude each other, the second what       *)
(* becomes of its result; both need that clients requeue only what nothing *)
(* untracked is left of (RetryAfterDrain).                                 *)
(***************************************************************************)
EXTENDS TaskLifecycle_proofs, SequenceTheorems

(***************************************************************************)
(* Workers and chunk retries of one task exclude each other, and the one   *)
(* that writes it is in the registry, provided clients requeue only what   *)
(* nothing untracked is left of (RetryAfterDrain).                         *)
(*                                                                         *)
(* The invariant: at most one place holds a task.  A place is a request    *)
(* that will queue or rerun it, an entry of a queue, or a worker.          *)
(* SingleWriter alone is not inductive, for an entry becomes a writer two  *)
(* steps later, and neither is one holder per task: a requeueing request   *)
(* finds the task free only because every writer is in runningIds and      *)
(* because other requeueings wait for task_transition_lock.                *)
(***************************************************************************)
(* The requests that hold task_transition_lock between their steps. *)
Locked(h) ==
  \/ handler[h].kind \in {"retry", "retranscribe"}
  \/ handler[h].pc \in {"claim", "claimed"}

RetryPCs == {"attempt", "chunk", "keep", "settle", "finish"}

Controlled ==
  \A h \in Handlers :
    /\ handler[h].pc \in PCsOf(handler[h].kind)
    /\ Locked(h) => lock = h
    /\ handler[h].kind = "chunks" => handler[h].prev # "absent"

Holds(h, t) ==
  /\ handler[h].kind \in {"create", "retry", "retranscribe", "chunks"}
  /\ ServesNow(h, t)

OneHolder ==
  /\ \A t \in Tasks : \A v, w \in Workers : WorksOn(v, t) /\ WorksOn(w, t) => v = w
  /\ \A t \in Tasks : \A g, h \in Handlers : Holds(g, t) /\ Holds(h, t) => g = h
  /\ \A t \in Tasks, w \in Workers, h \in Handlers : ~(WorksOn(w, t) /\ Holds(h, t))
  /\ \A t \in Tasks, q \in Queues : \A i \in DOMAIN queue[q] :
       queue[q][i] = t =>
         /\ \A w \in Workers : ~WorksOn(w, t)
         /\ \A h \in Handlers : ~Holds(h, t)
         /\ \A r \in Queues : \A j \in DOMAIN queue[r] : queue[r][j] = t => r = q /\ j = i

HolderTracked ==
  /\ \A t \in Tasks, w \in Workers : Runs(w, t) => t \in runningIds
  /\ \A t \in Tasks, h \in Handlers : Retries(h, t) => t \in runningIds

HeldExists ==
  \A t \in Tasks : status[t] = "absent" =>
     /\ Entries(t) = {}
     /\ \A w \in Workers : ~WorksOn(w, t)
     /\ \A h \in Handlers : ~Holds(h, t)

Exclusive == Controlled /\ OneHolder /\ HolderTracked /\ HeldExists

(***************************************************************************)
(* Steps that add no holder.                                               *)
(***************************************************************************)
WorkersCalm ==
  \A t \in Tasks, w \in Workers :
    (WorksOn(w, t)' => WorksOn(w, t)) /\ (Runs(w, t)' => Runs(w, t))
HandlersCalm ==
  \A t \in Tasks, h \in Handlers :
    (Holds(h, t)' => Holds(h, t)) /\ (Retries(h, t)' => Retries(h, t))
RowsCalm == \A t \in Tasks : status'[t] = "absent" => status[t] = "absent"
(* An id leaves the running set only with its last writer. *)
RegistryCalm ==
  \A t \in runningIds \ runningIds' :
    /\ \A w \in Workers : ~Runs(w, t)'
    /\ \A h \in Handlers : ~Retries(h, t)'

LEMMA CalmStep ==
  ASSUME Exclusive, WorkersCalm, HandlersCalm, RowsCalm, RegistryCalm, Controlled',
         UNCHANGED queue
  PROVE  Exclusive'
<1>1. OneHolder'
  BY DEF Exclusive, OneHolder, WorkersCalm, HandlersCalm
<1>2. HolderTracked'
  BY DEF Exclusive, HolderTracked, WorkersCalm, HandlersCalm, RegistryCalm
<1>3. HeldExists'
  BY DEF Exclusive, HeldExists, Entries, WorkersCalm, HandlersCalm, RowsCalm
<1> QED
  BY <1>1, <1>2, <1>3 DEF Exclusive

LEMMA WorkerCalmStep ==
  ASSUME Exclusive, WorkersCalm, RowsCalm, UNCHANGED <<queue, handler, lock, runningIds>>
  PROVE  Exclusive'
<1>1. HandlersCalm
  BY DEF HandlersCalm, Holds, Retries, ServesNow
<1>2. RegistryCalm
  BY DEF RegistryCalm
<1>3. Controlled'
  BY DEF Exclusive, Controlled, Locked
<1> QED
  BY <1>1, <1>2, <1>3, CalmStep

LEMMA HandlerCalmStep ==
  ASSUME Exclusive, HandlersCalm, RowsCalm, Controlled', UNCHANGED <<queue, worker, runningIds>>
  PROVE  Exclusive'
<1>1. WorkersCalm
  BY DEF WorkersCalm, WorksOn, Runs
<1>2. RegistryCalm
  BY DEF RegistryCalm
<1> QED
  BY <1>1, <1>2, CalmStep

LEMMA StepCalm ==
  ASSUME Typed, NEW w \in Workers, worker[w].pc # "idle",
         NEW pc \in WorkerPCs, Step(w, pc),
         pc \in TrackedPCs => worker[w].pc \in TrackedPCs
  PROVE  WorkersCalm
  BY DEF Typed, WorkersTyped, WorkerRecords, WorkersCalm, WorksOn, Runs, Step

LEMMA RaiseCalm ==
  ASSUME Typed, NEW w \in Workers, worker[w].pc \in TrackedPCs, NEW code, Raise(w, code)
  PROVE  WorkersCalm
  BY DEF Typed, WorkersTyped, WorkerRecords, WorkersCalm, WorksOn, Runs, Raise, TrackedPCs

LEMMA EnterCalm ==
  ASSUME Typed, NEW w \in Workers, worker[w].pc \in TrackedPCs, NEW s, Enter(w, s)
  PROVE  WorkersCalm
  BY DEF Typed, WorkersTyped, WorkerRecords, WorkersCalm, WorksOn, Runs, Enter, TrackedPCs

LEMMA WorklessCalm ==
  ASSUME Typed, NEW w \in Workers, worker' = [worker EXCEPT ![w] = Workless]
  PROVE  WorkersCalm /\ \A t \in Tasks : ~WorksOn(w, t)' /\ ~Runs(w, t)'
  BY DEF Typed, WorkersTyped, WorkersCalm, WorksOn, Runs, Workless, TrackedPCs

LEMMA DoneCalm ==
  ASSUME Typed, NEW h \in Handlers, Done(h)
  PROVE  HandlersCalm /\ \A t \in Tasks : ~Holds(h, t)' /\ ~Retries(h, t)'
  BY DEF Typed, HandlersTyped, HandlersCalm, Holds, Retries, ServesNow, Done, Idle

LEMMA GotoCalm ==
  ASSUME Typed, NEW h \in Handlers, handler[h].pc # "idle", NEW pc \in HandlerPCs, Goto(h, pc),
         pc \in RetryPCs => handler[h].pc \in RetryPCs
  PROVE  HandlersCalm
  BY DEF Typed, HandlersTyped, HandlerRecords, HandlersCalm, Holds, Retries, ServesNow, Goto, RetryPCs

LEMMA DoneControlled ==
  ASSUME Typed, Controlled, NEW h \in Handlers, Done(h), UNCHANGED lock \/ Release(h)
  PROVE  Controlled'
  BY ThreadsAssumption DEF Typed, HandlersTyped, Controlled, Done, Idle, PCsOf, Locked, Release

LEMMA GotoControlled ==
  ASSUME Typed, Controlled, NEW h \in Handlers, NEW pc \in PCsOf(handler[h].kind), Goto(h, pc),
         \/ UNCHANGED lock /\ ~Locked(h) /\ pc \notin {"claim", "claimed"}
         \/ UNCHANGED lock /\ Locked(h)
         \/ Release(h) /\ handler[h].kind \notin {"retry", "retranscribe"} /\ pc \notin {"claim", "claimed"}
  PROVE  Controlled'
<1>1. \A g \in Handlers : g # h => handler'[g] = handler[g]
  BY DEF Goto, Typed, HandlersTyped
<1>2. handler'[h].kind = handler[h].kind /\ handler'[h].pc = pc /\ handler'[h].prev = handler[h].prev
  BY DEF Goto, Typed, HandlersTyped, HandlerRecords
<1> QED
  BY <1>1, <1>2, ThreadsAssumption DEF Controlled, Locked, Release

(* None of the statuses an action writes is "absent". *)
LEMMA StatusesPresent ==
  /\ {"queued", "importing", "transcribing", "cancelled", "completed", "failed",
      "deleted", "failed_resumable", "interrupted"} \intersect {"absent"} = {}
  /\ "absent" \notin Stages
  /\ \A t : Active(t) => status[t] # "absent"
  /\ \A t : Exists(t) => status[t] # "absent"
  /\ \A t : Interrupted(t) # "absent"
  BY DEF Stages, Active, Exists, ActiveStatuses, NoRow, Interrupted

(***************************************************************************)
(* Workers.                                                                *)
(***************************************************************************)(* mark_finished by the holder of a task leaves nobody else writing it. *)
LEMMA FinishedByHolder ==
  ASSUME Exclusive, WorkersCalm, HandlersCalm, NEW w \in Workers, worker[w].pc # "idle",
         runningIds' = runningIds \ {worker[w].task}, runningIds \subseteq Tasks,
         \A t \in Tasks : ~Runs(w, t)'
  PROVE  RegistryCalm
  BY DEF Exclusive, OneHolder, WorkersCalm, HandlersCalm, RegistryCalm, WorksOn, Runs, Holds,
     Retries, ServesNow, TrackedPCs

LEMMA WorkerStepExclusive ==
  ASSUME Typed, Exclusive, NEW w \in Workers, WorkerStep(w) \/ EscapeRun(w) \/ FailCleanUp(w)
  PROVE  Exclusive'
<1>1. CASE ReadRow(w)
  <2>1. WorkersCalm
    BY <1>1, StepCalm DEF ReadRow, WorkerPCs, TrackedPCs
  <2>2. RowsCalm
    BY <1>1, StatusesPresent DEF ReadRow, RowsCalm, Typed, DatabaseTyped, db
  <2> QED
    BY <1>1, <2>1, <2>2, WorkerCalmStep DEF ReadRow, besideWorkers, runtimeVars
<1>2. CASE StartRun(w)
  <2>1. WorkersCalm
    BY <1>2, StepCalm, EnterCalm DEF StartRun, WorkerPCs, TrackedPCs
  <2>2. RowsCalm
    BY <1>2, StatusesPresent DEF StartRun, RowsCalm, Typed, DatabaseTyped, db
  <2> QED
    BY <1>2, <2>1, <2>2, WorkerCalmStep DEF StartRun, besideWorkers, runtimeVars
<1>3. CASE SetTaskState(w)
  <2>1. WorkersCalm
    BY <1>3, StepCalm, RaiseCalm DEF SetTaskState, WorkerPCs, TrackedPCs
  <2>2. worker[w].stage \in Stages
    BY DEF Typed, WorkersTyped, WorkerRecords
  <2>3. RowsCalm
    BY <1>3, <2>2, StatusesPresent DEF SetTaskState, RowsCalm, Typed, DatabaseTyped
  <2> QED
    BY <1>3, <2>1, <2>3, WorkerCalmStep DEF SetTaskState, besideWorkers, runtimeVars
<1>4. CASE WorkStage(w)
  <2>1. WorkersCalm
    BY <1>4, StepCalm, RaiseCalm, EnterCalm DEF WorkStage, WorkerPCs, TrackedPCs
  <2>2. RowsCalm
    BY <1>4, StatusesPresent DEF WorkStage, RowsCalm, Typed, DatabaseTyped, db
  <2> QED
    BY <1>4, <2>1, <2>2, WorkerCalmStep DEF WorkStage, besideWorkers, runtimeVars
<1>5. CASE SplitChunks(w)
  <2>1. WorkersCalm
    BY <1>5, StepCalm DEF SplitChunks, WorkerPCs, TrackedPCs
  <2>2. RowsCalm
    BY <1>5, StatusesPresent DEF SplitChunks, RowsCalm, Typed, DatabaseTyped, db
  <2> QED
    BY <1>5, <2>1, <2>2, WorkerCalmStep DEF SplitChunks, besideWorkers, runtimeVars
<1>6. CASE CompleteChunk(w)
  <2>1. WorkersCalm
    BY <1>6 DEF CompleteChunk, WorkersCalm, WorksOn, Runs
  <2>2. RowsCalm
    BY <1>6, StatusesPresent DEF CompleteChunk, RowsCalm, Typed, DatabaseTyped, db
  <2> QED
    BY <1>6, <2>1, <2>2, WorkerCalmStep DEF CompleteChunk, besideWorkers, runtimeVars
<1>7. CASE FailTranscription(w)
  <2>1. WorkersCalm
    BY <1>7, RaiseCalm DEF FailTranscription, WorkerPCs, TrackedPCs
  <2>2. RowsCalm
    BY <1>7, StatusesPresent DEF FailTranscription, RowsCalm, Typed, DatabaseTyped, db
  <2> QED
    BY <1>7, <2>1, <2>2, WorkerCalmStep DEF FailTranscription, besideWorkers, runtimeVars
<1>8. CASE EndTranscription(w)
  <2>1. WorkersCalm
    BY <1>8, StepCalm DEF EndTranscription, WorkerPCs, TrackedPCs
  <2>2. RowsCalm
    BY <1>8, StatusesPresent DEF EndTranscription, RowsCalm, Typed, DatabaseTyped, db
  <2> QED
    BY <1>8, <2>1, <2>2, WorkerCalmStep DEF EndTranscription, besideWorkers, runtimeVars
<1>9. CASE RefreshRow(w)
  <2>1. WorkersCalm
    BY <1>9, StepCalm, RaiseCalm, EnterCalm DEF RefreshRow, WorkerPCs, TrackedPCs
  <2>2. RowsCalm
    BY <1>9, StatusesPresent DEF RefreshRow, RowsCalm, Typed, DatabaseTyped, db
  <2> QED
    BY <1>9, <2>1, <2>2, WorkerCalmStep DEF RefreshRow, besideWorkers, runtimeVars
<1>10. CASE StoreSegments(w)
  <2>1. WorkersCalm
    BY <1>10, StepCalm, RaiseCalm DEF StoreSegments, WorkerPCs, TrackedPCs
  <2>2. RowsCalm
    BY <1>10, StatusesPresent DEF StoreSegments, RowsCalm, Typed, DatabaseTyped, db
  <2> QED
    BY <1>10, <2>1, <2>2, WorkerCalmStep DEF StoreSegments, besideWorkers, runtimeVars
<1>11. CASE FinalCheck(w)
  <2>1. WorkersCalm
    BY <1>11, StepCalm, RaiseCalm DEF FinalCheck, WorkerPCs, TrackedPCs
  <2>2. RowsCalm
    BY <1>11, StatusesPresent DEF FinalCheck, RowsCalm, Typed, DatabaseTyped, db
  <2> QED
    BY <1>11, <2>1, <2>2, WorkerCalmStep DEF FinalCheck, besideWorkers, runtimeVars
<1>12. CASE CommitCompletion(w)
  <2>1. WorkersCalm
    BY <1>12, StepCalm, RaiseCalm DEF CommitCompletion, WorkerPCs, TrackedPCs
  <2>2. RowsCalm
    BY <1>12, StatusesPresent DEF CommitCompletion, RowsCalm, Typed, DatabaseTyped, db
  <2> QED
    BY <1>12, <2>1, <2>2, WorkerCalmStep DEF CommitCompletion, besideWorkers, runtimeVars
<1>13. CASE CleanUp(w)
  <2>1. WorkersCalm
    BY <1>13, StepCalm DEF CleanUp, WorkerPCs, TrackedPCs
  <2>2. RowsCalm
    BY <1>13, StatusesPresent DEF CleanUp, RowsCalm, Typed, DatabaseTyped, db
  <2> QED
    BY <1>13, <2>1, <2>2, WorkerCalmStep DEF CleanUp, besideWorkers, runtimeVars
<1>14. CASE HandleError(w)
  <2>1. WorkersCalm
    BY <1>14, StepCalm DEF HandleError, WorkerPCs, TrackedPCs
  <2>2. RowsCalm
    BY <1>14, StatusesPresent DEF HandleError, RowsCalm, Typed, DatabaseTyped, db
  <2> QED
    BY <1>14, <2>1, <2>2, WorkerCalmStep DEF HandleError, besideWorkers, runtimeVars
<1>15. CASE RecordFailure(w)
  <2>1. WorkersCalm
    BY <1>15, StepCalm DEF RecordFailure, WorkerPCs, TrackedPCs
  <2>2. RowsCalm
    BY <1>15, StatusesPresent DEF RecordFailure, RowsCalm, Typed, DatabaseTyped, db
  <2> QED
    BY <1>15, <2>1, <2>2, WorkerCalmStep DEF RecordFailure, besideWorkers, runtimeVars
<1>16. CASE ReadEscaped(w)
  <2>1. WorkersCalm
    BY <1>16, StepCalm DEF ReadEscaped, WorkerPCs, TrackedPCs
  <2>2. RowsCalm
    BY <1>16, StatusesPresent DEF ReadEscaped, RowsCalm, Typed, DatabaseTyped, db
  <2> QED
    BY <1>16, <2>1, <2>2, WorkerCalmStep DEF ReadEscaped, besideWorkers, runtimeVars
<1>17. CASE BuryTask(w)
  <2>1. WorkersCalm
    BY <1>17, StepCalm DEF BuryTask, WorkerPCs, TrackedPCs
  <2>2. RowsCalm
    BY <1>17, StatusesPresent DEF BuryTask, RowsCalm, Typed, DatabaseTyped, db
  <2> QED
    BY <1>17, <2>1, <2>2, WorkerCalmStep DEF BuryTask, besideWorkers, runtimeVars
<1>18. CASE SkipTask(w) \/ FinishRun(w)
  <2>1. WorkersCalm /\ \A t \in Tasks : ~Runs(w, t)'
    BY <1>18, WorklessCalm DEF SkipTask, FinishRun
  <2>2. HandlersCalm /\ UNCHANGED <<queue, handler, lock, status>>
    BY <1>18 DEF SkipTask, FinishRun, HandlersCalm, Holds, Retries, ServesNow, db
  <2>3. worker[w].pc # "idle" /\ runningIds' = runningIds \ {worker[w].task}
    BY <1>18 DEF SkipTask, FinishRun, MarkFinished
  <2>4. RegistryCalm
    BY <2>1, <2>2, <2>3, FinishedByHolder DEF Typed, ProcessTyped, RuntimeTypeOK
  <2> QED
    BY <2>1, <2>2, <2>4, CalmStep DEF RowsCalm, Exclusive, Controlled, Locked
<1>19. CASE EscapeRun(w)
  <2>1. WorkersCalm /\ \A t \in Tasks : ~Runs(w, t)'
    BY <1>19 DEF EscapeRun, Step, Typed, WorkersTyped, WorkerRecords, WorkersCalm, WorksOn,
       Runs, TrackedPCs
  <2>2. HandlersCalm /\ UNCHANGED <<queue, handler, lock, status>>
    BY <1>19 DEF EscapeRun, HandlersCalm, Holds, Retries, ServesNow, db
  <2>3. worker[w].pc # "idle" /\ runningIds' = runningIds \ {worker[w].task}
    BY <1>19 DEF EscapeRun, MarkFinished
  <2>4. RegistryCalm
    BY <2>1, <2>2, <2>3, FinishedByHolder DEF Typed, ProcessTyped, RuntimeTypeOK
  <2> QED
    BY <2>1, <2>2, <2>4, CalmStep DEF RowsCalm, Exclusive, Controlled, Locked
<1>20. CASE ClaimTask(w)
  <2>1. /\ worker[w].pc = "claim" /\ runningIds' = runningIds \union {worker[w].task}
        /\ UNCHANGED <<queue, handler, lock, status>>
    BY <1>20 DEF ClaimTask, MarkRunning, db
  <2>2. \A v \in Workers : worker'[v].task = worker[v].task /\ (v # w => worker'[v] = worker[v])
    BY <1>20 DEF ClaimTask, Step, Typed, WorkersTyped, WorkerRecords
  <2>3. OneHolder' /\ HeldExists'
    BY <2>1, <2>2 DEF Exclusive, OneHolder, HeldExists, WorksOn, Holds, ServesNow, Entries
  <2>4. HolderTracked'
    BY <2>1, <2>2 DEF Exclusive, HolderTracked, Runs, Retries
  <2> QED
    BY <2>1, <2>3, <2>4 DEF Exclusive, Controlled, Locked
<1>21. CASE GetTask(w)
  <2> DEFINE q == Serves(w)
             t == Head(queue[q])
  <2>1. q \in Queues /\ queue \in [Queues -> Seq(Tasks)] /\ queue[q] # <<>>
    BY <1>21 DEF GetTask, Serves, Queues, Typed, ProcessTyped
  <2>2. /\ t \in Tasks
        /\ 1 \in DOMAIN queue[q] /\ queue[q][1] = t
        /\ queue'[q] = Tail(queue[q])
        /\ \A r \in Queues : r # q => queue'[r] = queue[r]
    BY <1>21, <2>1 DEF GetTask
  <2>3. \A i \in DOMAIN queue'[q] :
          i + 1 \in DOMAIN queue[q] /\ i + 1 # 1 /\ i \in Nat /\ queue'[q][i] = queue[q][i + 1]
    BY <2>1, <2>2
  <2>4. /\ worker'[w].task = t /\ worker'[w].pc = "got" /\ worker[w].pc = "idle"
        /\ \A v \in Workers : v # w => worker'[v] = worker[v]
        /\ UNCHANGED <<handler, lock, status, runningIds>>
    BY <1>21 DEF GetTask, Workless, Typed, WorkersTyped, db, runtimeVars
  <2>5. \A s \in Tasks, v \in Workers : WorksOn(v, s)' => WorksOn(v, s) \/ (v = w /\ s = t)
    BY <2>4 DEF WorksOn
  <2>6. \A s \in Tasks, h \in Handlers : Holds(h, s)' <=> Holds(h, s)
    BY <2>4 DEF Holds, ServesNow
  <2>7. (\A v \in Workers : ~WorksOn(v, t)) /\ (\A h \in Handlers : ~Holds(h, t))
    BY <2>1, <2>2 DEF Exclusive, OneHolder
  <2>8. \A r \in Queues : \A i \in DOMAIN queue'[r] : queue'[r][i] # t
    <3>1. \A i \in DOMAIN queue'[q] : queue'[q][i] # t
      BY <2>1, <2>2, <2>3 DEF Exclusive, OneHolder
    <3>2. \A r \in Queues : r # q => \A i \in DOMAIN queue[r] : queue[r][i] # t
      BY <2>1, <2>2 DEF Exclusive, OneHolder
    <3> QED
      BY <3>1, <3>2, <2>2
  <2>9. ASSUME NEW s \in Tasks, NEW r \in Queues, NEW i \in DOMAIN queue'[r], queue'[r][i] = s
        PROVE  /\ \A v \in Workers : ~WorksOn(v, s)'
               /\ \A h \in Handlers : ~Holds(h, s)'
               /\ \A p \in Queues : \A j \in DOMAIN queue'[p] : queue'[p][j] = s => p = r /\ j = i
    <3> DEFINE old(p, j) == IF p = q THEN j + 1 ELSE j
    <3>1. \A p \in Queues : \A j \in DOMAIN queue'[p] :
            old(p, j) \in DOMAIN queue[p] /\ queue[p][old(p, j)] = queue'[p][j]
      BY <2>2, <2>3
    <3>2. s # t
      BY <2>8, <2>9
    <3>3. /\ \A v \in Workers : ~WorksOn(v, s)
          /\ \A h \in Handlers : ~Holds(h, s)
          /\ \A p \in Queues : \A j \in DOMAIN queue[p] :
               queue[p][j] = s => p = r /\ j = old(r, i)
      <4> HIDE DEF old
      <4> QED
        BY <2>9, <3>1 DEF Exclusive, OneHolder
    <3>4. \A p \in Queues : \A j \in DOMAIN queue'[p] :
            queue'[p][j] = s => p = r /\ old(p, j) = old(r, i)
      <4> HIDE DEF old
      <4> QED
        BY <3>1, <3>3
    <3>5. \A j \in DOMAIN queue'[r] : old(r, j) = old(r, i) => j = i
      BY <2>3
    <3> QED
      BY <2>5, <2>6, <3>2, <3>3, <3>4, <3>5
  <2>10. OneHolder'
    <3> HIDE DEF t, q
    <3>1. ASSUME NEW s \in Tasks, NEW u \in Workers, NEW v \in Workers,
                 WorksOn(u, s)', WorksOn(v, s)'
          PROVE  u = v
      <4>1. CASE s = t
        BY <2>5, <2>7, <3>1, <4>1
      <4>2. CASE s # t
        BY <2>5, <3>1, <4>2 DEF Exclusive, OneHolder
      <4> QED
        BY <4>1, <4>2
    <3>2. \A s \in Tasks : \A g, h \in Handlers : Holds(g, s)' /\ Holds(h, s)' => g = h
      BY <2>6 DEF Exclusive, OneHolder
    <3>3. \A s \in Tasks, v \in Workers, h \in Handlers : ~(WorksOn(v, s)' /\ Holds(h, s)')
      BY <2>5, <2>6, <2>7 DEF Exclusive, OneHolder
    <3> QED
      BY <3>1, <3>2, <3>3, <2>9 DEF OneHolder
  <2>11. HolderTracked'
    BY <2>4 DEF Exclusive, HolderTracked, Runs, Retries, TrackedPCs
  <2>12. HeldExists'
    <3>1. status[t] # "absent"
      BY <2>1, <2>2 DEF Exclusive, HeldExists, Entries
    <3>2. \A s \in Tasks : Entries(s)' \subseteq Entries(s)
      BY <2>1, <2>2, <2>3 DEF Entries
    <3> QED
      BY <2>4, <2>5, <2>6, <3>1, <3>2 DEF Exclusive, HeldExists
  <2> QED
    BY <2>4, <2>10, <2>11, <2>12 DEF Exclusive, Controlled, Locked
<1>22. CASE FailCleanUp(w)
  <2>1. WorkersCalm
    BY <1>22, RaiseCalm DEF FailCleanUp, TrackedPCs
  <2>2. RowsCalm
    BY <1>22 DEF FailCleanUp, RowsCalm, db
  <2> QED
    BY <1>22, <2>1, <2>2, WorkerCalmStep DEF FailCleanUp, runtimeVars
<1> QED
  BY <1>1, <1>2, <1>3, <1>4, <1>5, <1>6, <1>7, <1>8, <1>9, <1>10, <1>11, <1>12, <1>13, <1>14, <1>15, <1>16, <1>17, <1>18, <1>19, <1>20, <1>21, <1>22 DEF WorkerStep
(***************************************************************************)
(* Requests.                                                               *)
(***************************************************************************)
Free(t) ==
  /\ \A w \in Workers : ~WorksOn(w, t)
  /\ \A h \in Handlers : ~Holds(h, t)
  /\ \A q \in Queues : \A i \in DOMAIN queue[q] : queue[q][i] # t

(* A drained task that _require_not_active lets pass, with the lock free,  *)
(* has no holder.                                                          *)
LEMMA RequeueFree ==
  ASSUME Typed, Exclusive, NEW t \in Tasks, NotActive(t), Drained(t), lock = NoOne
  PROVE  Free(t)
<1>1. t \notin runningIds
  BY DEF NotActive, ActiveIds
<1>2. \A w \in Workers : ~WorksOn(w, t)
  BY <1>1 DEF Drained, Exclusive, HolderTracked
<1>3. \A q \in Queues : \A i \in DOMAIN queue[q] : queue[q][i] # t
  BY DEF Drained, Entries
<1>4. ASSUME NEW h \in Handlers, Holds(h, t) PROVE FALSE
  <2>1. ~Locked(h)
    BY ThreadsAssumption DEF Exclusive, Controlled
  <2>2. ~Retries(h, t) /\ ~Enqueues(h, t)
    BY <1>1 DEF Drained, Exclusive, HolderTracked
  <2> QED
    BY <1>4, <2>1, <2>2 DEF Exclusive, Controlled, PCsOf, Locked, Holds, ServesNow, Retries, Enqueues
<1> QED
  BY <1>2, <1>3, <1>4 DEF Free

(* An absent task has none either. *)
LEMMA AbsentFree ==
  ASSUME Exclusive, NEW t \in Tasks, status[t] = "absent"
  PROVE  Free(t)
  BY DEF Exclusive, HeldExists, Entries, Free

LEMMA NewHolder ==
  ASSUME Typed, Exclusive, NEW h \in Handlers, NEW t \in Tasks, Free(t), NEW r \in HandlerRecords,
         handler' = [handler EXCEPT ![h] = r], r.task = t, r.pc \notin RetryPCs,
         RowsCalm, status'[t] # "absent", Controlled',
         UNCHANGED <<queue, worker, runningIds>>
  PROVE  Exclusive'
<1>1. /\ \A s \in Tasks, g \in Handlers : Holds(g, s)' => Holds(g, s) \/ (g = h /\ s = t)
      /\ \A s \in Tasks, g \in Handlers : Retries(g, s)' => Retries(g, s)
  BY DEF Typed, HandlersTyped, Holds, ServesNow, Retries, RetryPCs
<1>2. /\ \A s \in Tasks, w \in Workers : WorksOn(w, s)' <=> WorksOn(w, s)
      /\ \A s \in Tasks, w \in Workers : Runs(w, s)' <=> Runs(w, s)
  BY DEF WorksOn, Runs
<1>3. OneHolder'
  BY <1>1, <1>2 DEF Exclusive, OneHolder, Free
<1>4. HolderTracked'
  BY <1>1, <1>2 DEF Exclusive, HolderTracked
<1>5. HeldExists'
  BY <1>1, <1>2 DEF Exclusive, HeldExists, Entries, RowsCalm
<1> QED
  BY <1>3, <1>4, <1>5 DEF Exclusive

(* A request that holds nothing. *)
LEMMA NewBystander ==
  ASSUME Typed, Exclusive, NEW h \in Handlers, NEW r \in HandlerRecords,
         handler' = [handler EXCEPT ![h] = r],
         r.kind \in {"cancel", "delete", "reconcile", "cleanup", "postprocess"},
         Controlled', UNCHANGED <<status, queue, worker, runningIds>>
  PROVE  Exclusive'
<1>1. HandlersCalm
  BY DEF Typed, HandlersTyped, HandlersCalm, Holds, Retries, ServesNow
<1> QED
  BY <1>1, HandlerCalmStep DEF RowsCalm

LEMMA BeginControlled ==
  ASSUME Typed, Controlled, NEW h \in Handlers, handler[h].pc = "idle", NEW r \in HandlerRecords,
         handler' = [handler EXCEPT ![h] = r], r.pc \in PCsOf(r.kind),
         r.kind = "chunks" => r.prev # "absent",
         \/ lock = NoOne /\ lock' = h
         \/ UNCHANGED lock /\ r.kind \notin {"retry", "retranscribe"} /\ r.pc \notin {"claim", "claimed"}
  PROVE  Controlled'
  BY ThreadsAssumption DEF Typed, HandlersTyped, Controlled, Locked

LEMMA NewRequestExclusive ==
  ASSUME RetryAfterDrain, Typed, Exclusive, NEW h \in Handlers, NewRequest(h)
  PROVE  Exclusive'
<1> USE DEF BeginLocked, Begin
<1>1. ASSUME NEW t \in Tasks, CreateTask(h, t) PROVE Exclusive'
  <2> DEFINE r == [Idle EXCEPT !.kind = "create", !.task = t, !.pc = "mark"]
  <2>1. r \in HandlerRecords /\ r.kind = "create" /\ r.task = t /\ r.pc = "mark"
    BY IdleTyped DEF HandlerRecords, HandlerPCs, Kinds
  <2>2. Free(t)
    BY <1>1, AbsentFree DEF CreateTask
  <2>3. RowsCalm /\ status'[t] # "absent"
    BY <1>1 DEF CreateTask, RowsCalm, Typed, DatabaseTyped
  <2>4. /\ handler' = [handler EXCEPT ![h] = r] /\ handler[h].pc = "idle"
        /\ UNCHANGED <<queue, worker, lock, runningIds>>
    BY <1>1 DEF CreateTask, runtimeVars
  <2> HIDE DEF r
  <2>5. Controlled'
    BY <2>1, <2>4, BeginControlled DEF Exclusive, PCsOf
  <2> QED
    BY <2>1, <2>2, <2>3, <2>4, <2>5, NewHolder DEF RetryPCs
<1>2. ASSUME NEW t \in Tasks, NEW kind, RequeueTask(h, t, kind) PROVE Exclusive'
  <2> DEFINE r == [Idle EXCEPT !.kind = kind, !.task = t, !.pc = "commit"]
  <2>1. kind \in {"retry", "retranscribe"} /\ kind \in Kinds
    BY <1>2 DEF RequeueTask, Kinds
  <2>2. r \in HandlerRecords /\ r.kind = kind /\ r.task = t /\ r.pc = "commit"
    BY <2>1, IdleTyped DEF HandlerRecords, HandlerPCs
  <2>3. Free(t)
    BY <1>2, RequeueFree DEF RequeueTask, MayRequeue
  <2>4. /\ handler' = [handler EXCEPT ![h] = r] /\ handler[h].pc = "idle"
        /\ lock = NoOne /\ lock' = h
        /\ UNCHANGED <<status, queue, worker, runningIds>>
    BY <1>2 DEF RequeueTask, db, runtimeVars
  <2>5. RowsCalm /\ status'[t] # "absent"
    BY <1>2, <2>4, StatusesPresent DEF RequeueTask, NotActive, RowsCalm
  <2> HIDE DEF r
  <2>6. Controlled'
    BY <2>1, <2>2, <2>4, BeginControlled DEF Exclusive, PCsOf
  <2> QED
    BY <2>2, <2>3, <2>4, <2>5, <2>6, NewHolder DEF RetryPCs
<1>3. ASSUME NEW t \in Tasks, ClaimChunks(h, t) PROVE Exclusive'
  <2>1. PICK n \in 1 .. MaxRetried :
          handler' = [handler EXCEPT ![h] = [Idle EXCEPT !.kind = "chunks", !.task = t,
                                             !.pc = "claim", !.left = n, !.prev = status[t]]]
    BY <1>3 DEF ClaimChunks
  <2> DEFINE r == [Idle EXCEPT !.kind = "chunks", !.task = t, !.pc = "claim", !.left = n,
                               !.prev = status[t]]
  <2>2. n \in 0 .. MaxRetried /\ status[t] \in Statuses
    BY BoundsAssumption DEF Typed, DatabaseTyped
  <2>3. r \in HandlerRecords /\ r.kind = "chunks" /\ r.task = t /\ r.pc = "claim" /\ r.prev = status[t]
    BY <2>2, IdleTyped DEF HandlerRecords, HandlerPCs, Kinds
  <2>4. Free(t)
    BY <1>3, RequeueFree DEF ClaimChunks, MayRequeue
  <2>5. /\ handler[h].pc = "idle" /\ lock = NoOne /\ lock' = h
        /\ UNCHANGED <<status, queue, worker, runningIds>>
    BY <1>3 DEF ClaimChunks, db, runtimeVars
  <2>6. RowsCalm /\ status[t] # "absent" /\ status'[t] # "absent"
    BY <1>3, <2>5, StatusesPresent DEF ClaimChunks, NotActive, RowsCalm
  <2>7. handler' = [handler EXCEPT ![h] = r]
    BY <2>1
  <2> HIDE DEF r
  <2>8. Controlled'
    BY <2>3, <2>5, <2>6, <2>7, BeginControlled DEF Exclusive, PCsOf
  <2> QED
    BY <2>3, <2>4, <2>5, <2>6, <2>7, <2>8, NewHolder DEF RetryPCs
<1>4. ASSUME NEW t \in Tasks, NEW kind,
             \/ CancelTask(h, t) /\ kind = "cancel"
             \/ DeleteTask(h, t) /\ kind = "delete"
             \/ MutateTask(h, t, kind)
      PROVE  Exclusive'
  <2>1. kind \in {"cancel", "delete", "cleanup", "postprocess"} /\ kind \in Kinds
    BY <1>4 DEF MutateTask, Kinds
  <2>2. PICK pc \in {"flag", "commit"} :
          /\ handler' = [handler EXCEPT ![h] = [Idle EXCEPT !.kind = kind, !.task = t, !.pc = pc]]
          /\ kind \in {"cleanup", "postprocess"} => pc = "commit"
    BY <1>4, <2>1 DEF CancelTask, DeleteTask, MutateTask
  <2> DEFINE r == [Idle EXCEPT !.kind = kind, !.task = t, !.pc = pc]
  <2>3. r \in HandlerRecords /\ r.kind = kind /\ r.pc = pc
    BY <2>1, IdleTyped DEF HandlerRecords, HandlerPCs
  <2>4. /\ handler[h].pc = "idle" /\ lock = NoOne /\ lock' = h
        /\ UNCHANGED <<status, queue, worker, runningIds>>
    BY <1>4 DEF CancelTask, DeleteTask, MutateTask, db, runtimeVars
  <2>5. handler' = [handler EXCEPT ![h] = r]
    BY <2>2
  <2> HIDE DEF r
  <2>6. Controlled'
    BY <2>1, <2>2, <2>3, <2>4, <2>5, BeginControlled DEF Exclusive, PCsOf
  <2> QED
    BY <2>1, <2>3, <2>4, <2>5, <2>6, NewBystander
<1>5. CASE ReconcileOrphans(h)
  <2> DEFINE r == [Idle EXCEPT !.kind = "reconcile", !.pc = "scan", !.seen = ActiveIds]
  <2>1. ActiveIds \in SUBSET Tasks
    BY DEF ActiveIds, Typed, ProcessTyped, RuntimeTypeOK
  <2>2. r \in HandlerRecords /\ r.kind = "reconcile" /\ r.pc = "scan"
    BY <2>1, IdleTyped DEF HandlerRecords, HandlerPCs, Kinds
  <2>3. /\ handler' = [handler EXCEPT ![h] = r] /\ handler[h].pc = "idle"
        /\ UNCHANGED <<status, queue, worker, lock, runningIds>>
    BY <1>5 DEF ReconcileOrphans, db, runtimeVars
  <2> HIDE DEF r
  <2>4. Controlled'
    BY <2>2, <2>3, BeginControlled DEF Exclusive, PCsOf
  <2> QED
    BY <2>2, <2>3, <2>4, NewBystander
<1> QED
  BY <1>1, <1>2, <1>3, <1>4, <1>5 DEF NewRequest

(* As FinishedByHolder, for a chunk retry. *)
LEMMA FinishedByRetry ==
  ASSUME Exclusive, WorkersCalm, HandlersCalm, NEW h \in Handlers, handler[h].kind = "chunks",
         handler[h].pc # "idle", runningIds' = runningIds \ {handler[h].task},
         runningIds \subseteq Tasks, \A t \in Tasks : ~Retries(h, t)'
  PROVE  RegistryCalm
  BY DEF Exclusive, OneHolder, WorkersCalm, HandlersCalm, RegistryCalm, WorksOn, Runs, Holds,
     Retries, ServesNow, TrackedPCs

(* A chunk retry goes on with the same task. *)
RetryGoesOn(h) ==
  /\ \A g \in Handlers : g # h => handler'[g] = handler[g]
  /\ handler'[h].kind = "chunks" /\ handler'[h].task = handler[h].task
  /\ handler'[h].pc \in RetryPCs /\ handler'[h].prev # "absent"

LEMMA RetryRecord ==
  ASSUME Typed, NEW h \in Handlers, NEW r, handler' = [handler EXCEPT ![h] = r],
         r.kind = "chunks", r.task = handler[h].task, r.pc \in RetryPCs, r.prev # "absent"
  PROVE  RetryGoesOn(h)
  BY DEF Typed, HandlersTyped, RetryGoesOn

LEMMA CommitRequestExclusive ==
  ASSUME Typed, Exclusive, NEW h \in Handlers, CommitRequest(h)
  PROVE  Exclusive'
<1>1. UNCHANGED <<queue, worker, runningIds>>
  BY DEF CommitRequest, runtimeVars
<1>2. CASE CommitCancel(h)
  <2>1. RowsCalm
    BY <1>2, StatusesPresent DEF CommitCancel, RowsCalm, Typed, DatabaseTyped
  <2>2. Done(h) /\ (UNCHANGED lock \/ Release(h))
    BY <1>2 DEF CommitCancel
  <2>3. HandlersCalm
    BY <2>2, DoneCalm
  <2>4. Controlled'
    BY <2>2, DoneControlled DEF Exclusive
  <2> QED
    BY <1>1, <2>1, <2>3, <2>4, HandlerCalmStep
<1>3. CASE CommitDelete(h)
  <2>1. RowsCalm
    BY <1>3, StatusesPresent DEF CommitDelete, RowsCalm, Typed, DatabaseTyped
  <2>2. Done(h) /\ (UNCHANGED lock \/ Release(h))
    BY <1>3 DEF CommitDelete
  <2>3. HandlersCalm
    BY <2>2, DoneCalm
  <2>4. Controlled'
    BY <2>2, DoneControlled DEF Exclusive
  <2> QED
    BY <1>1, <2>1, <2>3, <2>4, HandlerCalmStep
<1>4. CASE CommitCleanup(h)
  <2>1. RowsCalm
    BY <1>4, StatusesPresent DEF CommitCleanup, RowsCalm, Typed, DatabaseTyped
  <2>2. Done(h) /\ (UNCHANGED lock \/ Release(h))
    BY <1>4 DEF CommitCleanup
  <2>3. HandlersCalm
    BY <2>2, DoneCalm
  <2>4. Controlled'
    BY <2>2, DoneControlled DEF Exclusive
  <2> QED
    BY <1>1, <2>1, <2>3, <2>4, HandlerCalmStep
<1>5. CASE CommitPostprocess(h)
  <2>1. RowsCalm
    BY <1>5, StatusesPresent DEF CommitPostprocess, RowsCalm, Typed, DatabaseTyped
  <2>2. Done(h) /\ (UNCHANGED lock \/ Release(h))
    BY <1>5 DEF CommitPostprocess
  <2>3. HandlersCalm
    BY <2>2, DoneCalm
  <2>4. Controlled'
    BY <2>2, DoneControlled DEF Exclusive
  <2> QED
    BY <1>1, <2>1, <2>3, <2>4, HandlerCalmStep
<1>6. CASE CommitReconcile(h)
  <2>1. RowsCalm
    BY <1>6, StatusesPresent DEF CommitReconcile, RowsCalm, Typed, DatabaseTyped
  <2>2. Done(h) /\ (UNCHANGED lock \/ Release(h))
    BY <1>6 DEF CommitReconcile
  <2>3. HandlersCalm
    BY <2>2, DoneCalm
  <2>4. Controlled'
    BY <2>2, DoneControlled DEF Exclusive
  <2> QED
    BY <1>1, <2>1, <2>3, <2>4, HandlerCalmStep
<1>7. CASE CommitRetry(h)
  <2>1. RowsCalm
    BY <1>7, StatusesPresent DEF CommitRetry, RowsCalm, Typed, DatabaseTyped
  <2>2. /\ handler[h].pc = "commit" /\ handler[h].kind \in {"retry", "retranscribe"}
        /\ Goto(h, "mark") /\ UNCHANGED lock
    BY <1>7 DEF CommitRetry, At
  <2>3. HandlersCalm
    BY <2>2, GotoCalm DEF HandlerPCs, RetryPCs
  <2>4. Controlled'
    BY <2>2, GotoControlled DEF Exclusive, PCsOf, Locked
  <2> QED
    BY <1>1, <2>1, <2>3, <2>4, HandlerCalmStep
<1>8. CASE CommitRetranscribe(h)
  <2>1. RowsCalm
    BY <1>8, StatusesPresent DEF CommitRetranscribe, RowsCalm, Typed, DatabaseTyped
  <2>2. /\ handler[h].pc = "commit" /\ handler[h].kind \in {"retry", "retranscribe"}
        /\ Goto(h, "mark") /\ UNCHANGED lock
    BY <1>8 DEF CommitRetranscribe, At
  <2>3. HandlersCalm
    BY <2>2, GotoCalm DEF HandlerPCs, RetryPCs
  <2>4. Controlled'
    BY <2>2, GotoControlled DEF Exclusive, PCsOf, Locked
  <2> QED
    BY <1>1, <2>1, <2>3, <2>4, HandlerCalmStep
<1> QED
  BY <1>2, <1>3, <1>4, <1>5, <1>6, <1>7, <1>8 DEF CommitRequest

LEMMA HandlerStepExclusive ==
  ASSUME Typed, Exclusive, NEW h \in Handlers, HandlerStep(h) \/ AbortChunks(h) \/ DropRequest(h)
  PROVE  Exclusive'
<1>0. handler[h].pc \in PCsOf(handler[h].kind) /\ handler[h].kind \in Kinds
  BY DEF Exclusive, Controlled, Typed, HandlersTyped, HandlerRecords
<1>1. CASE FlagTask(h)
  <2>1. UNCHANGED <<queue, worker, runningIds>>
    BY <1>1 DEF FlagTask, RequestCancel, besideHandlers, runtimeVars
  <2>2. HandlersCalm
    BY <1>1, GotoCalm DEF FlagTask, HandlerPCs, RetryPCs
  <2>3. Controlled'
    BY <1>0, <1>1, GotoControlled DEF FlagTask, Exclusive, PCsOf, Kinds, Locked, besideHandlers
  <2>4. RowsCalm
    BY <1>1 DEF FlagTask, RowsCalm, Typed, DatabaseTyped, db
  <2> QED
    BY <2>1, <2>2, <2>3, <2>4, HandlerCalmStep
<1>2. CASE CommitClaim(h)
  <2>1. UNCHANGED <<queue, worker, runningIds>>
    BY <1>2 DEF CommitClaim, RequestCancel, besideHandlers, runtimeVars
  <2>2. HandlersCalm
    BY <1>2, GotoCalm DEF CommitClaim, HandlerPCs, RetryPCs
  <2>3. Controlled'
    BY <1>0, <1>2, GotoControlled DEF CommitClaim, Exclusive, PCsOf, Kinds, Locked, besideHandlers
  <2>4. RowsCalm
    BY <1>2 DEF CommitClaim, RowsCalm, Typed, DatabaseTyped, db
  <2> QED
    BY <2>1, <2>2, <2>3, <2>4, HandlerCalmStep
<1>3. CASE KeepChunk(h)
  <2>1. UNCHANGED <<queue, worker, runningIds>>
    BY <1>3 DEF KeepChunk, RequestCancel, besideHandlers, runtimeVars
  <2>2. HandlersCalm
    BY <1>3, GotoCalm DEF KeepChunk, HandlerPCs, RetryPCs
  <2>3. Controlled'
    BY <1>0, <1>3, GotoControlled DEF KeepChunk, Exclusive, PCsOf, Kinds, Locked, besideHandlers
  <2>4. RowsCalm
    BY <1>3 DEF KeepChunk, RowsCalm, Typed, DatabaseTyped, db
  <2> QED
    BY <2>1, <2>2, <2>3, <2>4, HandlerCalmStep
<1>4. CASE SettleChunks(h)
  <2>1. UNCHANGED <<queue, worker, runningIds>>
    BY <1>4 DEF SettleChunks, RequestCancel, besideHandlers, runtimeVars
  <2>2. HandlersCalm
    BY <1>4, GotoCalm DEF SettleChunks, HandlerPCs, RetryPCs
  <2>3. Controlled'
    BY <1>0, <1>4, GotoControlled DEF SettleChunks, Exclusive, PCsOf, Kinds, Locked, besideHandlers
  <2>4. handler[h].prev # "absent"
    BY <1>0, <1>4 DEF SettleChunks, Exclusive, Controlled, PCsOf, Kinds
  <2>5. RowsCalm
    BY <1>4, <2>4 DEF SettleChunks, RowsCalm, Typed, DatabaseTyped
  <2> QED
    BY <2>1, <2>2, <2>3, <2>5, HandlerCalmStep
<1>5. CASE AbortChunks(h)
  <2>1. UNCHANGED <<queue, worker, runningIds>>
    BY <1>5 DEF AbortChunks, RequestCancel, besideHandlers, runtimeVars
  <2>2. HandlersCalm
    BY <1>5, GotoCalm DEF AbortChunks, HandlerPCs, RetryPCs
  <2>3. Controlled'
    BY <1>0, <1>5, GotoControlled DEF AbortChunks, Exclusive, PCsOf, Kinds
  <2>4. RowsCalm
    BY <1>5 DEF AbortChunks, RowsCalm, Typed, DatabaseTyped, db
  <2> QED
    BY <2>1, <2>2, <2>3, <2>4, HandlerCalmStep
<1>6. CASE StartTask(h)
  <2>1. UNCHANGED <<queue, worker, runningIds, status>> /\ handler[h].pc = "mark"
    BY <1>6 DEF StartTask, MarkQueued, runtimeVars, db
  <2>2. CASE Goto(h, "put") /\ UNCHANGED lock
    <3>1. HandlersCalm
      BY <2>1, <2>2, GotoCalm DEF HandlerPCs, RetryPCs
    <3>2. Controlled'
      BY <1>0, <2>1, <2>2, GotoControlled DEF Exclusive, PCsOf, Kinds, Locked
    <3> QED
      BY <2>1, <3>1, <3>2, HandlerCalmStep DEF RowsCalm
  <2>3. CASE Done(h) /\ Release(h)
    BY <2>1, <2>3, DoneCalm, DoneControlled, HandlerCalmStep DEF Exclusive, RowsCalm
  <2> QED
    BY <1>6, <2>2, <2>3 DEF StartTask
<1>7. CASE ScanRows(h)
  <2>1. UNCHANGED <<queue, worker, runningIds, status, lock>> /\ handler[h].pc = "scan"
    BY <1>7 DEF ScanRows, besideHandlers, runtimeVars, db
  <2>2. CASE Done(h)
    BY <2>1, <2>2, DoneCalm, DoneControlled, HandlerCalmStep DEF Exclusive, RowsCalm
  <2>3. ASSUME NEW s \in SUBSET Tasks,
               handler' = [handler EXCEPT ![h] = [@ EXCEPT !.pc = "reap", !.seen = s]]
        PROVE  Exclusive'
    <3>1. handler[h].kind = "reconcile"
      BY <1>0, <2>1 DEF PCsOf, Kinds
    <3> DEFINE r == [handler[h] EXCEPT !.pc = "reap", !.seen = s]
    <3>2. r \in HandlerRecords /\ r.kind = "reconcile" /\ r.pc = "reap"
      BY <3>1 DEF Typed, HandlersTyped, HandlerRecords, HandlerPCs
    <3>3. handler' = [handler EXCEPT ![h] = r]
      BY <2>3
    <3> HIDE DEF r
    <3>4. Controlled'
      BY <2>1, <3>2, <3>3 DEF Exclusive, Controlled, Locked, PCsOf, Typed, HandlersTyped
    <3> QED
      BY <2>1, <3>2, <3>3, <3>4, NewBystander
  <2> QED
    BY <1>7, <2>2, <2>3 DEF ScanRows
<1>8. CASE AttemptChunk(h) \/ EndChunk(h) \/ GatherChunks(h)
  <2>1. handler[h].pc \in {"attempt", "chunk"} /\ handler[h].kind = "chunks"
    BY <1>0, <1>8 DEF AttemptChunk, EndChunk, GatherChunks, PCsOf, Kinds
  <2>2. /\ UNCHANGED <<queue, worker, runningIds>>
        /\ UNCHANGED lock \/ lock = NoOne
    BY <1>8 DEF AttemptChunk, EndChunk, GatherChunks, besideHandlers, runtimeVars
  <2>3. RowsCalm
    BY <1>8 DEF AttemptChunk, EndChunk, GatherChunks, RowsCalm, Typed, DatabaseTyped, db
  <2>4. RetryGoesOn(h)
    <3>1. handler[h] \in HandlerRecords /\ handler[h].prev # "absent"
      BY <2>1 DEF Exclusive, Controlled, Typed, HandlersTyped
    <3>2. CASE \E n : handler' = [handler EXCEPT ![h] = [@ EXCEPT !.left = n, !.ok = FALSE]]
      <4>1. PICK n : handler' = [handler EXCEPT ![h] = [handler[h] EXCEPT !.left = n, !.ok = FALSE]]
        BY <3>2
      <4> DEFINE r == [handler[h] EXCEPT !.left = n, !.ok = FALSE]
      <4>2. r.kind = "chunks" /\ r.task = handler[h].task /\ r.pc \in RetryPCs /\ r.prev # "absent"
        BY <2>1, <3>1 DEF HandlerRecords, RetryPCs
      <4> HIDE DEF r
      <4> QED
        BY <4>1, <4>2, RetryRecord DEF r
    <3>3. CASE \E x, n : handler' = [handler EXCEPT ![h] =
                                      [@ EXCEPT !.pc = "chunk", !.rest = x, !.left = n]]
      <4>1. PICK x, n : handler' = [handler EXCEPT ![h] =
                                      [handler[h] EXCEPT !.pc = "chunk", !.rest = x, !.left = n]]
        BY <3>3
      <4> DEFINE r == [handler[h] EXCEPT !.pc = "chunk", !.rest = x, !.left = n]
      <4>2. r.kind = "chunks" /\ r.task = handler[h].task /\ r.pc \in RetryPCs /\ r.prev # "absent"
        BY <2>1, <3>1 DEF HandlerRecords, RetryPCs
      <4> HIDE DEF r
      <4> QED
        BY <4>1, <4>2, RetryRecord DEF r
    <3>4. CASE handler' = [handler EXCEPT ![h] = [@ EXCEPT !.pc = "attempt", !.ok = FALSE]]
      <4> DEFINE r == [handler[h] EXCEPT !.pc = "attempt", !.ok = FALSE]
      <4>1. r.kind = "chunks" /\ r.task = handler[h].task /\ r.pc \in RetryPCs /\ r.prev # "absent"
        BY <2>1, <3>1 DEF HandlerRecords, RetryPCs
      <4>2. handler' = [handler EXCEPT ![h] = r]
        BY <3>4
      <4> HIDE DEF r
      <4> QED
        BY <4>1, <4>2, RetryRecord
    <3>5. CASE \E pc \in {"keep", "finish"} : Goto(h, pc)
      <4>1. PICK pc \in {"keep", "finish"} : handler' = [handler EXCEPT ![h] = [handler[h] EXCEPT !.pc = pc]]
        BY <3>5 DEF Goto
      <4> DEFINE r == [handler[h] EXCEPT !.pc = pc]
      <4>2. r.kind = "chunks" /\ r.task = handler[h].task /\ r.pc \in RetryPCs /\ r.prev # "absent"
        BY <2>1, <3>1 DEF HandlerRecords, RetryPCs
      <4> HIDE DEF r
      <4> QED
        BY <4>1, <4>2, RetryRecord DEF r
    <3>6. CASE \E s \in Statuses \ {"absent"} :
                 handler' = [handler EXCEPT ![h] = [@ EXCEPT !.pc = "settle", !.prev = s]]
      <4>1. PICK s \in Statuses \ {"absent"} :
              handler' = [handler EXCEPT ![h] = [handler[h] EXCEPT !.pc = "settle", !.prev = s]]
        BY <3>6
      <4> DEFINE r == [handler[h] EXCEPT !.pc = "settle", !.prev = s]
      <4>2. r.kind = "chunks" /\ r.task = handler[h].task /\ r.pc \in RetryPCs /\ r.prev # "absent"
        BY <2>1, <3>1 DEF HandlerRecords, RetryPCs
      <4> HIDE DEF r
      <4> QED
        BY <4>1, <4>2, RetryRecord DEF r
    <3>7. CASE AttemptChunk(h)
      BY <3>2, <3>3, <3>7 DEF AttemptChunk
    <3>8. CASE EndChunk(h)
      BY <3>4, <3>5, <3>8 DEF EndChunk
    <3>9. CASE GatherChunks(h)
      <4>1. handler[h].prev \in Statuses \ {"absent"}
        BY <3>1 DEF HandlerRecords
      <4> QED
        BY <3>5, <3>6, <3>9, <4>1, StatusNames, StatusesPresent DEF GatherChunks
    <3> QED
      BY <1>8, <3>7, <3>8, <3>9
  <2>5. HandlersCalm
    BY <2>1, <2>4 DEF RetryGoesOn, HandlersCalm, Holds, Retries, ServesNow, RetryPCs
  <2>6. Controlled'
    BY <2>1, <2>2, <2>4, ThreadsAssumption
    DEF RetryGoesOn, Exclusive, Controlled, Locked, PCsOf, RetryPCs
  <2> QED
    BY <2>2, <2>3, <2>5, <2>6, HandlerCalmStep
<1>9. CASE MarkClaim(h)
  <2>1. /\ handler[h].pc = "claimed" /\ runningIds' = runningIds \union {handler[h].task}
        /\ Goto(h, "attempt") /\ Release(h) /\ UNCHANGED <<queue, worker, status>>
    BY <1>9 DEF MarkClaim, MarkRunning, db
  <2>2. handler[h].kind = "chunks"
    BY <1>0, <2>1 DEF PCsOf, Kinds
  <2>3. /\ \A g \in Handlers : g # h => handler'[g] = handler[g]
        /\ handler'[h].task = handler[h].task /\ handler'[h].kind = "chunks"
        /\ handler'[h].pc = "attempt"
    BY <2>1, <2>2 DEF Goto, Typed, HandlersTyped, HandlerRecords
  <2>4. \A t \in Tasks, g \in Handlers : Holds(g, t)' <=> Holds(g, t)
    BY <2>1, <2>2, <2>3 DEF Holds, ServesNow
  <2>5. OneHolder' /\ HeldExists'
    BY <2>1, <2>4 DEF Exclusive, OneHolder, HeldExists, WorksOn, Entries
  <2>6. HolderTracked'
    BY <2>1, <2>3 DEF Exclusive, HolderTracked, Runs, Retries
  <2>7. Controlled'
    BY <2>1, <2>2, GotoControlled DEF Exclusive, PCsOf
  <2> QED
    BY <2>5, <2>6, <2>7 DEF Exclusive
<1>10. CASE FinishChunks(h)
  <2>1. /\ handler[h].pc = "finish" /\ runningIds' = runningIds \ {handler[h].task}
        /\ Done(h) /\ UNCHANGED <<queue, worker, lock, status>>
    BY <1>10 DEF FinishChunks, MarkFinished, db
  <2>2. handler[h].kind = "chunks"
    BY <1>0, <2>1 DEF PCsOf, Kinds
  <2>3. WorkersCalm
    BY <2>1 DEF WorkersCalm, WorksOn, Runs
  <2>4. HandlersCalm /\ \A t \in Tasks : ~Retries(h, t)'
    BY <2>1, DoneCalm
  <2>5. RegistryCalm
    BY <2>1, <2>2, <2>3, <2>4, FinishedByRetry DEF Typed, ProcessTyped, RuntimeTypeOK
  <2>6. Controlled'
    BY <2>1, DoneControlled DEF Exclusive
  <2> QED
    BY <2>1, <2>3, <2>4, <2>5, <2>6, CalmStep DEF RowsCalm
<1>11. CASE PutTask(h)
  <2>0. PICK t \in Tasks, q \in Queues, n \in Nat :
          /\ t = handler[h].task /\ q = route[t] /\ n = Len(queue[q]) + 1
    <3>1. handler[h].task \in Tasks
      BY <1>11 DEF PutTask, Typed, HandlersTyped
    <3>2. route[handler[h].task] \in Queues
      BY <3>1 DEF Typed, DatabaseTyped
    <3>3. queue[route[handler[h].task]] \in Seq(Tasks)
      BY <3>2 DEF Typed, ProcessTyped
    <3>4. Len(queue[route[handler[h].task]]) + 1 \in Nat
      BY <3>3
    <3> QED
      BY <3>1, <3>2, <3>4
  <2>1. handler[h].pc = "put" /\ queue \in [Queues -> Seq(Tasks)]
    BY <1>11 DEF PutTask, Typed, ProcessTyped
  <2>2. /\ queue'[q] = Append(queue[q], t)
        /\ \A r \in Queues : r # q => queue'[r] = queue[r]
    BY <1>11, <2>0, <2>1 DEF PutTask
  <2>3. /\ \A i \in DOMAIN queue'[q] : i \in DOMAIN queue[q] \/ i = n
        /\ queue'[q][n] = t
        /\ \A i \in DOMAIN queue[q] : queue'[q][i] = queue[q][i]
    <3>1. queue[q] \in Seq(Tasks)
      BY <2>1
    <3>2. /\ DOMAIN queue[q] = 1 .. Len(queue[q])
          /\ DOMAIN queue'[q] = 1 .. Len(queue'[q]) /\ Len(queue'[q]) = n
      <4>1. queue'[q] = Append(queue[q], t) /\ n = Len(queue[q]) + 1
        BY <2>0, <2>2
      <4>2. Append(queue[q], t) \in Seq(Tasks) /\ Len(Append(queue[q], t)) = Len(queue[q]) + 1
        BY <3>1, AppendProperties
      <4> QED
        BY <3>1, <4>1, <4>2, LenProperties
    <3>3. /\ \A i \in 1 .. Len(queue[q]) : queue'[q][i] = queue[q][i]
          /\ queue'[q][n] = t
      <4>1. queue'[q] = Append(queue[q], t) /\ n = Len(queue[q]) + 1
        BY <2>0, <2>2
      <4>2. /\ \A i \in 1 .. Len(queue[q]) : Append(queue[q], t)[i] = queue[q][i]
            /\ Append(queue[q], t)[Len(queue[q]) + 1] = t
        BY <3>1, AppendProperties
      <4> QED
        BY <4>1, <4>2
    <3> QED
      <4>1. \A i \in 1 .. n : i \in 1 .. Len(queue[q]) \/ i = n
        BY <2>0, <3>1
      <4> QED
        BY <3>2, <3>3, <4>1
  <2>4. Done(h) /\ Release(h) /\ UNCHANGED <<worker, status, runningIds>>
    BY <1>11 DEF PutTask, db, runtimeVars
  <2>5. Holds(h, t)
    BY <1>0, <2>0, <2>1 DEF Holds, ServesNow, PCsOf, Kinds
  <2>6. HandlersCalm /\ \A s \in Tasks : ~Holds(h, s)'
    BY <2>4, DoneCalm
  <2>7. \A s \in Tasks, w \in Workers :
          (WorksOn(w, s)' <=> WorksOn(w, s)) /\ (Runs(w, s)' <=> Runs(w, s))
    BY <2>4 DEF WorksOn, Runs
  <2>8. /\ \A w \in Workers : ~WorksOn(w, t)'
        /\ \A g \in Handlers : ~Holds(g, t)'
        /\ \A r \in Queues : \A i \in DOMAIN queue[r] : queue[r][i] # t
    <3>1. \A r \in Queues : \A i \in DOMAIN queue[r] : queue[r][i] # t
      BY <2>1, <2>5 DEF Exclusive, OneHolder
    <3>2. \A w \in Workers : ~WorksOn(w, t)'
      BY <2>1, <2>5, <2>7 DEF Exclusive, OneHolder
    <3>3. \A g \in Handlers : ~Holds(g, t)'
      BY <2>1, <2>5, <2>6 DEF Exclusive, OneHolder, HandlersCalm
    <3> QED
      BY <3>1, <3>2, <3>3
  <2>9. \A r \in Queues : \A i \in DOMAIN queue'[r] :
          \/ i \in DOMAIN queue[r] /\ queue[r][i] = queue'[r][i]
          \/ r = q /\ i = n /\ queue'[r][i] = t
    BY <2>2, <2>3
  <2>10. OneHolder'
    <3>1. ASSUME NEW s \in Tasks, NEW r \in Queues, NEW i \in DOMAIN queue'[r], queue'[r][i] = s
          PROVE  /\ \A w \in Workers : ~WorksOn(w, s)'
                 /\ \A g \in Handlers : ~Holds(g, s)'
                 /\ \A p \in Queues : \A j \in DOMAIN queue'[p] : queue'[p][j] = s => p = r /\ j = i
      <4>1. CASE s = t
        <5>1. \A p \in Queues : \A j \in DOMAIN queue'[p] : queue'[p][j] = t => p = q /\ j = n
          BY <2>8, <2>9
        <5>2. r = q /\ i = n
          BY <3>1, <4>1, <5>1
        <5> QED
          BY <2>8, <3>1, <4>1, <5>1, <5>2
      <4>2. CASE s # t
        <5>1. i \in DOMAIN queue[r] /\ queue[r][i] = s
          BY <2>9, <3>1, <4>2
        <5>2. /\ \A w \in Workers : ~WorksOn(w, s)
              /\ \A g \in Handlers : ~Holds(g, s)
              /\ \A p \in Queues : \A j \in DOMAIN queue[p] : queue[p][j] = s => p = r /\ j = i
          BY <5>1 DEF Exclusive, OneHolder
        <5> QED
          BY <2>6, <2>7, <2>9, <3>1, <4>2, <5>2 DEF HandlersCalm
      <4> QED
        BY <4>1, <4>2
    <3>2. \A s \in Tasks : \A v, w \in Workers : WorksOn(v, s)' /\ WorksOn(w, s)' => v = w
      BY <2>7 DEF Exclusive, OneHolder
    <3>3. \A s \in Tasks : \A f, g \in Handlers : Holds(f, s)' /\ Holds(g, s)' => f = g
      BY <2>6 DEF Exclusive, OneHolder, HandlersCalm
    <3>4. \A s \in Tasks, w \in Workers, g \in Handlers : ~(WorksOn(w, s)' /\ Holds(g, s)')
      BY <2>6, <2>7 DEF Exclusive, OneHolder, HandlersCalm
    <3> QED
      BY <3>1, <3>2, <3>3, <3>4 DEF OneHolder
  <2>11. HolderTracked'
    BY <2>4, <2>6, <2>7 DEF Exclusive, HolderTracked, HandlersCalm
  <2>12. HeldExists'
    <3>1. status[t] # "absent"
      BY <2>5 DEF Exclusive, HeldExists
    <3>2. \A s \in Tasks : s # t => Entries(s)' \subseteq Entries(s)
      BY <2>9 DEF Entries
    <3> QED
      BY <2>4, <2>6, <2>7, <3>1, <3>2 DEF Exclusive, HeldExists, HandlersCalm, Entries
  <2>13. Controlled'
    BY <2>4, DoneControlled DEF Exclusive
  <2> QED
    BY <2>10, <2>11, <2>12, <2>13 DEF Exclusive
<1>12. CASE DropRequest(h)
  <2>1. Done(h) /\ Release(h) /\ UNCHANGED <<queue, worker, runningIds, status>>
    BY <1>12 DEF DropRequest, runtimeVars, db
  <2> QED
    BY <2>1, DoneCalm, DoneControlled, HandlerCalmStep DEF Exclusive, RowsCalm
<1> QED
  BY <1>1, <1>2, <1>3, <1>4, <1>5, <1>6, <1>7, <1>8, <1>9, <1>10, <1>11, <1>12, CommitRequestExclusive DEF HandlerStep

LEMMA FreshExclusive ==
  ASSUME queue = [q \in Queues |-> <<>>], worker = [w \in Workers |-> Workless],
         handler = [h \in Handlers |-> Idle]
  PROVE  Exclusive
  BY DEF Exclusive, Controlled, Locked, PCsOf, OneHolder, HolderTracked, HeldExists, Entries,
     WorksOn, Runs, TrackedPCs, Holds, ServesNow, Retries, Workless, Idle

LEMMA ExclusiveNext ==
  ASSUME RetryAfterDrain, Typed, Exclusive, [Next]_vars
  PROVE  Exclusive'
<1>1. CASE UNCHANGED vars
  BY <1>1, CalmStep DEF vars, WorkersCalm, HandlersCalm, RowsCalm, RegistryCalm, WorksOn, Runs,
     Holds, Retries, ServesNow, Exclusive, Controlled, Locked
<1>2. CASE Restart
  BY <1>2 DEF Restart, Exclusive, Controlled, Locked, PCsOf, OneHolder, HolderTracked, HeldExists,
     Entries, WorksOn, Runs, TrackedPCs, Holds, ServesNow, Retries, Workless, Idle
<1> QED
  BY <1>1, <1>2, NewRequestExclusive, HandlerStepExclusive, WorkerStepExclusive DEF Next

LEMMA ExclusiveHolds ==
  ASSUME RetryAfterDrain
  PROVE  Spec => []Exclusive
<1>1. Init => Exclusive
  BY FreshExclusive DEF Init
<1>2. Typed /\ Exclusive /\ [Next]_vars => Exclusive'
  BY ExclusiveNext
<1> QED
  BY <1>1, <1>2, TypedHolds, PTL DEF Spec

LEMMA ExclusiveSingleWriter ==
  ASSUME Exclusive
  PROVE  SingleWriter /\ WriterIsTracked
<1>1. \A t \in Tasks : \A w \in Workers : Runs(w, t) => WorksOn(w, t)
  BY DEF Runs, WorksOn, TrackedPCs
<1>2. \A t \in Tasks : \A h \in Handlers : Retries(h, t) => Holds(h, t)
  BY DEF Retries, Holds, ServesNow
<1>3. SingleWriter
  BY <1>1, <1>2 DEF Exclusive, OneHolder, SingleWriter, Writers
<1>4. WriterIsTracked
  BY DEF Exclusive, HolderTracked, WriterIsTracked, Writers
<1> QED
  BY <1>3, <1>4

(* No task is ever written by two workers, or by a worker and a chunk      *)
(* retry, where clients requeue only drained tasks (run_task,              *)
(* _claim_failed_chunks, _require_not_active).                             *)
THEOREM SingleWriterHolds ==
  ASSUME RetryAfterDrain
  PROVE  Spec => []SingleWriter
<1>1. Exclusive => SingleWriter
  BY ExclusiveSingleWriter
<1> QED
  BY <1>1, ExclusiveHolds, PTL

(* ... and whoever writes a task is in the registry, which is what         *)
(* _require_not_active relies on once a cancel has made the row terminal.  *)
THEOREM WriterIsTrackedHolds ==
  ASSUME RetryAfterDrain
  PROVE  Spec => []WriterIsTracked
<1>1. Exclusive => WriterIsTracked
  BY ExclusiveSingleWriter
<1> QED
  BY <1>1, ExclusiveHolds, PTL

(***************************************************************************)
(* What becomes of a result, for any sets of tasks and threads, where      *)
(* clients requeue only what nothing untracked is left of                  *)
(* (RetryAfterDrain): a completed task has its transcript                  *)
(* (CompletedHasTranscript) and, without reconcile_orphan_tasks, keeps it  *)
(* (CompletedIsKept), no request commits while somebody writes its task    *)
(* (RequestsSpareWriters) and, if no quality warning stores a transcript   *)
(* early, no completion overtakes a cancellation that has returned         *)
(* (CancelHolds).                                                          *)
(*                                                                         *)
(* Kept: the transcript is stored, or lies in the write transaction of the *)
(* worker, before the row says completed; a chunk retry that will restore  *)
(* "completed" claimed a task that had its transcript, or is about to      *)
(* merge a complete set of chunks, which nobody changes under the lock.    *)
(*                                                                         *)
(* Untouched: what waits to be executed has a row that a worker executes   *)
(* or leaves alone, and stays in the registry until it is cancelled.  Only *)
(* so can a delete that looked at the registry once rely on it: a worker   *)
(* that took the task before stops at its next look at the cancel flag.    *)
(*                                                                         *)
(* Uncancelled: from its last look at the flag to its commit a worker has  *)
(* SQLite's write lock, so that the commit of a cancellation waits; and a  *)
(* chunk retry restores "completed" under the lock that a new flag needs.  *)
(***************************************************************************)
(* Every request between its check and its commit has the lock, and what   *)
(* it requeues still exists.                                               *)
LockedPCs == {"flag", "commit", "claim", "claimed", "settle"}
LockHeld == \A h \in Handlers : handler[h].pc \in LockedPCs => lock = h
RequeuedExists ==
  \A h \in Handlers, t \in Tasks :
    /\ handler[h].task = t
    /\ \/ handler[h].kind \in {"retry", "retranscribe"} /\ handler[h].pc = "commit"
       \/ handler[h].pc = "claim"
    => Exists(t)

ClaimedExisted == \A h \in Handlers : handler[h].kind = "chunks" => handler[h].prev \notin NoRow

StoredFirst ==
  \A w \in Workers, t \in Tasks :
    worker[w].pc \in {"final", "complete"} /\ worker[w].task = t /\ Exists(t) =>
      writer = w \/ transcript[t]

ResultKept ==
  \A h \in Handlers, t \in Tasks :
    /\ handler[h].kind = "chunks" /\ handler[h].task = t /\ handler[h].pc # "finish"
    /\ handler[h].prev = "completed" /\ Exists(t)
    => \/ transcript[t] /\ versioned[t]
       \/ handler[h].pc = "settle" /\ chunks[t] = {"completed"}

Kept == LockHeld /\ RequeuedExists /\ ClaimedExisted /\ StoredFirst /\ ResultKept /\ CompletedHasTranscript

(***************************************************************************)
(* What a step of a worker may change.                                     *)
(***************************************************************************)
WorkerFrame(w) ==
  LET t == worker[w].task IN
  /\ UNCHANGED <<handler, lock>>
  /\ \A v \in Workers \ {w} : worker'[v] = worker[v]
  /\ writer' = writer \/ writer \in {w, NoOne}
  /\ \A s \in Tasks :
       /\ Exists(s)' <=> Exists(s)
       /\ transcript[s] => transcript'[s]
       /\ versioned[s] => versioned'[s]
       /\ chunks'[s] # chunks[s] => WorksOn(w, s)
       /\ status'[s] # status[s] =>
            /\ s = t /\ worker[w].pc \in {"enter", "complete", "record", "bury"}
            /\ worker[w].pc # "enter" => ~Active(s)'
            /\ status'[s] # "absent"
       /\ status'[s] = "completed" /\ status[s] # "completed" =>
            /\ transcript'[s] /\ versioned'[s]
            /\ worker[w].pc = "complete" /\ worker'[w].pc \in {"cleanup", "finish"}

LEMMA RowsUnchanged ==
  ASSUME UNCHANGED db
  PROVE  \A s \in Tasks :
           /\ Exists(s)' <=> Exists(s)
           /\ transcript'[s] = transcript[s] /\ versioned'[s] = versioned[s]
           /\ chunks'[s] = chunks[s] /\ status'[s] = status[s]
  BY DEF db, Exists

LEMMA WorkerStepFrame ==
  ASSUME Typed, Kept, NEW w \in Workers, WorkerStep(w) \/ EscapeRun(w) \/ FailCleanUp(w)
  PROVE  WorkerFrame(w)
<1>1. /\ UNCHANGED <<handler, lock>>
      /\ \A v \in Workers \ {w} : worker'[v] = worker[v]
      /\ writer' = writer \/ writer \in {w, NoOne}
  <2> USE DEF besideWorkers, Step, Raise, Enter, Typed, WorkersTyped
  <2>1. CASE GetTask(w) \/ ReadRow(w) \/ SkipTask(w) \/ ClaimTask(w) \/ StartRun(w) \/ SetTaskState(w)
    BY <2>1 DEF GetTask, ReadRow, SkipTask, ClaimTask, StartRun, SetTaskState
  <2>2. CASE WorkStage(w)
    BY <2>2 DEF WorkStage
  <2>3. CASE SplitChunks(w) \/ CompleteChunk(w) \/ FailTranscription(w) \/ EndTranscription(w)
    BY <2>3 DEF SplitChunks, CompleteChunk, FailTranscription, EndTranscription
  <2>4. CASE RefreshRow(w) \/ StoreSegments(w) \/ FinalCheck(w)
    BY <2>4 DEF RefreshRow, StoreSegments, FinalCheck
  <2>5. CASE CommitCompletion(w) \/ CleanUp(w) \/ HandleError(w)
    BY <2>5 DEF CommitCompletion, CleanUp, HandleError
  <2>6. CASE RecordFailure(w) \/ FinishRun(w) \/ ReadEscaped(w) \/ BuryTask(w) \/ EscapeRun(w)
               \/ FailCleanUp(w)
    BY <2>6 DEF RecordFailure, FinishRun, ReadEscaped, BuryTask, EscapeRun, FailCleanUp
  <2> QED
    BY <2>1, <2>2, <2>3, <2>4, <2>5, <2>6 DEF WorkerStep
<1>2. CASE UNCHANGED db
  BY <1>1, <1>2, RowsUnchanged DEF WorkerFrame
<1>3. PICK t : t = worker[w].task
  OBVIOUS
<1> USE DEF WorkerFrame, WorksOn, Typed, DatabaseTyped, Exists, NoRow, Active, ActiveStatuses, results
<1>4. CASE SetTaskState(w)
  <2>1. worker[w].stage \in Stages
    BY DEF WorkersTyped, WorkerRecords
  <2> QED
    BY <1>1, <1>4, <2>1 DEF SetTaskState, Stages
<1>5. CASE SplitChunks(w) \/ CompleteChunk(w) \/ FailTranscription(w) \/ CleanUp(w)
  BY <1>1, <1>5 DEF SplitChunks, CompleteChunk, FailTranscription, CleanUp
<1>6. CASE StoreSegments(w)
  BY <1>1, <1>6 DEF StoreSegments
<1>7. CASE CommitCompletion(w)
  <2>1. CASE ~Exists(t)
    BY <1>1, <1>3, <1>7, <2>1 DEF CommitCompletion
  <2>2. CASE Exists(t)
    <3>1. /\ status' = [status EXCEPT ![t] = "completed"]
          /\ transcript' = [transcript EXCEPT ![t] = transcript[t] \/ writer = w]
          /\ versioned' = [versioned EXCEPT ![t] = TRUE]
          /\ UNCHANGED chunks /\ worker[w].pc = "complete"
          /\ \E pc \in {"cleanup", "finish"} : Step(w, pc)
      BY <1>3, <1>7, <2>2 DEF CommitCompletion
    <3>2. worker'[w].pc \in {"cleanup", "finish"}
      BY <3>1, StepGoes
    <3>3. t \in Tasks => transcript'[t]
      BY <1>3, <2>2, <3>1 DEF Kept, StoredFirst
    <3> QED
      BY <1>1, <1>3, <2>2, <3>1, <3>2, <3>3
  <2> QED
    BY <2>1, <2>2
<1>8. CASE RecordFailure(w) \/ BuryTask(w)
  <2>1. /\ \/ UNCHANGED status
           \/ ~Exists(t) /\ status' = [status EXCEPT ![t] = status[t]]
           \/ /\ Exists(t)
              /\ \E s \in {"cancelled", "failed"} : status' = [status EXCEPT ![t] = s]
        /\ UNCHANGED <<chunks, transcript, versioned>>
        /\ worker[w].pc \in {"record", "bury"}
    <3>1. CASE BuryTask(w)
      BY <1>3, <3>1 DEF BuryTask
    <3>2. CASE RecordFailure(w) /\ ~Exists(t)
      BY <1>3, <3>2 DEF RecordFailure
    <3>3. CASE RecordFailure(w) /\ Exists(t) /\ worker[w].code = "cancelled"
      BY <1>3, <3>3 DEF RecordFailure
    <3>4. CASE RecordFailure(w) /\ Exists(t) /\ worker[w].code # "cancelled"
      BY <1>3, <3>4 DEF RecordFailure
    <3> QED
      BY <1>8, <3>1, <3>2, <3>3, <3>4
  <2> QED
    BY <1>1, <1>3, <2>1
<1> QED
  BY <1>2, <1>4, <1>5, <1>6, <1>7, <1>8 DEF WorkerStep, GetTask, ReadRow, SkipTask, ClaimTask, StartRun,
     WorkStage, EndTranscription, RefreshRow, FinalCheck, HandleError, FinishRun, ReadEscaped,
     EscapeRun, FailCleanUp, db

LEMMA GetGoes ==
  ASSUME Typed, NEW w \in Workers, GetTask(w)
  PROVE  /\ \A v \in Workers \ {w} : worker'[v] = worker[v]
         /\ worker'[w].pc = "got" /\ worker'[w].task = Head(queue[Serves(w)])
<1>1. PICK id : /\ id = Head(queue[Serves(w)])
                /\ worker' = [worker EXCEPT ![w] = [Workless EXCEPT !.pc = "got", !.task = id]]
  BY Zenon DEF GetTask
<1>2. worker'[w] = [Workless EXCEPT !.pc = "got", !.task = id]
  BY <1>1 DEF Typed, WorkersTyped
<1>3. [Workless EXCEPT !.pc = "got", !.task = id].pc = "got"
  BY DEF Workless
<1>4. [Workless EXCEPT !.pc = "got", !.task = id].task = id
  BY DEF Workless
<1>5. \A v \in Workers \ {w} : worker'[v] = worker[v]
  BY <1>1 DEF Typed, WorkersTyped
<1> QED
  BY <1>1, <1>2, <1>3, <1>4, <1>5, Zenon

LEMMA LeaveGoes ==
  ASSUME Typed, NEW w \in Workers, worker' = [worker EXCEPT ![w] = Workless]
  PROVE  /\ \A v \in Workers \ {w} : worker'[v] = worker[v]
         /\ worker'[w].pc = "idle" /\ worker'[w].task = NoOne
  BY DEF Typed, WorkersTyped, Workless

(* Only these two steps bring a worker to its last commit. *)
LEMMA FinalSteps ==
  ASSUME Typed, NEW w \in Workers, WorkerStep(w) \/ EscapeRun(w) \/ FailCleanUp(w),
         worker'[w].pc \in {"final", "complete"}
  PROVE  StoreSegments(w) \/ FinalCheck(w)
<1>1. CASE GetTask(w) \/ SkipTask(w) \/ FinishRun(w)
  BY <1>1, GetGoes, LeaveGoes DEF SkipTask, FinishRun
<1>2. CASE ReadRow(w) \/ ClaimTask(w) \/ StartRun(w) \/ SetTaskState(w)
  BY <1>2, StepGoes, RaiseGoes, EnterGoes DEF ReadRow, ClaimTask, StartRun, SetTaskState
<1>3. CASE WorkStage(w) \/ SplitChunks(w) \/ FailTranscription(w) \/ EndTranscription(w)
  BY <1>3, StepGoes, RaiseGoes, EnterGoes
  DEF WorkStage, SplitChunks, FailTranscription, EndTranscription
<1>4. CASE CompleteChunk(w)
  BY <1>4 DEF CompleteChunk, besideWorkers
<1>5. CASE RefreshRow(w) \/ CleanUp(w) \/ HandleError(w) \/ RecordFailure(w)
  BY <1>5, StepGoes, RaiseGoes, EnterGoes DEF RefreshRow, CleanUp, HandleError, RecordFailure
<1>6. CASE CommitCompletion(w)
  BY <1>6, StepGoes, RaiseGoes DEF CommitCompletion
<1>7. CASE ReadEscaped(w) \/ BuryTask(w) \/ EscapeRun(w) \/ FailCleanUp(w)
  BY <1>7, StepGoes, RaiseGoes DEF ReadEscaped, BuryTask, EscapeRun, FailCleanUp
<1> QED
  BY <1>1, <1>2, <1>3, <1>4, <1>5, <1>6, <1>7 DEF WorkerStep

(* A worker that gets to its last commit has stored the segments.          *)
LEMMA FinalStored ==
  ASSUME Typed, Kept, NEW w \in Workers, WorkerStep(w) \/ EscapeRun(w) \/ FailCleanUp(w),
         worker'[w].pc \in {"final", "complete"}, NEW t \in Tasks, worker'[w].task = t, Exists(t)'
  PROVE  writer' = w \/ transcript'[t]
<1>1. StoreSegments(w) \/ FinalCheck(w)
  BY FinalSteps
<1>2. CASE StoreSegments(w)
  <2>1. CASE worker'[w].pc = "raise"
    BY <2>1
  <2>2. CASE Step(w, "final")
    BY <1>2, <2>2, StepGoes
    DEF StoreSegments, Typed, DatabaseTyped, WorkersTyped, WorkerRecords, Exists, NoRow
  <2> QED
    BY <1>2, <2>1, <2>2, RaiseGoes DEF StoreSegments
<1>3. CASE FinalCheck(w)
  <2>1. Step(w, "complete") /\ worker[w].pc = "final" /\ UNCHANGED <<db, writer>>
    BY <1>3, RaiseGoes DEF FinalCheck
  <2>2. worker'[w].task = worker[w].task
    BY <2>1, StepGoes
  <2> QED
    BY <2>1, <2>2 DEF Kept, StoredFirst, Exists, db
<1> QED
  BY <1>1, <1>2, <1>3

LEMMA WorkerStepKept ==
  ASSUME Typed, Exclusive, Kept, NEW w \in Workers, WorkerStep(w) \/ EscapeRun(w) \/ FailCleanUp(w)
  PROVE  Kept'
<1>1. WorkerFrame(w)
  BY WorkerStepFrame
<1>2. LockHeld' /\ RequeuedExists' /\ ClaimedExisted'
  BY <1>1 DEF WorkerFrame, Kept, LockHeld, RequeuedExists, ClaimedExisted
<1>3. StoredFirst'
  <2>1. ASSUME NEW v \in Workers, NEW t \in Tasks, v # w,
               worker'[v].pc \in {"final", "complete"}, worker'[v].task = t, Exists(t)'
        PROVE  writer' = v \/ transcript'[t]
    BY <1>1, <2>1, ThreadsAssumption DEF WorkerFrame, Kept, StoredFirst
  <2> QED
    BY <2>1, FinalStored DEF StoredFirst
<1>4. ResultKept'
  <2>1. \A h \in Handlers, t \in Tasks :
          handler[h].kind = "chunks" /\ handler[h].task = t /\ handler[h].pc = "settle" => ~WorksOn(w, t)
    BY DEF Exclusive, OneHolder, Holds, ServesNow
  <2> QED
    BY <1>1, <2>1 DEF WorkerFrame, Kept, ResultKept
<1>5. CompletedHasTranscript'
  BY <1>1 DEF WorkerFrame, Kept, CompletedHasTranscript, Typed, DatabaseTyped
<1> QED
  BY <1>2, <1>3, <1>4, <1>5 DEF Kept

(***************************************************************************)
(* What a step of a request may change in the rows.                        *)
(***************************************************************************)
HandlerRows(h) ==
  \A s \in Tasks :
    /\ Exists(s)' /\ ~Exists(s) => status[s] = "absent"
    /\ Exists(s) /\ ~Exists(s)' => handler[h].pc = "commit"
    /\ transcript[s] /\ ~transcript'[s] =>
         \/ ~Exists(s)'
         \/ /\ handler[h].pc = "commit" /\ handler[h].kind = "retranscribe" /\ handler[h].task = s
            /\ Active(s)'
    /\ versioned[s] /\ ~versioned'[s] => ~Exists(s)'
    /\ chunks'[s] # chunks[s] =>
         handler[h].pc = "commit" \/ (Retries(h, s) /\ handler[h].pc # "settle")
    /\ status'[s] # status[s] =>
         \/ status[s] = "absent" /\ handler[h].pc = "idle" /\ Active(s)'
         \/ handler[h].kind = "reconcile" /\ handler[h].pc = "reap"
         \/ /\ handler[h].task = s
            /\ \/ handler[h].pc = "commit" /\ status'[s] \in {"cancelled", "deleted"}
               \/ handler[h].pc \in {"commit", "claim"} /\ Holds(h, s) /\ Active(s)'
               \/ Retries(h, s) /\ ~Active(s)'
    /\ status'[s] = "completed" /\ status[s] # "completed" =>
         /\ Exists(s)' /\ transcript'[s] /\ versioned'[s]
         /\ Retries(h, s) /\ handler[h].pc = "settle" /\ handler[h].prev = "completed"

LEMMA ChunkKinds ==
  ASSUME Typed, Kinded
  PROVE  \A h \in Handlers :
           handler[h].pc \in RetryPCs \union {"claim", "claimed"} => handler[h].kind = "chunks"
  BY DEF Typed, HandlersTyped, HandlerRecords, Kinds, Kinded, PCsOf, RetryPCs

LEMMA HandlerStepRows ==
  ASSUME Typed, Kinded, Kept, NEW h \in Handlers, NewRequest(h) \/ HandlerStep(h) \/ AbortChunks(h) \/ DropRequest(h)
  PROVE  HandlerRows(h)
<1>0. handler[h].pc \in RetryPCs \union {"claim", "claimed"} => handler[h].kind = "chunks"
  BY ChunkKinds
<1>1. CASE UNCHANGED db
  BY <1>1, RowsUnchanged DEF HandlerRows
<1>2. PICK t : t = handler[h].task
  OBVIOUS
<1> USE DEF HandlerRows, Typed, DatabaseTyped, Exists, NoRow, results
<1>3. CASE \E s \in Tasks : CreateTask(h, s)
  BY <1>3 DEF CreateTask, Begin, Active, ActiveStatuses
<1>4. CASE CommitRequest(h)
  <2>1. CASE CommitCancel(h)
    BY <1>2, <2>1 DEF CommitCancel, At
  <2>2. CASE CommitDelete(h)
    BY <1>2, <2>2 DEF CommitDelete, At
  <2>3. CASE CommitRetry(h) \/ CommitRetranscribe(h)
    BY <1>2, <2>3
    DEF CommitRetry, CommitRetranscribe, At, Kept, RequeuedExists, Holds, ServesNow, Active, ActiveStatuses
  <2>4. CASE CommitReconcile(h)
    BY <1>2, <2>4 DEF CommitReconcile, At, Interrupted
  <2>5. CASE CommitCleanup(h) \/ CommitPostprocess(h)
    BY <1>2, <2>5 DEF CommitCleanup, CommitPostprocess, At
  <2> QED
    BY <1>4, <2>1, <2>2, <2>3, <2>4, <2>5 DEF CommitRequest
<1>5. CASE CommitClaim(h)
  <2>1. t \in Tasks => Exists(t) /\ Holds(h, t)
    BY <1>0, <1>2, <1>5 DEF CommitClaim, Kept, RequeuedExists, Holds, ServesNow
  <2> QED
    BY <1>2, <1>5, <2>1 DEF CommitClaim, Active, ActiveStatuses
<1>6. ASSUME handler[h].pc \in RetryPCs PROVE Retries(h, t)
  BY <1>0, <1>2, <1>6 DEF RetryPCs, Retries
<1>7. CASE AttemptChunk(h)
  <2>1. handler[h].pc = "attempt" /\ Retries(h, t)
    BY <1>6, <1>7 DEF AttemptChunk, RetryPCs
  <2>2. /\ UNCHANGED <<transcript, versioned>>
        /\ \/ UNCHANGED status
           \/ Exists(t) /\ status' = [status EXCEPT ![t] = "failed"]
        /\ UNCHANGED chunks \/ \E c : chunks' = [chunks EXCEPT ![t] = c]
    BY <1>2, <1>7 DEF AttemptChunk
  <2> QED
    BY <1>2, <2>1, <2>2 DEF Active, ActiveStatuses
<1>8. CASE EndChunk(h) \/ KeepChunk(h)
  <2>1. handler[h].pc \in {"chunk", "keep"} /\ Retries(h, t)
    BY <1>6, <1>8 DEF EndChunk, KeepChunk, RetryPCs
  <2>2. /\ UNCHANGED <<transcript, versioned>>
        /\ \/ UNCHANGED status
           \/ Exists(t) /\ \E s \in {"failed", "cancelled"} : status' = [status EXCEPT ![t] = s]
        /\ UNCHANGED chunks \/ \E c : chunks' = [chunks EXCEPT ![t] = c]
    BY <1>2, <1>8 DEF EndChunk, KeepChunk
  <2> QED
    BY <1>2, <2>1, <2>2 DEF Active, ActiveStatuses
<1>9. CASE SettleChunks(h)
  <2>1. handler[h].pc = "settle" /\ Retries(h, t) /\ handler[h].kind = "chunks"
    BY <1>0, <1>6, <1>9 DEF SettleChunks, RetryPCs
  <2>2. handler[h].prev \notin ActiveStatuses
    BY <2>1 DEF Kinded
  <2>3. CASE ~Exists(t)
    BY <1>2, <1>9, <2>3 DEF SettleChunks
  <2>4. CASE Exists(t)
    <3>1. /\ status' = [status EXCEPT ![t] = handler[h].prev]
          /\ UNCHANGED chunks
          /\ \E m \in BOOLEAN :
               /\ m <=> handler[h].prev = "completed" /\ chunks[t] = {"completed"}
               /\ transcript' = [transcript EXCEPT ![t] = @ \/ m]
               /\ versioned' = [versioned EXCEPT ![t] = @ \/ m]
      BY <1>2, <1>9, <2>4 DEF SettleChunks
    <3>2. t \in Tasks /\ handler[h].prev = "completed" => transcript'[t] /\ versioned'[t]
      BY <1>2, <2>1, <2>4, <3>1 DEF Kept, ResultKept
    <3>3. handler[h].prev \notin NoRow
      BY <2>1 DEF Kept, ClaimedExisted
    <3> QED
      BY <1>2, <2>1, <2>2, <2>4, <3>1, <3>2, <3>3 DEF Active
  <2> QED
    BY <2>3, <2>4
<1>10. CASE AbortChunks(h)
  <2>1. handler[h].pc \in {"attempt", "chunk", "keep", "settle"} /\ Retries(h, t)
    BY <1>6, <1>10 DEF AbortChunks, RetryPCs
  <2> QED
    BY <1>2, <1>10, <2>1 DEF AbortChunks, Active, ActiveStatuses
<1> QED
  BY <1>1, <1>3, <1>4, <1>5, <1>7, <1>8, <1>9, <1>10
  DEF NewRequest, HandlerStep, CancelTask, DeleteTask, RequeueTask, MutateTask, ClaimChunks, BeginLocked,
      ReconcileOrphans, StartTask, PutTask, FlagTask, ScanRows, MarkClaim, GatherChunks, FinishChunks,
      DropRequest, db

(***************************************************************************)
(* What it may change in its own record: it begins, goes on or is done.    *)
(***************************************************************************)
Begins(h) ==
  LET n == handler'[h] IN
  /\ handler[h].pc = "idle" /\ n.kind \in Requests /\ UNCHANGED runtimeVars
  /\ \/ /\ n.kind = "create" /\ n.pc = "mark" /\ UNCHANGED lock
        /\ \E t \in Tasks : n.task = t /\ Active(t)'
     \/ n.kind = "reconcile" /\ n.pc = "scan" /\ UNCHANGED lock
     \/ /\ UNCHANGED db /\ lock = NoOne /\ lock' = h
        /\ n.pc \in {"flag", "commit", "claim"} /\ n.task \in Tasks /\ Exists(n.task)
        /\ n.kind # "cancel" => NotActive(n.task)
        /\ n.kind \in {"retry", "retranscribe", "chunks"} => MayRequeue(n.task)
        /\ n.kind = "chunks" => n.pc = "claim" /\ n.prev = status[n.task]

GoesOn(h) ==
  LET r == handler[h]
      n == handler'[h]
  IN
  /\ r.pc \notin {"idle", "finish"} /\ n.pc \notin {"idle", "claim"} /\ n.kind = r.kind /\ n.task = r.task
  /\ n.pc = "commit" => r.pc = "flag"
  /\ n.pc \in LockedPCs => lock' = h
  /\ r.pc = "settle" => n.pc = "finish"
  /\ n.prev # r.prev => n.pc = "settle"
  /\ n.pc = "settle" =>
       /\ r.pc = "attempt" /\ UNCHANGED db
       /\ \/ n.prev \in {r.prev, "cancelled"}
          \/ n.prev = "completed" /\ chunks[r.task] = {"completed"}
       /\ n.prev = "cancelled" \/ r.task \notin cancelledIds

IsDone(h) == handler[h].pc # "idle" /\ handler'[h].pc = "idle" /\ handler'[h].kind = "create"

HandlerThread(h) ==
  /\ UNCHANGED <<worker, writer>>
  /\ \A g \in Handlers \ {h} : handler'[g] = handler[g]
  /\ lock' = lock \/ lock \in {h, NoOne}
  /\ Begins(h) \/ GoesOn(h) \/ IsDone(h)

LEMMA RecordBegins ==
  ASSUME Typed, NEW h \in Handlers, NEW kind, NEW t, NEW pc, Begin(h, kind, t, pc)
  PROVE  /\ \A g \in Handlers \ {h} : handler'[g] = handler[g]
         /\ handler[h].pc = "idle" /\ kind \in Requests
         /\ handler'[h].kind = kind /\ handler'[h].task = t /\ handler'[h].pc = pc
<1>1. PICK r : r = [Idle EXCEPT !.kind = kind, !.task = t, !.pc = pc]
  OBVIOUS
<1>2. r.kind = kind /\ r.task = t /\ r.pc = pc
  BY <1>1 DEF Idle
<1>3. handler' = [handler EXCEPT ![h] = r]
  BY <1>1 DEF Begin
<1> QED
  BY <1>2, <1>3 DEF Begin, Typed, HandlersTyped

LEMMA DoneThread ==
  ASSUME Typed, NEW h \in Handlers, handler[h].pc # "idle", Done(h)
  PROVE  (\A g \in Handlers \ {h} : handler'[g] = handler[g]) /\ IsDone(h)
  BY DEF Typed, HandlersTyped, Done, Idle, IsDone

(* A step that leaves kind, task and claim alone. *)
LEMMA GotoThread ==
  ASSUME Typed, NEW h \in Handlers, handler[h].pc \notin {"idle", "finish"}, NEW pc, Goto(h, pc),
         pc \notin {"idle", "claim", "settle"}, handler[h].pc = "settle" => pc = "finish", pc = "commit" => handler[h].pc = "flag",
         pc \in LockedPCs => lock' = h
  PROVE  (\A g \in Handlers \ {h} : handler'[g] = handler[g]) /\ GoesOn(h)
<1>1. /\ handler'[h].pc = pc /\ handler'[h].kind = handler[h].kind
      /\ handler'[h].task = handler[h].task /\ handler'[h].prev = handler[h].prev
      /\ \A g \in Handlers \ {h} : handler'[g] = handler[g]
  BY DEF Typed, HandlersTyped, HandlerRecords, Goto
<1> QED
  BY <1>1 DEF GoesOn

LEMMA NewRequestThread ==
  ASSUME Typed, NEW h \in Handlers, NewRequest(h)
  PROVE  HandlerThread(h)
<1>1. ASSUME NEW t \in Tasks, CreateTask(h, t) PROVE HandlerThread(h)
  <2>1. Active(t)'
    <3>1. PICK s \in {"queued", "importing"} : status' = [status EXCEPT ![t] = s]
      BY <1>1 DEF CreateTask
    <3> QED
      BY <3>1 DEF Active, ActiveStatuses, Typed, DatabaseTyped
  <2>2. Begin(h, "create", t, "mark") /\ UNCHANGED <<worker, writer, lock, runtimeVars>>
    BY <1>1 DEF CreateTask
  <2> QED
    BY <2>1, <2>2, RecordBegins DEF HandlerThread, Begins
<1>2. ASSUME NEW t \in Tasks, NEW kind, NEW pc, BeginLocked(h, kind, t, pc), Exists(t),
             kind # "cancel" => NotActive(t),
             kind \in {"retry", "retranscribe"} => MayRequeue(t),
             pc \in {"flag", "commit"}, kind # "chunks"
      PROVE  HandlerThread(h)
  <2>1. Begin(h, kind, t, pc)
    BY <1>2 DEF BeginLocked
  <2> QED
    BY <1>2, <2>1, RecordBegins DEF BeginLocked, HandlerThread, Begins
<1>3. \A t \in Tasks : NotActive(t) => Exists(t)
  BY DEF NotActive
<1>4. CASE \E t \in Tasks : CancelTask(h, t) \/ DeleteTask(h, t)
  BY <1>2, <1>3, <1>4 DEF CancelTask, DeleteTask
<1>5. CASE \E t \in Tasks : \E kind \in {"retry", "retranscribe"} : RequeueTask(h, t, kind)
  BY <1>2, <1>3, <1>5 DEF RequeueTask
<1>6. CASE \E t \in Tasks : \E kind \in {"cleanup", "postprocess"} : MutateTask(h, t, kind)
  BY <1>2, <1>3, <1>6 DEF MutateTask
<1>7. ASSUME NEW t \in Tasks, ClaimChunks(h, t) PROVE HandlerThread(h)
  <2>1. PICK r : \E n \in 1 .. MaxRetried :
          /\ r = [Idle EXCEPT !.kind = "chunks", !.task = t, !.pc = "claim", !.left = n, !.prev = status[t]]
          /\ handler' = [handler EXCEPT ![h] = r]
    BY <1>7 DEF ClaimChunks
  <2>2. r.kind = "chunks" /\ r.task = t /\ r.pc = "claim" /\ r.prev = status[t]
    BY <2>1 DEF Idle
  <2>3. handler'[h] = r /\ \A g \in Handlers \ {h} : handler'[g] = handler[g]
    BY <2>1 DEF Typed, HandlersTyped
  <2> QED
    BY <1>3, <1>7, <2>2, <2>3 DEF ClaimChunks, HandlerThread, Begins
<1>8. CASE ReconcileOrphans(h)
  <2>1. PICK r : /\ r = [Idle EXCEPT !.kind = "reconcile", !.pc = "scan", !.seen = ActiveIds]
                 /\ handler' = [handler EXCEPT ![h] = r]
    BY <1>8 DEF ReconcileOrphans
  <2>2. r.kind = "reconcile" /\ r.pc = "scan"
    BY <2>1 DEF Idle
  <2>3. handler'[h] = r /\ \A g \in Handlers \ {h} : handler'[g] = handler[g]
    BY <2>1 DEF Typed, HandlersTyped
  <2> QED
    BY <1>8, <2>2, <2>3 DEF ReconcileOrphans, HandlerThread, Begins
<1> QED
  BY <1>1, <1>4, <1>5, <1>6, <1>7, <1>8 DEF NewRequest

LEMMA HandlerStepThread ==
  ASSUME Typed, Kept, NEW h \in Handlers, HandlerStep(h) \/ AbortChunks(h) \/ DropRequest(h)
  PROVE  HandlerThread(h)
<1> USE DEF HandlerThread, LockedPCs
<1>1. \A pc : handler[h].pc \in LockedPCs => lock = h
  BY DEF Kept, LockHeld
<1>2. Release(h) => lock' = lock \/ lock = h
  BY DEF Release
<1>3. CASE StartTask(h) \/ PutTask(h)
  BY <1>2, <1>3, DoneThread, GotoThread DEF StartTask, PutTask
<1>4. CASE FlagTask(h)
  BY <1>1, <1>4, GotoThread DEF FlagTask
<1>5. CASE ScanRows(h)
  <2>1. CASE Done(h)
    BY <1>5, <2>1, DoneThread DEF ScanRows, besideHandlers
  <2>2. CASE ~Done(h)
    <3>1. PICK seen : handler' = [handler EXCEPT ![h] = [@ EXCEPT !.pc = "reap", !.seen = seen]]
      BY <1>5, <2>2 DEF ScanRows
    <3>2. /\ handler'[h].pc = "reap" /\ handler'[h].kind = handler[h].kind
          /\ handler'[h].task = handler[h].task /\ handler'[h].prev = handler[h].prev
          /\ \A g \in Handlers \ {h} : handler'[g] = handler[g]
      BY <3>1 DEF Typed, HandlersTyped, HandlerRecords
    <3> QED
      BY <1>5, <3>2 DEF ScanRows, besideHandlers, GoesOn
  <2> QED
    BY <2>1, <2>2
<1>6. CASE CommitRequest(h)
  <2>1. CASE CommitRetry(h) \/ CommitRetranscribe(h)
    BY <1>6, <2>1, GotoThread DEF CommitRequest, CommitRetry, CommitRetranscribe, At
  <2>2. CASE ~CommitRetry(h) /\ ~CommitRetranscribe(h)
    BY <1>2, <1>6, <2>2, DoneThread
    DEF CommitRequest, CommitCancel, CommitDelete, CommitReconcile, CommitCleanup, CommitPostprocess, At
  <2> QED
    BY <2>1, <2>2
<1>7. CASE CommitClaim(h)
  BY <1>1, <1>7, GotoThread DEF CommitClaim, besideHandlers
<1>8. CASE MarkClaim(h) \/ KeepChunk(h)
  BY <1>2, <1>8, GotoThread DEF MarkClaim, KeepChunk, besideHandlers
<1>9. CASE AttemptChunk(h)
  <2>1. ASSUME NEW n, handler' = [handler EXCEPT ![h] = [@ EXCEPT !.left = n, !.ok = FALSE]]
        PROVE  /\ handler'[h].pc = handler[h].pc /\ handler'[h].kind = handler[h].kind
               /\ handler'[h].task = handler[h].task /\ handler'[h].prev = handler[h].prev
               /\ \A g \in Handlers \ {h} : handler'[g] = handler[g]
    BY <2>1 DEF Typed, HandlersTyped, HandlerRecords
  <2>2. ASSUME NEW n, NEW rest,
               handler' = [handler EXCEPT ![h] = [@ EXCEPT !.pc = "chunk", !.rest = rest, !.left = n]]
        PROVE  /\ handler'[h].pc = "chunk" /\ handler'[h].kind = handler[h].kind
               /\ handler'[h].task = handler[h].task /\ handler'[h].prev = handler[h].prev
               /\ \A g \in Handlers \ {h} : handler'[g] = handler[g]
    BY <2>2 DEF Typed, HandlersTyped, HandlerRecords
  <2>3. /\ handler[h].pc = "attempt" /\ UNCHANGED <<worker, writer, lock>>
        /\ \/ handler' = [handler EXCEPT ![h] = [@ EXCEPT !.left = handler[h].left - 1, !.ok = FALSE]]
           \/ \E rest : handler' = [handler EXCEPT ![h] = [@ EXCEPT !.pc = "chunk", !.rest = rest,
                                                                 !.left = handler[h].left - 1]]
    BY <1>9, Zenon DEF AttemptChunk, besideHandlers
  <2>4. /\ handler'[h].pc \in {"attempt", "chunk"} /\ handler'[h].kind = handler[h].kind
        /\ handler'[h].task = handler[h].task /\ handler'[h].prev = handler[h].prev
        /\ \A g \in Handlers \ {h} : handler'[g] = handler[g]
    BY <2>1, <2>2, <2>3
  <2> QED
    BY <2>3, <2>4 DEF GoesOn
<1>10. CASE EndChunk(h)
  <2>1. CASE Goto(h, "keep")
    BY <1>10, <2>1, GotoThread DEF EndChunk, besideHandlers
  <2>2. CASE handler' = [handler EXCEPT ![h] = [@ EXCEPT !.pc = "attempt", !.ok = FALSE]]
    <3>1. /\ handler'[h].pc = "attempt" /\ handler'[h].kind = handler[h].kind
          /\ handler'[h].task = handler[h].task /\ handler'[h].prev = handler[h].prev
          /\ \A g \in Handlers \ {h} : handler'[g] = handler[g]
      BY <2>2 DEF Typed, HandlersTyped, HandlerRecords
    <3> QED
      BY <1>10, <3>1 DEF EndChunk, besideHandlers, GoesOn
  <2> QED
    BY <1>10, <2>1, <2>2 DEF EndChunk
<1>11. CASE GatherChunks(h)
  <2>1. CASE Goto(h, "finish") /\ UNCHANGED lock
    BY <1>11, <2>1, GotoThread DEF GatherChunks
  <2>2. CASE \E s \in {handler[h].prev, "cancelled", "completed"} :
               /\ handler' = [handler EXCEPT ![h] = [@ EXCEPT !.pc = "settle", !.prev = s]]
               /\ s = "completed" => s = handler[h].prev \/ chunks[handler[h].task] = {"completed"}
               /\ s = "cancelled" \/ handler[h].task \notin cancelledIds
               /\ lock' = h
    <3>1. PICK s \in {handler[h].prev, "cancelled", "completed"} :
               /\ handler' = [handler EXCEPT ![h] = [@ EXCEPT !.pc = "settle", !.prev = s]]
               /\ s = "completed" => s = handler[h].prev \/ chunks[handler[h].task] = {"completed"}
               /\ s = "cancelled" \/ handler[h].task \notin cancelledIds
      BY <2>2
    <3>2. /\ handler'[h].pc = "settle" /\ handler'[h].kind = handler[h].kind
          /\ handler'[h].task = handler[h].task /\ handler'[h].prev = s
          /\ \A g \in Handlers \ {h} : handler'[g] = handler[g]
      BY <3>1 DEF Typed, HandlersTyped, HandlerRecords
    <3>3. handler[h].pc = "attempt" /\ lock = NoOne /\ UNCHANGED <<db, worker, writer>>
      BY <1>11 DEF GatherChunks
    <3>4. UNCHANGED <<worker, writer>> /\ lock' = h /\ handler[h].task = handler'[h].task
      BY <2>2, <3>2, <3>3
    <3>5. GoesOn(h)
      BY <3>1, <3>2, <3>3, <3>4 DEF GoesOn
    <3> QED
      BY <3>2, <3>3, <3>5
  <2> QED
    BY <1>11, <2>1, <2>2 DEF GatherChunks, IsCancelled
<1>12. CASE SettleChunks(h) \/ AbortChunks(h)
  BY <1>2, <1>12, GotoThread DEF SettleChunks, AbortChunks
<1>13. CASE FinishChunks(h) \/ DropRequest(h)
  BY <1>2, <1>13, DoneThread DEF FinishChunks, DropRequest
<1> QED
  BY <1>3, <1>4, <1>5, <1>6, <1>7, <1>8, <1>9, <1>10, <1>11, <1>12, <1>13 DEF HandlerStep

LEMMA HandlerStepKept ==
  ASSUME Typed, Kinded, Exclusive, Kept,
         NEW h \in Handlers, NewRequest(h) \/ HandlerStep(h) \/ AbortChunks(h) \/ DropRequest(h)
  PROVE  Kept'
<1>1. HandlerRows(h) /\ HandlerThread(h)
  BY HandlerStepRows, HandlerStepThread, NewRequestThread
<1>2. LockHeld'
  BY <1>1, ThreadsAssumption DEF HandlerThread, Begins, GoesOn, IsDone, Kept, LockHeld, LockedPCs
<1>3. \A g \in Handlers :
        /\ handler[g].kind = "chunks" => handler[g].pc \in RetryPCs \union {"claim", "claimed"}
        /\ handler[g].kind \in {"retry", "retranscribe"} => handler[g].pc \in {"commit", "mark", "put"}
  BY DEF Kinded, PCsOf, RetryPCs
<1>4. RequeuedExists'
  <2>1. ASSUME NEW g \in Handlers, NEW t \in Tasks, g # h, handler[g].pc \in {"commit", "claim"}, Exists(t)
        PROVE  Exists(t)'
    BY <1>1, <2>1 DEF HandlerRows, Kept, LockHeld, LockedPCs
  <2>2. ASSUME NEW g \in Handlers, NEW t \in Tasks, g # h, handler[g].task = t,
               \/ handler[g].kind \in {"retry", "retranscribe"} /\ handler[g].pc = "commit"
               \/ handler[g].pc = "claim"
        PROVE  Exists(t)'
    BY <2>1, <2>2 DEF Kept, RequeuedExists
  <2>3. ASSUME NEW t \in Tasks, handler'[h].task = t,
               \/ handler'[h].kind \in {"retry", "retranscribe"} /\ handler'[h].pc = "commit"
               \/ handler'[h].pc = "claim"
        PROVE  Exists(t)'
    <3>1. UNCHANGED db /\ Exists(t)
      BY <1>1, <1>3, <2>3 DEF HandlerThread, Begins, GoesOn, IsDone
    <3> QED
      BY <3>1, RowsUnchanged
  <2> QED
    BY <1>1, <2>2, <2>3 DEF HandlerThread, RequeuedExists
<1>5. ClaimedExisted'
  BY <1>1 DEF HandlerThread, Begins, GoesOn, IsDone, Kept, ClaimedExisted, Exists, NoRow
<1>6. StoredFirst'
  <2>1. ASSUME NEW w \in Workers, NEW t \in Tasks, WorksOn(w, t), Exists(t)'
        PROVE  Exists(t) /\ (transcript[t] => transcript'[t])
    BY <1>1, <2>1 DEF HandlerRows, Exclusive, HeldExists, OneHolder, Holds, ServesNow
  <2> QED
    BY <1>1, <2>1 DEF HandlerThread, WorksOn, Kept, StoredFirst
<1>7. \A g \in Handlers, t \in Tasks :
        handler[g].kind = "chunks" /\ handler[g].task = t => Holds(g, t)
  BY <1>3 DEF Holds, ServesNow, RetryPCs
<1>8. ASSUME NEW g \in Handlers, NEW t \in Tasks, handler[g].kind = "chunks", handler[g].task = t, Exists(t)'
      PROVE  Exists(t) /\ (transcript[t] /\ versioned[t] => transcript'[t] /\ versioned'[t])
  BY <1>1, <1>7, <1>8 DEF HandlerRows, Exclusive, HeldExists, OneHolder, Holds, ServesNow
<1>9. ResultKept'
  <2>1. ASSUME NEW g \in Handlers, NEW t \in Tasks, g # h, handler[g].kind = "chunks", handler[g].task = t,
               handler[g].pc = "settle"
        PROVE  chunks'[t] = chunks[t]
    <3>1. handler[h].pc # "commit"
      BY <2>1 DEF Kept, LockHeld, LockedPCs
    <3>2. ~Retries(h, t)
      BY <1>7, <2>1 DEF Retries, Exclusive, OneHolder
    <3> QED
      BY <1>1, <3>1, <3>2 DEF HandlerRows
  <2>2. ASSUME NEW g \in Handlers, NEW t \in Tasks, g # h, handler[g].kind = "chunks", handler[g].task = t,
               handler[g].pc # "finish", handler[g].prev = "completed", Exists(t)'
        PROVE  \/ transcript'[t] /\ versioned'[t]
               \/ handler[g].pc = "settle" /\ chunks'[t] = {"completed"}
    BY <1>8, <2>1, <2>2 DEF Kept, ResultKept
  <2>3. ASSUME NEW t \in Tasks, handler'[h].kind = "chunks", handler'[h].task = t,
               handler'[h].pc # "finish", handler'[h].prev = "completed", Exists(t)'
        PROVE  \/ transcript'[t] /\ versioned'[t]
               \/ handler'[h].pc = "settle" /\ chunks'[t] = {"completed"}
    <3>1. CASE Begins(h)
      <4>1. UNCHANGED db /\ status[t] = "completed"
        BY <2>3, <3>1 DEF Begins
      <4> QED
        BY <4>1 DEF db, Kept, CompletedHasTranscript
    <3>2. CASE GoesOn(h) /\ handler[h].prev = "completed"
      <4>1. transcript[t] /\ versioned[t]
        BY <1>8, <2>3, <3>2 DEF GoesOn, Kept, ResultKept
      <4> QED
        BY <1>8, <2>3, <3>2, <4>1 DEF GoesOn
    <3>3. CASE GoesOn(h) /\ handler[h].prev # "completed"
      BY <2>3, <3>3 DEF GoesOn, db
    <3> QED
      BY <1>1, <2>3, <3>1, <3>2, <3>3 DEF HandlerThread, IsDone
  <2> QED
    BY <1>1, <2>2, <2>3 DEF HandlerThread, ResultKept
<1>10. CompletedHasTranscript'
  <2>1. \A t \in Tasks : status'[t] = "completed" => Exists(t)' /\ ~Active(t)'
    BY DEF Exists, NoRow, Active, ActiveStatuses
  <2> QED
    BY <1>1, <2>1 DEF HandlerRows, Kept, CompletedHasTranscript, Typed, DatabaseTyped
<1> QED
  BY <1>2, <1>4, <1>5, <1>6, <1>9, <1>10 DEF Kept

LEMMA KeptHolds ==
  ASSUME RetryAfterDrain
  PROVE  Spec => []Kept
<1>1. Init => Kept
  BY DEF Init, Idle, Workless, Kept, LockHeld, LockedPCs, RequeuedExists, ClaimedExisted, StoredFirst,
     ResultKept, CompletedHasTranscript
<1>2. ASSUME Typed, Kinded, Exclusive, Kept, [Next]_vars
      PROVE  Kept'
  <2>1. CASE UNCHANGED vars
    BY <1>2, <2>1 DEF vars, Exists, Kept, LockHeld, LockedPCs, RequeuedExists, ClaimedExisted, StoredFirst,
       ResultKept, CompletedHasTranscript
  <2>2. CASE Restart
    <3>1. /\ handler' = [h \in Handlers |-> Idle] /\ worker' = [w \in Workers |-> Workless]
          /\ UNCHANGED <<transcript, versioned>>
          /\ \A t \in Tasks : status'[t] = "completed" => status[t] = "completed"
      BY <2>2 DEF Restart, results, Interrupted
    <3> QED
      BY <1>2, <3>1 DEF Idle, Workless, Kept, LockHeld, LockedPCs, RequeuedExists, ClaimedExisted, StoredFirst,
         ResultKept, CompletedHasTranscript
  <2> QED
    BY <1>2, <2>1, <2>2, HandlerStepKept, WorkerStepKept DEF Next
<1> QED
  BY <1>1, <1>2, TypedHolds, KindedHolds, ExclusiveHolds, PTL DEF Spec

(* A completed task has its transcript and a version of it (run_task's     *)
(* completion commit, retranscribe_task, the settlement of a chunk retry). *)
THEOREM CompletedHasTranscriptHolds ==
  ASSUME RetryAfterDrain
  PROVE  Spec => []CompletedHasTranscript
<1>1. Kept => CompletedHasTranscript
  BY DEF Kept
<1> QED
  BY <1>1, KeptHolds, PTL

(***************************************************************************)
(* Untouched.                                                              *)
(***************************************************************************)
Undone(t) == status[t] \in ActiveStatuses \union {"cancelled", "deleted"}
Enlisted(t) == t \in queuedIds \union cancelledIds

(* A task waits to be executed, and the registry has to know it. *)
Listed(t) ==
  \/ Entries(t) # {}
  \/ \E h \in Handlers : Puts(h, t)
  \/ \E w \in Workers : worker[w].pc \in {"got", "claim"} /\ worker[w].task = t
Awaited(t) ==
  \/ Listed(t)
  \/ \E h \in Handlers : Requeues(h, t)
  \/ \E w \in Workers : worker[w].pc = "start" /\ worker[w].task = t

AwaitedUndone == \A t \in Tasks : Awaited(t) => Undone(t)
ListedEnlisted == \A t \in Tasks : Listed(t) => Enlisted(t)

(* A worker whose error comes from the cleanup behind its completion. *)
PastCompletion(w) ==
  worker[w].code = "followup" /\ worker[w].pc \in {"raise", "record", "escaped"}

UnfinishedRow ==
  \A w \in Workers, t \in Tasks :
    WorksOn(w, t) /\ worker[w].pc \notin {"skip", "cleanup", "finish"} /\ ~PastCompletion(w) =>
      status[t] # "completed"

(* A request that removes rows of a task it found inactive. *)
Pending(h, t) ==
  /\ handler[h].kind \in {"delete", "cleanup", "postprocess"}
  /\ handler[h].pc \in {"flag", "commit"} /\ handler[h].task = t

(* A worker that changes no row of the task before it looks at the cancel  *)
(* flag, and finds it set.                                                 *)
Passes(w, t) ==
  \/ worker[w].pc \in {"got", "skip", "finish", "escaped", "bury"}
  \/ worker[w].pc \in {"claim", "start"} /\ t \in cancelledIds

PendingAlone ==
  \A h \in Handlers, t \in Tasks : Pending(h, t) =>
    /\ status[t] # "absent" /\ ~Active(t)
    /\ \A g \in Handlers : handler[g].kind = "chunks" => handler[g].task # t
    /\ \A w \in Workers : WorksOn(w, t) => Passes(w, t)

NoReconcile == \A h \in Handlers : handler[h].kind # "reconcile"

Untouched == AwaitedUndone /\ ListedEnlisted /\ UnfinishedRow /\ PendingAlone /\ NoReconcile

LEMMA WaitsAlone ==
  ASSUME Exclusive, NEW t \in Tasks
  PROVE  /\ Entries(t) # {} => (\A w \in Workers : ~WorksOn(w, t)) /\ (\A h \in Handlers : ~Holds(h, t))
         /\ \A v, w \in Workers : WorksOn(v, t) /\ WorksOn(w, t) => v = w
         /\ \A g, h \in Handlers : Holds(g, t) /\ Holds(h, t) => g = h
         /\ \A w \in Workers, h \in Handlers : ~(WorksOn(w, t) /\ Holds(h, t))
  BY DEF Exclusive, OneHolder, Entries

LEMMA HoldersByKind ==
  ASSUME Typed, Kinded, NEW h \in Handlers, NEW t
  PROVE  /\ Puts(h, t) \/ Requeues(h, t) => Holds(h, t) /\ handler[h].kind # "chunks"
         /\ handler[h].kind = "chunks" /\ handler[h].task = t =>
              /\ Holds(h, t)
              /\ Retries(h, t) \/ handler[h].pc \in {"claim", "claimed"}
<1>1. handler[h].pc \in {"mark", "put"} => handler[h].kind \in {"create", "retry", "retranscribe"}
  BY DEF Typed, HandlersTyped, HandlerRecords, Kinds, Kinded, PCsOf
<1>2. handler[h].kind = "chunks" => handler[h].pc \in RetryPCs \union {"claim", "claimed"}
  BY DEF Kinded, PCsOf, RetryPCs
<1> QED
  BY <1>1, <1>2 DEF Puts, Requeues, Holds, ServesNow, Retries, RetryPCs

(***************************************************************************)
(* What a step of a worker does to its own record and to the registry.     *)
(***************************************************************************)
SameEntry(s) ==
  (s \in queuedIds' <=> s \in queuedIds) /\ (s \in cancelledIds' <=> s \in cancelledIds)

WorkerPath(w) ==
  LET r == worker[w]
      n == worker'[w]
      t == worker[w].task
  IN
  /\ \/ /\ r.pc = "idle" /\ n.pc = "got" /\ n.task \in Tasks /\ Entries(n.task) # {}
        /\ \A s \in Tasks : Entries(s)' \subseteq Entries(s)
     \/ r.pc \in {"skip", "finish"} /\ n.pc = "idle" /\ UNCHANGED queue
     \/ /\ r.pc \notin {"idle", "skip", "finish"} /\ n.pc \notin {"idle", "got"} /\ n.task = t
        /\ UNCHANGED queue
        /\ n.pc = "claim" => r.pc = "got" /\ Exists(t) /\ status[t] # "cancelled"
        /\ n.pc = "start" => r.pc = "claim"
        /\ r.pc = "got" => n.pc \in {"claim", "skip"}
        /\ r.pc = "claim" => n.pc = "start"
        /\ r.pc = "start" => n.pc = "finish" \/ t \notin cancelledIds
        /\ r.pc = "cleanup" => n.pc = "finish" \/ (n.pc = "raise" /\ n.code = "followup")
        /\ r.pc \in {"raise", "record"} =>
             n.pc \in {"record", "finish", "escaped"} /\ n.code = r.code
        /\ r.pc = "escaped" => n.pc = "skip" \/ (n.pc = "bury" /\ Active(t))
        /\ r.pc = "bury" => n.pc = "skip"
  /\ \A s \in Tasks :
       /\ s # t \/ r.pc \in {"idle", "got"} => SameEntry(s)
       /\ r.pc \in {"claim", "start", "escaped", "bury"} => (s \in cancelledIds' <=> s \in cancelledIds)
       /\ s \in cancelledIds' => s \in cancelledIds
       /\ Active(s)' /\ ~Active(s) => s = t /\ r.pc = "enter"

LEMMA StepCode ==
  ASSUME Typed, NEW w \in Workers, NEW pc, Step(w, pc)
  PROVE  worker'[w].code = worker[w].code
  BY DEF Typed, WorkersTyped, WorkerRecords, Step

LEMMA RaiseCode ==
  ASSUME Typed, NEW w \in Workers, NEW code, Raise(w, code)
  PROVE  worker'[w].code = code
  BY DEF Typed, WorkersTyped, WorkerRecords, Raise

LEMMA MarkedFinished ==
  ASSUME NEW t, MarkFinished(t)
  PROVE  \A s : (s # t => SameEntry(s)) /\ (s \in cancelledIds' => s \in cancelledIds)
  BY DEF MarkFinished, SameEntry

LEMMA WorkerStepPath ==
  ASSUME Typed, Exclusive, Kept, NEW w \in Workers, WorkerStep(w) \/ EscapeRun(w) \/ FailCleanUp(w)
  PROVE  WorkerPath(w)
<1>1. \A s \in Tasks : Active(s)' /\ ~Active(s) => s = worker[w].task /\ worker[w].pc = "enter"
  BY WorkerStepFrame DEF WorkerFrame, Active
<1> USE <1>1 DEF WorkerPath, SameEntry
<1>2. CASE GetTask(w)
  <2>1. PICK q \in Queues : /\ queue[q] # <<>> /\ worker'[w].task = Head(queue[q])
                            /\ queue' = [queue EXCEPT ![q] = Tail(@)]
    BY <1>2, GetGoes DEF GetTask, Serves, Queues
  <2>2. /\ Head(queue[q]) = queue[q][1] /\ 1 \in DOMAIN queue[q] /\ queue[q] \in Seq(Tasks)
        /\ \A i \in DOMAIN Tail(queue[q]) : i + 1 \in DOMAIN queue[q] /\ Tail(queue[q])[i] = queue[q][i + 1]
    BY <2>1 DEF Typed, ProcessTyped
  <2>3. Head(queue[q]) \in Tasks /\ Entries(Head(queue[q])) # {}
    BY <2>2 DEF Entries
  <2>4. \A s \in Tasks : Entries(s)' \subseteq Entries(s)
    BY <2>1, <2>2 DEF Entries, Typed, ProcessTyped
  <2> QED
    BY <1>2, <2>1, <2>3, <2>4, GetGoes DEF GetTask, runtimeVars
<1>3. CASE SkipTask(w) \/ FinishRun(w)
  BY <1>3, LeaveGoes, MarkedFinished DEF SkipTask, FinishRun
<1>4. CASE ReadRow(w)
  BY <1>4, StepGoes DEF ReadRow, besideWorkers, runtimeVars
<1>5. CASE ClaimTask(w)
  BY <1>5, StepGoes DEF ClaimTask, MarkRunning
<1>6. CASE StartRun(w)
  BY <1>6, StepGoes, EnterGoes DEF StartRun, IsCancelled, besideWorkers, runtimeVars
<1>7. CASE SetTaskState(w) \/ WorkStage(w)
  BY <1>7, StepGoes, RaiseGoes, EnterGoes DEF SetTaskState, WorkStage, besideWorkers, runtimeVars
<1>8. CASE SplitChunks(w) \/ CompleteChunk(w) \/ FailTranscription(w) \/ EndTranscription(w)
  BY <1>8, StepGoes, RaiseGoes
  DEF SplitChunks, CompleteChunk, FailTranscription, EndTranscription, besideWorkers, runtimeVars
<1>9. CASE RefreshRow(w) \/ StoreSegments(w) \/ FinalCheck(w) \/ CommitCompletion(w)
  BY <1>9, StepGoes, RaiseGoes, EnterGoes
  DEF RefreshRow, StoreSegments, FinalCheck, CommitCompletion, besideWorkers, runtimeVars
<1>10. CASE CleanUp(w) \/ HandleError(w) \/ RecordFailure(w)
  <2>1. PICK pc \in {"finish", "record"} :
          /\ Step(w, pc) /\ worker[w].pc \in {"cleanup", "raise", "record"}
          /\ worker[w].pc = "cleanup" => pc = "finish"
    BY <1>10 DEF CleanUp, HandleError, RecordFailure
  <2>2. worker'[w].pc = pc /\ worker'[w].task = worker[w].task /\ worker'[w].code = worker[w].code
    BY <2>1, StepGoes, StepCode
  <2>3. UNCHANGED queue /\ \A s : SameEntry(s)
    BY <1>10 DEF CleanUp, HandleError, RecordFailure, besideWorkers, runtimeVars
  <2> QED
    BY <2>1, <2>2, <2>3
<1>11. CASE ReadEscaped(w) \/ BuryTask(w)
  <2>1. PICK pc \in {"bury", "skip"} :
          /\ Step(w, pc)
          /\ \/ worker[w].pc = "escaped" /\ (pc = "bury" => Active(worker[w].task))
             \/ worker[w].pc = "bury" /\ pc = "skip"
    BY <1>11 DEF ReadEscaped, BuryTask
  <2>2. worker'[w].pc = pc /\ worker'[w].task = worker[w].task
    BY <2>1, StepGoes
  <2>3. UNCHANGED queue /\ \A s : SameEntry(s)
    BY <1>11 DEF ReadEscaped, BuryTask, besideWorkers, runtimeVars
  <2> QED
    BY <2>1, <2>2, <2>3
<1>12. CASE EscapeRun(w)
  BY <1>12, StepGoes, StepCode, MarkedFinished DEF EscapeRun
<1>13. CASE FailCleanUp(w)
  BY <1>13, RaiseGoes, RaiseCode DEF FailCleanUp, runtimeVars
<1> QED
  BY <1>2, <1>3, <1>4, <1>5, <1>6, <1>7, <1>8, <1>9, <1>10, <1>11, <1>12, <1>13 DEF WorkerStep

LEMMA WorkerStepUntouched ==
  ASSUME Typed, Kinded, Exclusive, Kept, Untouched, NEW w \in Workers, WorkerStep(w) \/ EscapeRun(w) \/ FailCleanUp(w)
  PROVE  Untouched'
<1>1. WorkerFrame(w) /\ WorkerPath(w)
  BY WorkerStepFrame, WorkerStepPath
<1>2. /\ UNCHANGED handler
      /\ \A v \in Workers \ {w} : worker'[v] = worker[v]
      /\ \A h \in Handlers, t \in Tasks :
           /\ Puts(h, t)' <=> Puts(h, t)
           /\ Requeues(h, t)' <=> Requeues(h, t)
           /\ Pending(h, t)' <=> Pending(h, t)
  BY <1>1 DEF WorkerFrame, Puts, Requeues, Pending
<1>3. ASSUME NEW t \in Tasks, worker[w].task # t \/ worker[w].pc = "idle"
      PROVE  /\ status'[t] = status[t]
             /\ SameEntry(t)
  BY <1>1, <1>3 DEF WorkerFrame, WorkerPath
<1>4. ASSUME NEW t \in Tasks, WorksOn(w, t)
      PROVE  /\ Entries(t)' = {} /\ \A h \in Handlers : ~Puts(h, t) /\ ~Requeues(h, t)
             /\ \A v \in Workers \ {w} : worker[v].pc # "idle" => worker[v].task # t
  <2>1. Entries(t) = {}
    BY <1>4, WaitsAlone
  <2>2. Entries(t)' \subseteq Entries(t)
    <3>1. UNCHANGED queue
      BY <1>1, <1>4 DEF WorkerPath, WorksOn
    <3> QED
      BY <3>1 DEF Entries
  <2> QED
    BY <1>4, <2>1, <2>2, WaitsAlone, HoldersByKind DEF WorksOn
<1>5. ASSUME NEW t \in Tasks, ~WorksOn(w, t), Listed(t)' PROVE Listed(t)
  BY <1>1, <1>2, <1>5 DEF Listed, WorkerPath, WorksOn, Entries
<1>6. ASSUME NEW t \in Tasks, ~WorksOn(w, t), Awaited(t)' PROVE Awaited(t)
  BY <1>1, <1>2, <1>5, <1>6 DEF Awaited, Listed, WorkerPath, WorksOn
<1>7. ASSUME NEW t \in Tasks, WorksOn(w, t), Listed(t)'
      PROVE  worker[w].pc = "got" /\ worker'[w].pc = "claim"
  BY <1>1, <1>2, <1>4, <1>7 DEF Listed, WorkerPath, WorksOn
<1>8. ASSUME NEW t \in Tasks, WorksOn(w, t), Awaited(t)'
      PROVE  worker[w].pc \in {"got", "claim"}
  BY <1>1, <1>2, <1>4, <1>7, <1>8 DEF Awaited, WorkerPath, WorksOn
<1>9. AwaitedUndone'
  <2>1. ASSUME NEW t \in Tasks, Awaited(t)'
        PROVE  Awaited(t) /\ status'[t] = status[t]
    BY <1>1, <1>3, <1>6, <1>8, <2>1 DEF WorksOn, WorkerFrame, Awaited, Listed
  <2> QED
    BY <2>1 DEF Untouched, AwaitedUndone, Undone
<1>10. ListedEnlisted'
  <2>1. ASSUME NEW t \in Tasks, Listed(t)'
        PROVE  Listed(t) /\ SameEntry(t)
    BY <1>1, <1>3, <1>5, <1>7, <2>1 DEF WorksOn, WorkerPath, Listed
  <2> QED
    BY <2>1 DEF Untouched, ListedEnlisted, Enlisted, SameEntry
<1>11. UnfinishedRow'
  <2>1. ASSUME NEW v \in Workers, NEW t \in Tasks, WorksOn(v, t)', v # w,
               worker'[v].pc \notin {"skip", "cleanup", "finish"}, ~PastCompletion(v)'
        PROVE  status'[t] # "completed"
    BY <1>2, <1>3, <1>4, <2>1 DEF WorksOn, Untouched, UnfinishedRow, PastCompletion
  <2>2. ASSUME NEW t \in Tasks, WorksOn(w, t)', worker'[w].pc \notin {"skip", "cleanup", "finish"},
               ~PastCompletion(w)'
        PROVE  status'[t] # "completed"
    <3>1. CASE worker[w].pc = "idle"
      <4>1. Undone(t) /\ status'[t] = status[t]
        BY <1>1, <1>3, <2>2, <3>1 DEF WorkerPath, WorksOn, Untouched, AwaitedUndone, Awaited, Listed
      <4> QED
        BY <4>1 DEF Undone, ActiveStatuses
    <3>2. CASE worker[w].pc # "idle"
      <4>1. status[t] # "completed"
        BY <1>1, <2>2, <3>2
        DEF WorkerPath, WorksOn, Untouched, UnfinishedRow, PastCompletion, Active, ActiveStatuses
      <4> QED
        BY <1>1, <2>2, <4>1 DEF WorkerFrame
    <3> QED
      BY <3>1, <3>2
  <2> QED
    BY <2>1, <2>2 DEF UnfinishedRow
<1>12. PendingAlone'
  <2> SUFFICES ASSUME NEW h \in Handlers, NEW t \in Tasks, Pending(h, t)
               PROVE  /\ status'[t] # "absent" /\ ~Active(t)'
                      /\ \A g \in Handlers : handler'[g].kind = "chunks" => handler'[g].task # t
                      /\ \A v \in Workers : WorksOn(v, t)' => Passes(v, t)'
    BY <1>2 DEF PendingAlone
  <2>1. /\ status[t] # "absent" /\ ~Active(t)
        /\ \A g \in Handlers : handler[g].kind = "chunks" => handler[g].task # t
        /\ \A v \in Workers : WorksOn(v, t) => Passes(v, t)
    BY DEF Untouched, PendingAlone
  <2>2. ~(worker[w].task = t /\ worker[w].pc = "enter")
    BY <2>1 DEF Passes, WorksOn
  <2>3. ~Active(t)'
    BY <1>1, <2>1, <2>2 DEF WorkerPath
  <2>4. status'[t] # "absent"
    BY <1>1, <2>1 DEF WorkerFrame
  <2>5. ASSUME NEW v \in Workers, v # w, WorksOn(v, t)'
        PROVE  Passes(v, t)'
    BY <1>2, <1>3, <1>4, <2>1, <2>5 DEF WorksOn, Passes, SameEntry
  <2>6. ASSUME WorksOn(w, t)'
        PROVE  Passes(w, t)'
    <3>1. CASE worker[w].pc = "idle"
      BY <1>1, <2>6, <3>1 DEF WorkerPath, WorksOn, Passes
    <3>2. CASE worker[w].pc # "idle"
      <4>1. WorksOn(w, t) /\ Passes(w, t)
        BY <1>1, <2>1, <2>6, <3>2 DEF WorkerPath, WorksOn
      <4>2. CASE worker[w].pc = "got"
        <5>1. Undone(t)
          BY <4>1, <4>2 DEF WorksOn, Untouched, AwaitedUndone, Awaited, Listed
        <5>2. worker'[w].pc = "skip"
          BY <1>1, <2>1, <4>1, <4>2, <5>1 DEF WorkerPath, WorksOn, Undone, Active, Exists, NoRow
        <5> QED
          BY <5>2 DEF Passes
      <4>3. CASE worker[w].pc # "got"
        BY <1>1, <2>6, <3>2, <4>1, <4>3 DEF WorkerPath, WorksOn, Passes
      <4> QED
        BY <4>2, <4>3
    <3> QED
      BY <3>1, <3>2
  <2> QED
    BY <1>2, <2>1, <2>3, <2>4, <2>5, <2>6
<1>13. NoReconcile'
  BY <1>2 DEF Untouched, NoReconcile
<1> QED
  BY <1>9, <1>10, <1>11, <1>12, <1>13 DEF Untouched

(***************************************************************************)
(* What a step of a request does to the registry and the queues.           *)
(***************************************************************************)
HandlerRegistry(h) ==
  LET r == handler[h]
      n == handler'[h]
  IN
  /\ \A s \in Tasks :
       /\ Enlisted(s) /\ s \notin queuedIds' /\ s \notin cancelledIds' =>
            handler[h].kind = "chunks" /\ handler[h].task = s
       /\ s \in cancelledIds /\ s \notin cancelledIds' => Holds(h, s)
       /\ s \in cancelledIds' /\ s \notin cancelledIds =>
            /\ r.pc = "flag" /\ r.task = s
            /\ n.pc = "commit" /\ n.kind = r.kind /\ n.task = s
       /\ Entries(s)' # {} => Entries(s) # {} \/ Puts(h, s)
       /\ n.pc = "put" /\ n.task = s => Requeues(h, s) /\ s \in queuedIds'
       /\ n.pc = "mark" /\ n.task = s => Active(s)'
  /\ n.pc = "flag" => r.pc = "idle"

LEMMA SameRegistry ==
  ASSUME NEW h \in Handlers, UNCHANGED <<queue, runtimeVars>>
  PROVE  \A s \in Tasks :
           /\ s \in queuedIds' <=> s \in queuedIds
           /\ s \in cancelledIds' <=> s \in cancelledIds
           /\ Entries(s)' = Entries(s)
  BY DEF runtimeVars, Entries

LEMMA NewRequestRegistry ==
  ASSUME Typed, Kinded, NEW h \in Handlers, NewRequest(h)
  PROVE  HandlerRegistry(h)
<1>1. UNCHANGED <<queue, runtimeVars>>
  BY DEF NewRequest, CreateTask, CancelTask, DeleteTask, RequeueTask, MutateTask, ClaimChunks,
     ReconcileOrphans, BeginLocked
<1>2. Begins(h)
  <2>1. handler[h].pc = "idle"
    BY DEF NewRequest, CreateTask, CancelTask, DeleteTask, RequeueTask, MutateTask, ClaimChunks,
       ReconcileOrphans, BeginLocked, Begin
  <2> QED
    BY <2>1, NewRequestThread DEF HandlerThread, GoesOn, IsDone
<1> QED
  BY <1>1, <1>2, SameRegistry DEF HandlerRegistry, Enlisted, Begins

LEMMA HandlerStepRegistry ==
  ASSUME Typed, Kinded, Kept, NEW h \in Handlers, HandlerStep(h) \/ AbortChunks(h) \/ DropRequest(h)
  PROVE  HandlerRegistry(h)
<1>1. PICK t : t = handler[h].task
  OBVIOUS
<1>2. handler[h].pc \in RetryPCs \union {"claim", "claimed"} => handler[h].kind = "chunks"
  BY ChunkKinds
<1> USE DEF HandlerRegistry, Enlisted
<1>3. CASE StartTask(h)
  <2>1. handler[h].pc = "mark" /\ (t \in Tasks => Requeues(h, t) /\ Holds(h, t)) /\ UNCHANGED queue
    BY <1>1, <1>3, HoldersByKind DEF StartTask, Requeues
  <2>2. CASE Done(h) /\ UNCHANGED runtimeVars
    BY <2>1, <2>2, SameRegistry, DoneGoes
  <2>3. CASE MarkQueued(t) /\ Goto(h, "put")
    BY <1>1, <2>1, <2>3, GotoGoes DEF MarkQueued, Entries
  <2> QED
    BY <1>1, <1>3, <2>2, <2>3 DEF StartTask
<1>4. CASE PutTask(h)
  <2>1. /\ handler'[h].pc = "idle" /\ UNCHANGED runtimeVars
        /\ queue' = [queue EXCEPT ![route[t]] = Append(@, t)] /\ handler[h].pc = "put"
    BY <1>1, <1>4, DoneGoes DEF PutTask
  <2>2. ASSUME NEW s \in Tasks, s # t PROVE Entries(s)' \subseteq Entries(s)
    <3>1. ASSUME NEW q \in Queues, NEW i \in DOMAIN queue'[q], queue'[q][i] = s
          PROVE  i \in DOMAIN queue[q] /\ queue[q][i] = s
      <4>1. queue[q] \in Seq(Tasks) /\ t \in Tasks
        BY <1>1, <2>1 DEF Typed, ProcessTyped, HandlersTyped
      <4>2. queue'[q] \in {queue[q], Append(queue[q], t)}
        BY <2>1 DEF Typed, ProcessTyped
      <4> QED
        BY <2>2, <3>1, <4>1, <4>2
    <3> QED
      BY <3>1 DEF Entries
  <2>3. ASSUME NEW s \in Tasks, s = t PROVE Puts(h, s)
    BY <1>1, <2>1, <2>3 DEF Puts
  <2> QED
    BY <2>1, <2>2, <2>3 DEF runtimeVars
<1>5. CASE FlagTask(h)
  BY <1>5, GotoGoes DEF FlagTask, RequestCancel, Entries
<1>6. CASE MarkClaim(h)
  BY <1>2, <1>6, GotoGoes DEF MarkClaim, MarkRunning, Entries
<1>7. CASE FinishChunks(h)
  <2>1. handler[h].pc = "finish" /\ handler[h].kind = "chunks" /\ MarkFinished(t) /\ UNCHANGED queue
    BY <1>1, <1>2, <1>7 DEF FinishChunks, RetryPCs
  <2>2. handler'[h].pc = "idle"
    BY <1>7, DoneGoes DEF FinishChunks
  <2>3. Holds(h, t)
    BY <1>1, <2>1 DEF Holds, ServesNow
  <2> QED
    BY <1>1, <2>1, <2>2, <2>3, MarkedFinished DEF SameEntry, Entries
<1>8. CASE CommitRequest(h)
  <2>1. UNCHANGED <<queue, runtimeVars>>
    BY <1>8 DEF CommitRequest
  <2>2. CASE CommitRetry(h) \/ CommitRetranscribe(h)
    <3>1. /\ handler'[h].pc = "mark" /\ handler'[h].task = t
          /\ status' = [status EXCEPT ![t] = "queued"]
      BY <1>1, <2>2, GotoGoes DEF CommitRetry, CommitRetranscribe
    <3> QED
      BY <2>1, <3>1, SameRegistry DEF Active, ActiveStatuses, Typed, DatabaseTyped
  <2>3. CASE Done(h)
    BY <2>1, <2>3, SameRegistry, DoneGoes
  <2> QED
    BY <1>8, <2>2, <2>3
    DEF CommitRequest, CommitCancel, CommitDelete, CommitReconcile, CommitCleanup, CommitPostprocess
<1>10. CASE DropRequest(h)
  <2>1. UNCHANGED <<queue, runtimeVars>> /\ handler'[h].pc = "idle"
    BY <1>10, DoneGoes DEF DropRequest
  <2> QED
    BY <2>1, SameRegistry
<1>9. CASE /\ ScanRows(h) \/ CommitClaim(h) \/ AttemptChunk(h) \/ EndChunk(h) \/ KeepChunk(h)
              \/ GatherChunks(h) \/ SettleChunks(h) \/ AbortChunks(h)
  <2>1. UNCHANGED <<queue, runtimeVars>>
    BY <1>9 DEF ScanRows, CommitClaim, AttemptChunk, EndChunk, KeepChunk, GatherChunks, SettleChunks,
       AbortChunks, besideHandlers
  <2>2. handler[h].pc \notin {"mark", "put"} /\ handler'[h].pc \notin {"mark", "put", "flag"}
    <3>1. handler[h].pc \in {"scan", "claim", "attempt", "chunk", "keep", "settle"}
      BY <1>9 DEF ScanRows, CommitClaim, AttemptChunk, EndChunk, KeepChunk, GatherChunks, SettleChunks, AbortChunks
    <3>2. handler[h].kind \in {"reconcile", "chunks"}
      BY <3>1 DEF Typed, HandlersTyped, HandlerRecords, Kinds, Kinded, PCsOf
    <3>3. handler'[h].pc = "idle" \/ handler'[h].kind = handler[h].kind
      BY <3>1, HandlerStepThread DEF HandlerThread, Begins, GoesOn, IsDone
    <3>4. Kinded'
      BY HandlerStepKinded
    <3> QED
      BY <3>1, <3>2, <3>3, <3>4 DEF Kinded, PCsOf
  <2> QED
    BY <2>1, <2>2, SameRegistry
<1> QED
  BY <1>3, <1>4, <1>5, <1>6, <1>7, <1>8, <1>9, <1>10 DEF HandlerStep

LEMMA HandlerStepUntouched ==
  ASSUME Typed, Kinded, Exclusive, Kept, Untouched, "reconcile" \notin Requests,
         NEW h \in Handlers, NewRequest(h) \/ HandlerStep(h) \/ AbortChunks(h) \/ DropRequest(h)
  PROVE  Untouched'
<1>1. HandlerRows(h) /\ HandlerThread(h) /\ HandlerRegistry(h)
  BY HandlerStepRows, HandlerStepThread, NewRequestThread, HandlerStepRegistry, NewRequestRegistry
<1>2. UNCHANGED worker /\ \A g \in Handlers \ {h} : handler'[g] = handler[g]
  BY <1>1 DEF HandlerThread
<1>3. /\ handler[h].kind # "reconcile"
      /\ \A g \in Handlers : \A t \in Tasks :
           /\ Puts(g, t) \/ Requeues(g, t) => Holds(g, t) /\ handler[g].kind # "chunks"
           /\ handler[g].kind = "chunks" /\ handler[g].task = t =>
                Holds(g, t) /\ (Retries(g, t) \/ handler[g].pc \in {"claim", "claimed"})
           /\ Retries(g, t) => Holds(g, t)
  BY HoldersByKind DEF Untouched, NoReconcile, Retries, Holds, ServesNow
(* Nobody but a chunk retry of the task makes an awaited row final. *)
<1>4. ASSUME NEW t \in Tasks, status'[t] # status[t]
      PROVE  Undone(t)' \/ Retries(h, t)
  BY <1>1, <1>3, <1>4 DEF HandlerRows, Undone, Active
<1>5. ASSUME NEW t \in Tasks, Listed(t), Retries(h, t) PROVE FALSE
  BY <1>3, <1>5, WaitsAlone DEF Listed, WorksOn, Retries
<1>6. ASSUME NEW t \in Tasks, Awaited(t), Retries(h, t) PROVE FALSE
  BY <1>3, <1>5, <1>6, WaitsAlone DEF Awaited, WorksOn, Retries
<1>7. ASSUME NEW t \in Tasks, Listed(t)', ~Listed(t) PROVE Requeues(h, t) /\ t \in queuedIds'
  BY <1>1, <1>2, <1>7 DEF HandlerRegistry, Listed, Puts
<1>8. AwaitedUndone'
  <2>1. ASSUME NEW t \in Tasks, Awaited(t)', ~Awaited(t) PROVE Active(t)'
    BY <1>1, <1>2, <1>7, <2>1 DEF HandlerRegistry, Awaited, Requeues
  <2>2. ASSUME NEW t \in Tasks, Awaited(t) PROVE Undone(t)'
    BY <1>4, <1>6, <2>2 DEF Untouched, AwaitedUndone, Undone
  <2> QED
    BY <2>1, <2>2 DEF AwaitedUndone, Undone, Active
<1>9. ListedEnlisted'
  <2>1. ASSUME NEW t \in Tasks, Listed(t) PROVE Enlisted(t)'
    <3>1. ~(handler[h].kind = "chunks" /\ handler[h].task = t)
      BY <1>3, <2>1, WaitsAlone DEF Listed, WorksOn
    <3> QED
      BY <1>1, <2>1, <3>1 DEF HandlerRegistry, Untouched, ListedEnlisted, Enlisted
  <2> QED
    BY <1>7, <2>1 DEF ListedEnlisted, Enlisted
<1>10. UnfinishedRow'
  <2>1. ASSUME NEW w \in Workers, NEW t \in Tasks, WorksOn(w, t) PROVE ~Retries(h, t)
    BY <1>3, <2>1, WaitsAlone
  <2>2. \A t : Undone(t)' => status'[t] # "completed"
    BY DEF Undone, ActiveStatuses
  <2> QED
    BY <1>2, <1>4, <2>1, <2>2 DEF WorksOn, Untouched, UnfinishedRow, PastCompletion
<1>11. PendingAlone'
  <2>1. ASSUME NEW g \in Handlers, NEW t \in Tasks, Pending(g, t), g = h => handler[h].pc # "commit"
        PROVE  /\ status'[t] # "absent" /\ ~Active(t)'
               /\ \A f \in Handlers : handler'[f].kind = "chunks" => handler'[f].task # t
               /\ \A w \in Workers : WorksOn(w, t)' => Passes(w, t)'
    <3>1. /\ status[t] # "absent" /\ ~Active(t)
          /\ \A f \in Handlers : handler[f].kind = "chunks" => handler[f].task # t
          /\ \A w \in Workers : WorksOn(w, t) => Passes(w, t)
      BY <2>1 DEF Untouched, PendingAlone
    <3>2. lock = g /\ lock # NoOne
      BY <2>1, ThreadsAssumption DEF Pending, Kept, LockHeld, LockedPCs
    <3>3. handler[h].pc \notin {"commit", "claim"}
      BY <2>1, <3>2 DEF Kept, LockHeld, LockedPCs, Pending
    <3>4. status'[t] = status[t]
      BY <1>1, <1>3, <3>1, <3>3 DEF HandlerRows, Retries
    <3>5. \A f \in Handlers : handler'[f].kind = "chunks" => handler'[f].task # t
      BY <1>1, <1>2, <3>1, <3>2 DEF HandlerThread, Begins, GoesOn, IsDone
    <3>6. \A w \in Workers : WorksOn(w, t)' => Passes(w, t)'
      BY <1>1, <1>2, <3>1, WaitsAlone DEF HandlerRegistry, WorksOn, Passes
    <3> QED
      BY <3>1, <3>4, <3>5, <3>6 DEF Active
  <2>2. ASSUME NEW t \in Tasks, Pending(h, t)', handler[h].pc = "idle"
        PROVE  /\ status'[t] # "absent" /\ ~Active(t)'
               /\ \A f \in Handlers : handler'[f].kind = "chunks" => handler'[f].task # t
               /\ \A w \in Workers : WorksOn(w, t)' => Passes(w, t)'
    <3>1. /\ UNCHANGED db /\ UNCHANGED runtimeVars /\ lock = NoOne
          /\ Exists(t) /\ NotActive(t) /\ handler'[h].kind # "chunks"
      BY <1>1, <2>2 DEF HandlerThread, Begins, GoesOn, IsDone, Pending
    <3>2. t \notin queuedIds /\ t \notin runningIds /\ ~Active(t) /\ status[t] # "absent"
      BY <3>1 DEF NotActive, ActiveIds, Exists, NoRow
    <3>3. ASSUME NEW f \in Handlers, handler[f].kind = "chunks", handler[f].task = t
          PROVE  FALSE
      <4>1. handler[f].pc \in {"claim", "claimed"}
        BY <1>3, <3>2, <3>3 DEF Exclusive, HolderTracked
      <4> QED
        BY <3>1, <4>1, ThreadsAssumption DEF Kept, LockHeld, LockedPCs
    <3>4. ASSUME NEW w \in Workers, WorksOn(w, t)
          PROVE  Passes(w, t)
      <4>1. ~Runs(w, t)
        BY <3>2 DEF Exclusive, HolderTracked
      <4>2. worker[w].pc \in {"got", "skip", "claim", "escaped", "bury"}
        BY <3>4, <4>1 DEF Runs, WorksOn, TrackedPCs, Typed, WorkersTyped, WorkerRecords, WorkerPCs
      <4>3. worker[w].pc = "claim" => t \in cancelledIds
        BY <3>2, <3>4 DEF WorksOn, Untouched, ListedEnlisted, Listed, Enlisted
      <4> QED
        BY <4>2, <4>3 DEF Passes
    <3> QED
      BY <1>2, <3>1, <3>2, <3>3, <3>4 DEF Active, db, runtimeVars, WorksOn, Passes
  <2>3. ASSUME NEW t \in Tasks, Pending(h, t)', handler[h].pc # "idle"
        PROVE  Pending(h, t) /\ handler[h].pc # "commit"
    BY <1>1, <2>3 DEF HandlerThread, HandlerRegistry, Begins, GoesOn, IsDone, Pending
  <2>4. ASSUME NEW g \in Handlers, NEW t \in Tasks, Pending(g, t)', g # h
        PROVE  Pending(g, t)
    BY <1>2, <2>4 DEF Pending
  <2> QED
    BY <2>1, <2>2, <2>3, <2>4 DEF PendingAlone
<1>12. NoReconcile'
  BY <1>1, <1>2 DEF HandlerThread, Begins, GoesOn, IsDone, Untouched, NoReconcile
<1> QED
  BY <1>8, <1>9, <1>10, <1>11, <1>12 DEF Untouched

LEMMA FreshUntouched ==
  ASSUME queue = [q \in Queues |-> <<>>], worker = [w \in Workers |-> Workless],
         handler = [h \in Handlers |-> Idle]
  PROVE  Untouched
<1>1. /\ \A t : Entries(t) = {}
      /\ \A h \in Handlers : handler[h].pc = "idle" /\ handler[h].kind = "create"
      /\ \A w \in Workers : worker[w].pc = "idle"
  BY DEF Entries, Idle, Workless
<1> QED
  BY <1>1 DEF Untouched, AwaitedUndone, ListedEnlisted, Awaited, Listed, Puts, Requeues, UnfinishedRow,
     PastCompletion, WorksOn, PendingAlone, Pending, NoReconcile

LEMMA UntouchedHolds ==
  ASSUME RetryAfterDrain, "reconcile" \notin Requests
  PROVE  Spec => []Untouched
<1>1. Init => Untouched
  BY FreshUntouched DEF Init
<1>2. ASSUME Typed, Kinded, Exclusive, Kept, Untouched, [Next]_vars
      PROVE  Untouched'
  <2>1. CASE UNCHANGED vars
    BY <1>2, <2>1 DEF vars, Untouched, AwaitedUndone, ListedEnlisted, Awaited, Listed, Entries, Puts,
       Requeues, Undone, Enlisted, UnfinishedRow, PastCompletion, WorksOn, PendingAlone, Pending, Passes, Active,
       NoReconcile
  <2>2. CASE Restart
    <3>1. /\ queue' = [q \in Queues |-> <<>>] /\ worker' = [w \in Workers |-> Workless]
          /\ handler' = [h \in Handlers |-> Idle]
      BY <2>2 DEF Restart
    <3>2. /\ \A t : Entries(t)' = {}
          /\ \A h \in Handlers : handler'[h].pc = "idle" /\ handler'[h].kind = "create"
          /\ \A w \in Workers : worker'[w].pc = "idle"
      BY <3>1 DEF Entries, Idle, Workless
    <3> QED
      BY <3>2 DEF Untouched, AwaitedUndone, ListedEnlisted, Awaited, Listed, Puts, Requeues,
         UnfinishedRow, PastCompletion, WorksOn, PendingAlone, Pending, NoReconcile
  <2> QED
    BY <1>2, <2>1, <2>2, HandlerStepUntouched, WorkerStepUntouched DEF Next
<1> QED
  BY <1>1, <1>2, TypedHolds, KindedHolds, ExclusiveHolds, KeptHolds, PTL DEF Spec

(***************************************************************************)
(* The action properties.                                                  *)
(***************************************************************************)
LEMMA CommitAlone ==
  ASSUME Typed, Kinded, Exclusive, Untouched, NEW h \in Handlers, NEW t \in Tasks,
         handler[h].pc = "commit", handler[h].task = t, handler[h].kind # "cancel"
  PROVE  ~Writing(t)
<1>1. CASE Holds(h, t)
  <2>1. \A w \in Workers : ~Runs(w, t)
    BY <1>1, WaitsAlone DEF Runs, WorksOn, TrackedPCs
  <2>2. \A g \in Handlers : Retries(g, t) => g = h
    BY <1>1, WaitsAlone DEF Retries, Holds, ServesNow
  <2> QED
    BY <2>1, <2>2 DEF Writing, Retries
<1>2. CASE Pending(h, t)
  BY <1>2 DEF Untouched, PendingAlone, Passes, Writing, Runs, TrackedPCs, WorksOn, Retries
<1>3. Holds(h, t) \/ Pending(h, t)
  <2>1. handler[h].kind \in {"cancel", "delete", "retry", "retranscribe", "cleanup", "postprocess"}
    BY DEF Typed, HandlersTyped, HandlerRecords, Kinds, Kinded, PCsOf
  <2> QED
    BY <2>1 DEF Holds, ServesNow, Pending
<1> QED
  BY <1>1, <1>2, <1>3

(* No request but a cancellation commits while somebody writes its task:   *)
(* what _require_not_active found before the commit still holds at it.     *)
THEOREM RequestsSpareWritersHolds ==
  ASSUME RetryAfterDrain, "reconcile" \notin Requests
  PROVE  Spec => RequestsSpareWriters
<1>1. ASSUME Typed, Kinded, Exclusive, Untouched
      PROVE  \A t \in Tasks, h \in Handlers :
               /\ Writing(t)
               /\ handler[h].pc = "commit" /\ handler[h].task = t
               /\ handler[h].kind # "cancel"
               => handler'[h] = handler[h] \/ restarts' # restarts
  BY <1>1, CommitAlone
<1> QED
  BY <1>1, TypedHolds, KindedHolds, ExclusiveHolds, UntouchedHolds, PTL DEF RequestsSpareWriters

(* A completed task leaves that status only through a request about it,    *)
(* where nothing is reconciled: neither a worker that is late nor a        *)
(* restart takes a result back, and its own worker only when the cleanup   *)
(* that follows the completion fails.                                      *)
THEOREM CompletedIsKeptHolds ==
  ASSUME RetryAfterDrain, "reconcile" \notin Requests
  PROVE  Spec => CompletedIsKept
<1>1. ASSUME Typed, Kinded, Exclusive, Kept, Untouched, [Next]_vars,
             NEW t \in Tasks, status[t] = "completed", status'[t] # "completed"
      PROVE  \/ \E h \in Handlers : ServesNow(h, t) /\ handler[h].kind # "create"
             \/ FollowUpFailed(t)
  <2>1. ASSUME NEW h \in Handlers, NewRequest(h) \/ HandlerStep(h) \/ AbortChunks(h) \/ DropRequest(h)
        PROVE  ServesNow(h, t) /\ handler[h].kind # "create"
    <3>1. HandlerRows(h)
      BY <1>1, <2>1, HandlerStepRows
    <3>2. handler[h].task = t /\ handler[h].pc \in {"commit", "claim"} \union RetryPCs
      BY <1>1, <3>1 DEF HandlerRows, Untouched, NoReconcile, Retries, RetryPCs
    <3>3. handler[h].kind = "create" => handler[h].pc \in {"idle", "mark", "put"}
      BY <1>1 DEF Kinded, PCsOf
    <3> QED
      BY <3>2, <3>3 DEF ServesNow, RetryPCs
  <2>2. ASSUME NEW w \in Workers, WorkerStep(w) \/ EscapeRun(w) \/ FailCleanUp(w)
        PROVE  FollowUpFailed(t)
    <3>1. WorksOn(w, t) /\ worker[w].pc \in {"enter", "complete", "record", "bury"}
      BY <1>1, <2>2, WorkerStepFrame DEF WorkerFrame, WorksOn
    <3> QED
      BY <1>1, <3>1 DEF Untouched, UnfinishedRow, PastCompletion, FollowUpFailed, WorksOn
  <2>3. ~Restart
    BY <1>1 DEF Restart, Active, ActiveStatuses
  <2> QED
    BY <1>1, <2>1, <2>2, <2>3 DEF Next, vars
<1>2. Typed /\ Kinded /\ Exclusive /\ Kept /\ Untouched /\ [Next]_vars =>
        [\A t \in Tasks : status[t] = "completed" /\ status'[t] # "completed" =>
           \/ \E h \in Handlers : ServesNow(h, t) /\ handler[h].kind # "create"
           \/ FollowUpFailed(t)]_vars
  BY <1>1
<1> QED
  BY <1>2, TypedHolds, KindedHolds, ExclusiveHolds, KeptHolds, UntouchedHolds, PTL
  DEF Spec, CompletedIsKept

(***************************************************************************)
(* A cancellation that has returned, where the quality report never makes  *)
(* a run store its transcript in a commit of its own: the worker keeps     *)
(* SQLite's write lock from there to its last commit (FinalLocked), so a   *)
(* cancellation that comes after its last look at the flag has not         *)
(* committed yet (FinalUncancelled).                                       *)
(***************************************************************************)
FinalLocked == \A w \in Workers : worker[w].pc \in {"final", "complete"} => writer = w
FinalUncancelled ==
  \A w \in Workers, t \in Tasks :
    worker[w].pc = "complete" /\ worker[w].task = t /\ t \in cancelledIds =>
      \E h \in Handlers : At(h, "cancel", "commit") /\ handler[h].task = t
(* The settlement looks at the flag under the lock that a new flag needs.  *)
SettleUncancelled ==
  \A h \in Handlers, t \in Tasks :
    handler[h].pc = "settle" /\ handler[h].prev = "completed" /\ handler[h].task = t =>
      t \notin cancelledIds
Uncancelled == FinalLocked /\ FinalUncancelled /\ SettleUncancelled

LEMMA WorkerStepUncancelled ==
  ASSUME Typed, Exclusive, Kept, Uncancelled, ~MayWarn, NEW w \in Workers, WorkerStep(w) \/ EscapeRun(w) \/ FailCleanUp(w)
  PROVE  Uncancelled'
<1>1. WorkerFrame(w) /\ WorkerPath(w)
  BY WorkerStepFrame, WorkerStepPath
<1>2. ASSUME worker'[w].pc \in {"final", "complete"}
      PROVE  \/ writer' = w /\ worker'[w].pc = "final"
             \/ /\ UNCHANGED writer /\ worker[w].pc = "final"
                /\ worker'[w].task = worker[w].task /\ worker[w].task \notin cancelledIds
  <2>1. CASE StoreSegments(w)
    BY <1>2, <2>1, StepGoes, RaiseGoes DEF StoreSegments
  <2>2. CASE FinalCheck(w)
    BY <1>2, <2>2, StepGoes, RaiseGoes DEF FinalCheck, IsCancelled
  <2> QED
    BY <1>2, <2>1, <2>2, FinalSteps
<1>3. FinalLocked'
  BY <1>1, <1>2, ThreadsAssumption DEF WorkerFrame, Uncancelled, FinalLocked
<1>4. \A t \in Tasks : t \in cancelledIds' => t \in cancelledIds
  BY <1>1 DEF WorkerPath
<1>5. FinalUncancelled'
  BY <1>1, <1>2, <1>4, ThreadsAssumption DEF WorkerFrame, Uncancelled, FinalUncancelled, At
<1>6. SettleUncancelled'
  BY <1>1, <1>4 DEF WorkerFrame, Uncancelled, SettleUncancelled
<1> QED
  BY <1>3, <1>5, <1>6 DEF Uncancelled

LEMMA CommitWaits ==
  ASSUME Typed, NEW h \in Handlers, handler[h].pc = "commit",
         NewRequest(h) \/ HandlerStep(h) \/ AbortChunks(h) \/ DropRequest(h)
  PROVE  writer = NoOne
  BY DEF NewRequest, CreateTask, CancelTask, DeleteTask, RequeueTask, MutateTask, ClaimChunks, BeginLocked,
     Begin, ReconcileOrphans, HandlerStep, StartTask, PutTask, FlagTask, ScanRows, CommitRequest, CommitClaim,
     MarkClaim, AttemptChunk, EndChunk, KeepChunk, GatherChunks, SettleChunks, FinishChunks, AbortChunks,
     DropRequest

LEMMA HandlerStepUncancelled ==
  ASSUME Typed, Kinded, Exclusive, Kept, Untouched, Uncancelled,
         NEW h \in Handlers, NewRequest(h) \/ HandlerStep(h) \/ AbortChunks(h) \/ DropRequest(h)
  PROVE  Uncancelled'
<1>1. HandlerRows(h) /\ HandlerThread(h) /\ HandlerRegistry(h)
  BY HandlerStepRows, HandlerStepThread, NewRequestThread, HandlerStepRegistry, NewRequestRegistry
<1>2. FinalLocked'
  BY <1>1 DEF HandlerThread, Uncancelled, FinalLocked
<1>3. FinalUncancelled'
  <2>1. ASSUME NEW w \in Workers, NEW t \in Tasks, worker[w].pc = "complete", worker[w].task = t,
               t \in cancelledIds, t \in cancelledIds'
        PROVE  \E g \in Handlers : At(g, "cancel", "commit")' /\ handler'[g].task = t
    <3>1. PICK g \in Handlers : At(g, "cancel", "commit") /\ handler[g].task = t
      BY <2>1 DEF Uncancelled, FinalUncancelled
    <3>2. g # h
      BY <2>1, <3>1, CommitWaits, ThreadsAssumption DEF Uncancelled, FinalLocked, At
    <3> QED
      BY <1>1, <3>1, <3>2 DEF HandlerThread, At
  <2>2. ASSUME NEW w \in Workers, NEW t \in Tasks, worker[w].pc = "complete", worker[w].task = t,
               t \notin cancelledIds, t \in cancelledIds'
        PROVE  At(h, "cancel", "commit")' /\ handler'[h].task = t
    <3>1. /\ handler[h].pc = "flag" /\ handler[h].task = t
          /\ handler'[h].pc = "commit" /\ handler'[h].task = t /\ handler'[h].kind = handler[h].kind
      BY <1>1, <2>2 DEF HandlerRegistry
    <3>2. ~Pending(h, t)
      BY <2>2 DEF Untouched, PendingAlone, WorksOn, Passes
    <3>3. handler[h].kind \in {"cancel", "delete"}
      BY <3>1 DEF Typed, HandlersTyped, HandlerRecords, Kinds, Kinded, PCsOf
    <3> QED
      BY <3>1, <3>2, <3>3 DEF Pending, At
  <2> QED
    BY <1>1, <2>1, <2>2 DEF HandlerThread, FinalUncancelled
<1>4. SettleUncancelled'
  <2>1. ASSUME NEW g \in Handlers, NEW t \in Tasks, g # h, handler[g].pc = "settle", t \in cancelledIds'
        PROVE  t \in cancelledIds
    BY <1>1, <2>1 DEF HandlerRegistry, Kept, LockHeld, LockedPCs
  <2>2. ASSUME NEW t \in Tasks, handler'[h].pc = "settle", handler'[h].prev = "completed",
               handler'[h].task = t
        PROVE  t \notin cancelledIds'
    BY <1>1, <2>2 DEF HandlerThread, HandlerRegistry, Begins, GoesOn, IsDone
  <2> QED
    BY <1>1, <2>1, <2>2 DEF HandlerThread, Uncancelled, SettleUncancelled
<1> QED
  BY <1>2, <1>3, <1>4 DEF Uncancelled

LEMMA UncancelledHolds ==
  ASSUME RetryAfterDrain, "reconcile" \notin Requests, ~MayWarn
  PROVE  Spec => []Uncancelled
<1>1. Init => Uncancelled
  BY DEF Init, Idle, Workless, Uncancelled, FinalLocked, FinalUncancelled, SettleUncancelled
<1>2. ASSUME Typed, Kinded, Exclusive, Kept, Untouched, Uncancelled, [Next]_vars
      PROVE  Uncancelled'
  <2>1. CASE UNCHANGED vars
    BY <1>2, <2>1 DEF vars, Uncancelled, FinalLocked, FinalUncancelled, SettleUncancelled, At
  <2>2. CASE Restart
    BY <2>2 DEF Restart, Idle, Workless, Uncancelled, FinalLocked, FinalUncancelled, SettleUncancelled
  <2> QED
    BY <1>2, <2>1, <2>2, HandlerStepUncancelled, WorkerStepUncancelled DEF Next
<1> QED
  BY <1>1, <1>2, TypedHolds, KindedHolds, ExclusiveHolds, KeptHolds, UntouchedHolds, PTL DEF Spec

(* Once cancel_task has returned, the run that is under way does not       *)
(* complete the task any more, where no quality report warns and nothing   *)
(* is reconciled.                                                          *)
THEOREM CancelHoldsHolds ==
  ASSUME RetryAfterDrain, "reconcile" \notin Requests, ~MayWarn
  PROVE  Spec => CancelHolds
<1>1. ASSUME Typed, Kinded, Exclusive, Kept, Untouched, Uncancelled, [Next]_vars,
             NEW t \in Tasks, status[t] = "cancelled", t \in cancelledIds,
             \A h \in Handlers : ServesNow(h, t) => handler[h].kind # "cancel"
      PROVE  status'[t] # "completed"
  <2>1. ASSUME NEW h \in Handlers, NewRequest(h) \/ HandlerStep(h) \/ AbortChunks(h) \/ DropRequest(h)
        PROVE  status'[t] # "completed"
    <3>1. HandlerRows(h)
      BY <1>1, <2>1, HandlerStepRows
    <3> QED
      BY <1>1, <3>1 DEF HandlerRows, Retries, Uncancelled, SettleUncancelled
  <2>2. ASSUME NEW w \in Workers, WorkerStep(w) \/ EscapeRun(w) \/ FailCleanUp(w) PROVE status'[t] # "completed"
    <3>1. WorkerFrame(w)
      BY <1>1, <2>2, WorkerStepFrame
    <3>2. ~(worker[w].pc = "complete" /\ worker[w].task = t)
      BY <1>1 DEF Uncancelled, FinalUncancelled, At, ServesNow
    <3> QED
      BY <1>1, <3>1, <3>2 DEF WorkerFrame
  <2>3. CASE Restart
    BY <1>1, <2>3 DEF Restart, Active, ActiveStatuses
  <2>4. CASE UNCHANGED vars
    BY <1>1, <2>4 DEF vars
  <2> QED
    BY <1>1, <2>1, <2>2, <2>3, <2>4 DEF Next
<1>2. Typed /\ Kinded /\ Exclusive /\ Kept /\ Untouched /\ Uncancelled /\ [Next]_vars =>
        [\A t \in Tasks :
           /\ status[t] = "cancelled" /\ t \in cancelledIds
           /\ \A h \in Handlers : ServesNow(h, t) => handler[h].kind # "cancel"
           => status'[t] # "completed"]_vars
  BY <1>1
<1> QED
  BY <1>2, TypedHolds, KindedHolds, ExclusiveHolds, KeptHolds, UntouchedHolds, UncancelledHolds, PTL
  DEF Spec, CancelHolds
====
