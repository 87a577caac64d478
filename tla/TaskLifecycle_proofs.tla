------------------------- MODULE TaskLifecycle_proofs --------------------------
(***************************************************************************)
(* Proofs about the task lifecycle, for any sets of tasks and threads.     *)
(*                                                                         *)
(* Typing.  TypeOK alone is not inductive: an action writes at             *)
(* handler[h].task or worker[w].task, which may be NoOne.  Typed adds that *)
(* every thread that acts on a task has one.                               *)
(*                                                                         *)
(* Nobody waits for nobody, for any sets of tasks and threads and whatever *)
(* clients requeue: an id in the registry is served (TrackedIsServed), and *)
(* so is every active row and every cancel request (ActiveIsOwned).        *)
(*                                                                         *)
(* ActiveIsOwned is not inductive.  An owner may be about to leave without *)
(* touching the row: a worker that skips or finishes, a request that has   *)
(* committed.  RowServed counts only those that will still settle or queue *)
(* the row.  And a worker that sees the cancel flag leaves an active row   *)
(* behind, three times: when it reads the row, when it starts the run and  *)
(* when it refreshes the row.  FlaggedRowServed says that it is then never *)
(* alone: the cancellation has yet to commit, or somebody past these       *)
(* checks will settle the row.                                             *)
(***************************************************************************)
EXTENDS TaskProperties, TLAPS

DatabaseTyped ==
  /\ status \in [Tasks -> Statuses]
  /\ chunks \in [Tasks -> SUBSET ChunkStatuses]
  /\ transcript \in [Tasks -> BOOLEAN]
  /\ versioned \in [Tasks -> BOOLEAN]
  /\ route \in [Tasks -> Queues]
  /\ writer \in Workers \union {NoOne}

ProcessTyped ==
  /\ RuntimeTypeOK
  /\ queue \in [Queues -> Seq(Tasks)]
  /\ lock \in Handlers \union {NoOne}

BoundsTyped ==
  /\ lost \subseteq Tasks
  /\ requests \in 0 .. MaxRequests
  /\ escapes \in 0 .. MaxEscapes
  /\ restarts \in 0 .. MaxRestarts

WorkersTyped ==
  /\ worker \in [Workers -> WorkerRecords]
  /\ \A w \in Workers : worker[w].pc # "idle" => worker[w].task \in Tasks

HandlersTyped ==
  /\ handler \in [Handlers -> HandlerRecords]
  /\ \A h \in Handlers :
       handler[h].pc \notin {"idle", "scan", "reap"} => handler[h].task \in Tasks

Typed == DatabaseTyped /\ ProcessTyped /\ BoundsTyped /\ WorkersTyped /\ HandlersTyped

(***************************************************************************)
(* The ways a thread's record changes keep it typed.                       *)
(***************************************************************************)
LEMMA IdleTyped == Idle \in HandlerRecords /\ Idle.pc = "idle"
  BY BoundsAssumption DEF Idle, HandlerRecords, HandlerPCs, Kinds, Statuses, NoRow

LEMMA DoneTyped ==
  ASSUME HandlersTyped, NEW h \in Handlers, Done(h)
  PROVE  HandlersTyped'
  BY IdleTyped DEF HandlersTyped, Done

LEMMA GotoTyped ==
  ASSUME HandlersTyped, NEW h \in Handlers, NEW pc \in HandlerPCs, Goto(h, pc),
         handler[h].task \in Tasks
  PROVE  HandlersTyped'
  BY DEF HandlersTyped, Goto, HandlerRecords

LEMMA BeginTyped ==
  ASSUME HandlersTyped, BoundsTyped, NEW h \in Handlers, NEW kind \in Kinds,
         NEW t \in Tasks, NEW pc \in HandlerPCs, Begin(h, kind, t, pc)
  PROVE  HandlersTyped' /\ BoundsTyped'
<1>1. [Idle EXCEPT !.kind = kind, !.task = t, !.pc = pc] \in HandlerRecords
  BY IdleTyped DEF HandlerRecords
<1>2. [Idle EXCEPT !.kind = kind, !.task = t, !.pc = pc].task = t
  BY IdleTyped DEF HandlerRecords
<1>3. HandlersTyped'
  BY <1>1, <1>2 DEF HandlersTyped, Begin
<1> QED
  BY <1>3, BoundsAssumption DEF BoundsTyped, Begin

LEMMA StepTyped ==
  ASSUME WorkersTyped, NEW w \in Workers, NEW pc \in WorkerPCs, Step(w, pc),
         worker[w].pc # "idle"
  PROVE  WorkersTyped'
  BY DEF WorkersTyped, Step, WorkerRecords

LEMMA RaiseTyped ==
  ASSUME WorkersTyped, NEW w \in Workers, worker[w].pc # "idle",
         NEW code \in {"cancelled", "error", "followup"}, Raise(w, code)
  PROVE  WorkersTyped'
<1> DEFINE raised == [worker[w] EXCEPT !.pc = "raise", !.code = code]
<1>1. "raise" \in WorkerPCs
  BY DEF WorkerPCs
<1>2. worker[w] \in WorkerRecords /\ worker[w].task \in Tasks
  BY DEF WorkersTyped
<1>3. raised \in WorkerRecords /\ raised.task = worker[w].task
  BY <1>1, <1>2 DEF WorkerRecords
<1>4. worker' = [worker EXCEPT ![w] = raised]
  BY DEF Raise
<1> QED
  BY <1>2, <1>3, <1>4 DEF WorkersTyped

LEMMA EnterTyped ==
  ASSUME WorkersTyped, NEW w \in Workers, worker[w].pc # "idle",
         NEW s \in Stages, Enter(w, s)
  PROVE  WorkersTyped'
<1> DEFINE entered == [worker[w] EXCEPT !.pc = "enter", !.stage = s]
<1>1. "enter" \in WorkerPCs
  BY DEF WorkerPCs
<1>2. worker[w] \in WorkerRecords /\ worker[w].task \in Tasks
  BY DEF WorkersTyped
<1>3. entered \in WorkerRecords /\ entered.task = worker[w].task
  BY <1>1, <1>2 DEF WorkerRecords
<1>4. worker' = [worker EXCEPT ![w] = entered]
  BY DEF Enter
<1> QED
  BY <1>2, <1>3, <1>4 DEF WorkersTyped

LEMMA WorklessTyped ==
  ASSUME WorkersTyped, NEW w \in Workers, worker' = [worker EXCEPT ![w] = Workless]
  PROVE  WorkersTyped'
  BY DEF WorkersTyped, Workless, WorkerRecords, WorkerPCs, Stages

(* Statuses and stages the actions write. *)
LEMMA StatusNames ==
  /\ {"queued", "importing", "transcribing", "cancelled", "completed", "failed",
      "deleted", "failed_resumable", "interrupted"} \subseteq Statuses
  /\ Stages \subseteq Statuses
  BY DEF Statuses, ActiveStatuses, SettledStatuses, NoRow, Stages

LEMMA TypedTypeOK == Typed => TypeOK
  BY DEF Typed, DatabaseTyped, ProcessTyped, BoundsTyped, WorkersTyped, HandlersTyped, TypeOK

LEMMA TypedInit == Init => Typed
<1> SUFFICES ASSUME Init PROVE Typed
  OBVIOUS
<1>1. Workless \in WorkerRecords
  BY DEF Workless, WorkerRecords, WorkerPCs, Stages
<1>2. WorkersTyped
  BY <1>1 DEF Init, WorkersTyped, Workless
<1>3. HandlersTyped
  BY IdleTyped DEF Init, HandlersTyped
<1>4. DatabaseTyped
  BY DEF Init, DatabaseTyped, Statuses, NoRow
<1> QED
  BY <1>2, <1>3, <1>4, BoundsAssumption
  DEF Init, Typed, ProcessTyped, BoundsTyped, RuntimeInit, RuntimeTypeOK, Queues

LEMMA WorkerStepTyped ==
  ASSUME Typed, NEW w \in Workers, WorkerStep(w) \/ EscapeRun(w) \/ FailCleanUp(w)
  PROVE  Typed'
<1>1. CASE ReadRow(w)
  <2>1. WorkersTyped'
    BY <1>1, StepTyped
    DEF ReadRow, Typed, WorkerPCs
  <2> QED
    BY <1>1, <2>1, StatusNames, BoundsAssumption
    DEF ReadRow, Typed, DatabaseTyped, ProcessTyped, BoundsTyped,
        RuntimeTypeOK, WorkersTyped, HandlersTyped, besideWorkers, db,
        results, bounds, runtimeVars
<1>2. CASE SkipTask(w)
  <2>1. WorkersTyped'
    BY <1>2, WorklessTyped
    DEF SkipTask, Typed, WorkerPCs
  <2> QED
    BY <1>2, <2>1, StatusNames, BoundsAssumption
    DEF SkipTask, Typed, DatabaseTyped, ProcessTyped, BoundsTyped,
        RuntimeTypeOK, WorkersTyped, HandlersTyped, MarkFinished, db,
        results, bounds, runtimeVars
<1>3. CASE ClaimTask(w)
  <2>1. WorkersTyped'
    BY <1>3, StepTyped
    DEF ClaimTask, Typed, WorkerPCs
  <2> QED
    BY <1>3, <2>1, StatusNames, BoundsAssumption
    DEF ClaimTask, Typed, DatabaseTyped, ProcessTyped, BoundsTyped,
        RuntimeTypeOK, WorkersTyped, HandlersTyped, MarkRunning, db,
        results, bounds, runtimeVars
<1>4. CASE StartRun(w)
  <2>1. WorkersTyped'
    BY <1>4, StepTyped, EnterTyped
    DEF StartRun, Typed, WorkerPCs, Stages
  <2> QED
    BY <1>4, <2>1, StatusNames, BoundsAssumption
    DEF StartRun, Typed, DatabaseTyped, ProcessTyped, BoundsTyped,
        RuntimeTypeOK, WorkersTyped, HandlersTyped, besideWorkers, db,
        results, bounds, runtimeVars
<1>5. CASE SetTaskState(w)
  <2>1. WorkersTyped'
    BY <1>5, StepTyped, RaiseTyped DEF SetTaskState, Typed, WorkerPCs
  <2>2. worker[w].stage \in Statuses
    BY StatusNames DEF Typed, WorkersTyped, WorkerRecords
  <2>3. DatabaseTyped'
    BY <1>5, <2>2 DEF SetTaskState, Typed, DatabaseTyped, results
  <2> QED
    BY <1>5, <2>1, <2>3 DEF SetTaskState, Typed, ProcessTyped, BoundsTyped,
       RuntimeTypeOK, HandlersTyped, besideWorkers, bounds, runtimeVars
<1>6. CASE WorkStage(w)
  <2>1. WorkersTyped'
    BY <1>6, StepTyped, RaiseTyped, EnterTyped
    DEF WorkStage, Typed, WorkerPCs, NextStages, Stages
  <2> QED
    BY <1>6, <2>1, StatusNames, BoundsAssumption
    DEF WorkStage, Typed, DatabaseTyped, ProcessTyped, BoundsTyped,
        RuntimeTypeOK, WorkersTyped, HandlersTyped, besideWorkers, db,
        results, bounds, runtimeVars
<1>7. CASE SplitChunks(w)
  <2>1. WorkersTyped'
    BY <1>7, StepTyped
    DEF SplitChunks, Typed, WorkerPCs
  <2> QED
    BY <1>7, <2>1, StatusNames, BoundsAssumption
    DEF SplitChunks, Typed, DatabaseTyped, ProcessTyped, BoundsTyped,
        RuntimeTypeOK, WorkersTyped, HandlersTyped, besideWorkers, db,
        results, bounds, runtimeVars, ChunkStatuses
<1>8. CASE CompleteChunk(w)
  <2>1. WorkersTyped'
    BY <1>8 DEF CompleteChunk, Typed, WorkersTyped
  <2>2. PICK c \in {{"completed"}, {"open", "completed"}} :
          chunks' = [chunks EXCEPT ![worker[w].task] = c]
    BY <1>8 DEF CompleteChunk
  <2>3. c \in SUBSET ChunkStatuses
    BY <2>2 DEF ChunkStatuses
  <2>4. chunks' \in [Tasks -> SUBSET ChunkStatuses]
    BY <2>2, <2>3 DEF Typed, DatabaseTyped
  <2> QED
    BY <1>8, <2>1, <2>4 DEF CompleteChunk, Typed, DatabaseTyped, ProcessTyped,
       BoundsTyped, RuntimeTypeOK, HandlersTyped, besideWorkers, results, bounds, runtimeVars
<1>9. CASE FailTranscription(w)
  <2>1. WorkersTyped'
    BY <1>9, RaiseTyped
    DEF FailTranscription, Typed, WorkerPCs
  <2>2. worker[w].task \in Tasks /\ chunks[worker[w].task] \in SUBSET ChunkStatuses
    BY <1>9 DEF FailTranscription, Typed, WorkersTyped, DatabaseTyped
  <2>3. \E c \in SUBSET ChunkStatuses : chunks' = [chunks EXCEPT ![worker[w].task] = c]
    BY <1>9, <2>2 DEF FailTranscription, ChunkStatuses
  <2>4. chunks' \in [Tasks -> SUBSET ChunkStatuses]
    BY <2>3 DEF Typed, DatabaseTyped
  <2> QED
    BY <1>9, <2>1, <2>4 DEF FailTranscription, Typed, DatabaseTyped, ProcessTyped,
       BoundsTyped, RuntimeTypeOK, HandlersTyped, besideWorkers, results, bounds, runtimeVars
<1>10. CASE EndTranscription(w)
  <2>1. WorkersTyped'
    BY <1>10, StepTyped
    DEF EndTranscription, Typed, WorkerPCs
  <2> QED
    BY <1>10, <2>1, StatusNames, BoundsAssumption
    DEF EndTranscription, Typed, DatabaseTyped, ProcessTyped, BoundsTyped,
        RuntimeTypeOK, WorkersTyped, HandlersTyped, besideWorkers, db,
        results, bounds, runtimeVars
<1>11. CASE RefreshRow(w)
  <2>1. WorkersTyped'
    BY <1>11, StepTyped, RaiseTyped, EnterTyped
    DEF RefreshRow, Typed, WorkerPCs, Stages
  <2> QED
    BY <1>11, <2>1, StatusNames, BoundsAssumption
    DEF RefreshRow, Typed, DatabaseTyped, ProcessTyped, BoundsTyped,
        RuntimeTypeOK, WorkersTyped, HandlersTyped, besideWorkers, db,
        results, bounds, runtimeVars
<1>12. CASE StoreSegments(w)
  <2>1. WorkersTyped'
    BY <1>12, StepTyped, RaiseTyped
    DEF StoreSegments, Typed, WorkerPCs
  <2> QED
    BY <1>12, <2>1, StatusNames, BoundsAssumption
    DEF StoreSegments, Typed, DatabaseTyped, ProcessTyped, BoundsTyped,
        RuntimeTypeOK, WorkersTyped, HandlersTyped, besideWorkers, db,
        results, bounds, runtimeVars
<1>13. CASE FinalCheck(w)
  <2>1. WorkersTyped'
    BY <1>13, StepTyped, RaiseTyped
    DEF FinalCheck, Typed, WorkerPCs
  <2> QED
    BY <1>13, <2>1, StatusNames, BoundsAssumption
    DEF FinalCheck, Typed, DatabaseTyped, ProcessTyped, BoundsTyped,
        RuntimeTypeOK, WorkersTyped, HandlersTyped, besideWorkers, db,
        results, bounds, runtimeVars
<1>14. CASE CommitCompletion(w)
  <2>1. WorkersTyped'
    BY <1>14, StepTyped, RaiseTyped DEF CommitCompletion, Typed, WorkerPCs
  <2>2. transcript' \in [Tasks -> BOOLEAN]
    BY <1>14 DEF CommitCompletion, Typed, DatabaseTyped
  <2>3. status' \in [Tasks -> Statuses]
    BY <1>14, StatusNames DEF CommitCompletion, Typed, DatabaseTyped
  <2>4. DatabaseTyped'
    BY <1>14, <2>2, <2>3 DEF CommitCompletion, Typed, DatabaseTyped
  <2> QED
    BY <1>14, <2>1, <2>4 DEF CommitCompletion, Typed, ProcessTyped, BoundsTyped,
       RuntimeTypeOK, HandlersTyped, besideWorkers, bounds, runtimeVars
<1>15. CASE CleanUp(w)
  <2>1. WorkersTyped'
    BY <1>15, StepTyped
    DEF CleanUp, Typed, WorkerPCs
  <2> QED
    BY <1>15, <2>1, StatusNames, BoundsAssumption
    DEF CleanUp, Typed, DatabaseTyped, ProcessTyped, BoundsTyped,
        RuntimeTypeOK, WorkersTyped, HandlersTyped, besideWorkers, db,
        results, bounds, runtimeVars
<1>16. CASE HandleError(w)
  <2>1. WorkersTyped'
    BY <1>16, StepTyped
    DEF HandleError, Typed, WorkerPCs
  <2> QED
    BY <1>16, <2>1, StatusNames, BoundsAssumption
    DEF HandleError, Typed, DatabaseTyped, ProcessTyped, BoundsTyped,
        RuntimeTypeOK, WorkersTyped, HandlersTyped, besideWorkers, db,
        results, bounds, runtimeVars
<1>17. CASE RecordFailure(w)
  <2>1. WorkersTyped'
    BY <1>17, StepTyped
    DEF RecordFailure, Typed, WorkerPCs
  <2> QED
    BY <1>17, <2>1, StatusNames, BoundsAssumption
    DEF RecordFailure, Typed, DatabaseTyped, ProcessTyped, BoundsTyped,
        RuntimeTypeOK, WorkersTyped, HandlersTyped, besideWorkers, db,
        results, bounds, runtimeVars
<1>18. CASE FinishRun(w)
  <2>1. WorkersTyped'
    BY <1>18, WorklessTyped
    DEF FinishRun, Typed, WorkerPCs
  <2> QED
    BY <1>18, <2>1, StatusNames, BoundsAssumption
    DEF FinishRun, Typed, DatabaseTyped, ProcessTyped, BoundsTyped,
        RuntimeTypeOK, WorkersTyped, HandlersTyped, MarkFinished, db,
        results, bounds, runtimeVars
<1>19. CASE ReadEscaped(w)
  <2>1. WorkersTyped'
    BY <1>19, StepTyped
    DEF ReadEscaped, Typed, WorkerPCs
  <2> QED
    BY <1>19, <2>1, StatusNames, BoundsAssumption
    DEF ReadEscaped, Typed, DatabaseTyped, ProcessTyped, BoundsTyped,
        RuntimeTypeOK, WorkersTyped, HandlersTyped, besideWorkers, db,
        results, bounds, runtimeVars
<1>20. CASE BuryTask(w)
  <2>1. WorkersTyped'
    BY <1>20, StepTyped
    DEF BuryTask, Typed, WorkerPCs
  <2> QED
    BY <1>20, <2>1, StatusNames, BoundsAssumption
    DEF BuryTask, Typed, DatabaseTyped, ProcessTyped, BoundsTyped,
        RuntimeTypeOK, WorkersTyped, HandlersTyped, besideWorkers, db,
        results, bounds, runtimeVars
<1>21. CASE EscapeRun(w)
  <2>1. WorkersTyped'
    BY <1>21, StepTyped
    DEF EscapeRun, Typed, WorkerPCs
  <2> QED
    BY <1>21, <2>1, StatusNames, BoundsAssumption
    DEF EscapeRun, Typed, DatabaseTyped, ProcessTyped, BoundsTyped,
        RuntimeTypeOK, WorkersTyped, HandlersTyped, MarkFinished, db,
        results, bounds, runtimeVars
<1>22. CASE GetTask(w)
  <2>1. Serves(w) \in Queues
    BY DEF Serves, Queues
  <2>2. /\ queue[Serves(w)] \in Seq(Tasks) /\ queue[Serves(w)] # <<>>
        /\ queue' = [queue EXCEPT ![Serves(w)] = Tail(@)]
    BY <1>22, <2>1 DEF GetTask, Typed, ProcessTyped
  <2>3. Tail(queue[Serves(w)]) \in Seq(Tasks) /\ Head(queue[Serves(w)]) \in Tasks
    BY <2>2
  <2>4. [Workless EXCEPT !.pc = "got", !.task = Head(queue[Serves(w)])] \in WorkerRecords
    BY <2>3 DEF Workless, WorkerRecords, WorkerPCs, Stages
  <2>5. WorkersTyped'
    BY <1>22, <2>3, <2>4 DEF GetTask, Typed, WorkersTyped, Workless
  <2>6. queue' \in [Queues -> Seq(Tasks)]
    BY <2>1, <2>2, <2>3 DEF Typed, ProcessTyped
  <2> QED
    BY <1>22, <2>5, <2>6 DEF GetTask, Typed, DatabaseTyped, ProcessTyped, BoundsTyped,
       RuntimeTypeOK, HandlersTyped, db, bounds, runtimeVars
<1>23. CASE FailCleanUp(w)
  <2>1. WorkersTyped'
    BY <1>23, RaiseTyped DEF FailCleanUp, Typed
  <2> QED
    BY <1>23, <2>1, BoundsAssumption
    DEF FailCleanUp, Typed, DatabaseTyped, ProcessTyped, BoundsTyped,
        RuntimeTypeOK, HandlersTyped, db, results, runtimeVars
<1> QED
  BY <1>1, <1>2, <1>3, <1>4, <1>5, <1>6, <1>7, <1>8, <1>9, <1>10, <1>11, <1>12, <1>13, <1>14, <1>15, <1>16, <1>17, <1>18, <1>19, <1>20, <1>21, <1>22, <1>23 DEF WorkerStep

LEMMA NewRequestTyped ==
  ASSUME Typed, NEW h \in Handlers, NewRequest(h)
  PROVE  Typed'
<1>1. ASSUME NEW t \in Tasks, CreateTask(h, t) PROVE Typed'
  <2>1. HandlersTyped' /\ BoundsTyped'
    BY <1>1, BeginTyped DEF CreateTask, Typed, Kinds, HandlerPCs
  <2> QED
    BY <1>1, <2>1, StatusNames
    DEF CreateTask, Typed, DatabaseTyped, ProcessTyped, RuntimeTypeOK,
        WorkersTyped, db, results, runtimeVars
<1>2. ASSUME NEW t \in Tasks, CancelTask(h, t) PROVE Typed'
  <2>1. HandlersTyped' /\ BoundsTyped'
    BY <1>2, BeginTyped DEF CancelTask, Typed, Kinds, HandlerPCs, BeginLocked
  <2> QED
    BY <1>2, <2>1, StatusNames
    DEF CancelTask, BeginLocked, Typed, DatabaseTyped, ProcessTyped,
        RuntimeTypeOK, WorkersTyped, db, results, runtimeVars
<1>3. ASSUME NEW t \in Tasks, DeleteTask(h, t) PROVE Typed'
  <2>1. HandlersTyped' /\ BoundsTyped'
    BY <1>3, BeginTyped DEF DeleteTask, Typed, Kinds, HandlerPCs, BeginLocked
  <2> QED
    BY <1>3, <2>1, StatusNames
    DEF DeleteTask, BeginLocked, Typed, DatabaseTyped, ProcessTyped,
        RuntimeTypeOK, WorkersTyped, db, results, runtimeVars
<1>4. ASSUME NEW t \in Tasks, NEW kind, RequeueTask(h, t, kind) PROVE Typed'
  <2>1. HandlersTyped' /\ BoundsTyped'
    BY <1>4, BeginTyped DEF RequeueTask, Typed, Kinds, HandlerPCs, BeginLocked
  <2> QED
    BY <1>4, <2>1, StatusNames
    DEF RequeueTask, BeginLocked, Typed, DatabaseTyped, ProcessTyped,
        RuntimeTypeOK, WorkersTyped, db, results, runtimeVars
<1>5. ASSUME NEW t \in Tasks, NEW kind, MutateTask(h, t, kind) PROVE Typed'
  <2>1. HandlersTyped' /\ BoundsTyped'
    BY <1>5, BeginTyped DEF MutateTask, Typed, Kinds, HandlerPCs, BeginLocked
  <2> QED
    BY <1>5, <2>1, StatusNames
    DEF MutateTask, BeginLocked, Typed, DatabaseTyped, ProcessTyped,
        RuntimeTypeOK, WorkersTyped, db, results, runtimeVars
<1>6. ASSUME NEW t \in Tasks, ClaimChunks(h, t) PROVE Typed'
  <2>1. status[t] \in Statuses
    BY DEF Typed, DatabaseTyped
  <2>2. ASSUME NEW n \in 1 .. MaxRetried
        PROVE  [Idle EXCEPT !.kind = "chunks", !.task = t, !.pc = "claim", !.left = n,
                            !.prev = status[t]] \in HandlerRecords
    <3>1. n \in 0 .. MaxRetried
      BY BoundsAssumption
    <3> QED
      BY <2>1, <3>1, IdleTyped DEF HandlerRecords, HandlerPCs, Kinds
  <2>3. HandlersTyped'
    BY <1>6, <2>2, IdleTyped DEF ClaimChunks, Typed, HandlersTyped, HandlerRecords
  <2>4. requests' \in 0 .. MaxRequests
    BY <1>6, BoundsAssumption DEF ClaimChunks, Typed, BoundsTyped
  <2> QED
    BY <1>6, <2>3, <2>4 DEF ClaimChunks, Typed, DatabaseTyped, ProcessTyped, BoundsTyped,
       RuntimeTypeOK, WorkersTyped, db, runtimeVars
<1>7. CASE ReconcileOrphans(h)
  <2>1. ActiveIds \in SUBSET Tasks
    BY DEF ActiveIds, Typed, ProcessTyped, RuntimeTypeOK
  <2>2. [Idle EXCEPT !.kind = "reconcile", !.pc = "scan", !.seen = ActiveIds] \in HandlerRecords
    BY <2>1, IdleTyped DEF HandlerRecords, HandlerPCs, Kinds
  <2>3. HandlersTyped'
    BY <1>7, <2>2, IdleTyped DEF ReconcileOrphans, Typed, HandlersTyped, HandlerRecords
  <2>4. requests' \in 0 .. MaxRequests
    BY <1>7, BoundsAssumption DEF ReconcileOrphans, Typed, BoundsTyped
  <2> QED
    BY <1>7, <2>3, <2>4 DEF ReconcileOrphans, Typed, DatabaseTyped, ProcessTyped,
       BoundsTyped, RuntimeTypeOK, WorkersTyped, db, runtimeVars
<1> QED
  BY <1>1, <1>2, <1>3, <1>4, <1>5, <1>6, <1>7 DEF NewRequest

LEMMA CommitRequestTyped ==
  ASSUME Typed, NEW h \in Handlers, CommitRequest(h)
  PROVE  Typed'
<1>1. UNCHANGED <<writer, queue, worker, runtimeVars, bounds>> /\ lost' \subseteq Tasks
  BY DEF CommitRequest, CommitCancel, CommitDelete, CommitRetry, CommitRetranscribe,
     CommitReconcile, CommitCleanup, CommitPostprocess, Typed, BoundsTyped
<1>2. CASE CommitCancel(h)
  <2>1. handler[h].task \in Tasks
    BY <1>2 DEF CommitCancel, Typed, HandlersTyped, At
  <2>2. HandlersTyped'
    BY <1>2, DoneTyped DEF CommitCancel, Typed, HandlerPCs
  <2> QED
    BY <1>1, <1>2, <2>1, <2>2, StatusNames
    DEF CommitCancel, Typed, DatabaseTyped, ProcessTyped, BoundsTyped,
        RuntimeTypeOK, WorkersTyped, Release, results, bounds, runtimeVars
<1>3. CASE CommitDelete(h)
  <2>1. handler[h].task \in Tasks
    BY <1>3 DEF CommitDelete, Typed, HandlersTyped, At
  <2>2. HandlersTyped'
    BY <1>3, DoneTyped DEF CommitDelete, Typed, HandlerPCs
  <2> QED
    BY <1>1, <1>3, <2>1, <2>2, StatusNames
    DEF CommitDelete, Typed, DatabaseTyped, ProcessTyped, BoundsTyped,
        RuntimeTypeOK, WorkersTyped, Release, results, bounds, runtimeVars
<1>4. CASE CommitRetry(h)
  <2>1. handler[h].task \in Tasks
    BY <1>4 DEF CommitRetry, Typed, HandlersTyped, At
  <2>2. HandlersTyped'
    BY <1>4, <2>1, GotoTyped DEF CommitRetry, Typed, HandlerPCs
  <2> QED
    BY <1>1, <1>4, <2>1, <2>2, StatusNames
    DEF CommitRetry, Typed, DatabaseTyped, ProcessTyped, BoundsTyped,
        RuntimeTypeOK, WorkersTyped, Release, results, bounds, runtimeVars
<1>5. CASE CommitRetranscribe(h)
  <2>1. handler[h].task \in Tasks
    BY <1>5 DEF CommitRetranscribe, Typed, HandlersTyped, At
  <2>2. HandlersTyped'
    BY <1>5, <2>1, GotoTyped DEF CommitRetranscribe, Typed, HandlerPCs
  <2> QED
    BY <1>1, <1>5, <2>1, <2>2, StatusNames
    DEF CommitRetranscribe, Typed, DatabaseTyped, ProcessTyped, BoundsTyped,
        RuntimeTypeOK, WorkersTyped, Release, results, bounds, runtimeVars
<1>6. CASE CommitReconcile(h)
  <2>1. HandlersTyped'
    BY <1>6, DoneTyped DEF CommitReconcile, Typed, HandlerPCs
  <2> QED
    BY <1>1, <1>6, <2>1, StatusNames
    DEF CommitReconcile, Typed, DatabaseTyped, ProcessTyped, BoundsTyped,
        RuntimeTypeOK, WorkersTyped, Interrupted, Release, results, bounds,
        runtimeVars
<1>7. CASE CommitCleanup(h)
  <2>1. handler[h].task \in Tasks
    BY <1>7 DEF CommitCleanup, Typed, HandlersTyped, At
  <2>2. HandlersTyped'
    BY <1>7, DoneTyped DEF CommitCleanup, Typed, HandlerPCs
  <2> QED
    BY <1>1, <1>7, <2>1, <2>2, StatusNames
    DEF CommitCleanup, Typed, DatabaseTyped, ProcessTyped, BoundsTyped,
        RuntimeTypeOK, WorkersTyped, Release, results, bounds, runtimeVars
<1>8. CASE CommitPostprocess(h)
  <2>1. handler[h].task \in Tasks
    BY <1>8 DEF CommitPostprocess, Typed, HandlersTyped, At
  <2>2. HandlersTyped'
    BY <1>8, DoneTyped DEF CommitPostprocess, Typed, HandlerPCs
  <2> QED
    BY <1>1, <1>8, <2>1, <2>2, StatusNames
    DEF CommitPostprocess, Typed, DatabaseTyped, ProcessTyped, BoundsTyped,
        RuntimeTypeOK, WorkersTyped, Release, results, bounds, runtimeVars
<1> QED
  BY <1>2, <1>3, <1>4, <1>5, <1>6, <1>7, <1>8 DEF CommitRequest

LEMMA HandlerStepTyped ==
  ASSUME Typed, NEW h \in Handlers, HandlerStep(h) \/ AbortChunks(h) \/ DropRequest(h)
  PROVE  Typed'
<1>1. CASE StartTask(h)
  <2>1. handler[h].task \in Tasks
    BY <1>1 DEF StartTask, Typed, HandlersTyped
  <2>2. HandlersTyped'
    BY <1>1, <2>1, GotoTyped, DoneTyped DEF StartTask, Typed, HandlerPCs
  <2> QED
    BY <1>1, <2>1, <2>2, StatusNames, BoundsAssumption
    DEF StartTask, Typed, DatabaseTyped, ProcessTyped, BoundsTyped,
        RuntimeTypeOK, WorkersTyped, MarkQueued, Release, db, results,
        bounds, runtimeVars
<1>2. CASE PutTask(h)
  <2>1. handler[h].task \in Tasks
    BY <1>2 DEF PutTask, Typed, HandlersTyped
  <2>2. HandlersTyped'
    BY <1>2, <2>1, DoneTyped DEF PutTask, Typed, HandlerPCs
  <2> QED
    BY <1>2, <2>1, <2>2, StatusNames, BoundsAssumption
    DEF PutTask, Typed, DatabaseTyped, ProcessTyped, BoundsTyped,
        RuntimeTypeOK, WorkersTyped, Release, db, results, bounds,
        runtimeVars
<1>3. CASE FlagTask(h)
  <2>1. handler[h].task \in Tasks
    BY <1>3 DEF FlagTask, Typed, HandlersTyped
  <2>2. HandlersTyped'
    BY <1>3, <2>1, GotoTyped DEF FlagTask, Typed, HandlerPCs
  <2> QED
    BY <1>3, <2>1, <2>2, StatusNames, BoundsAssumption
    DEF FlagTask, Typed, DatabaseTyped, ProcessTyped, BoundsTyped,
        RuntimeTypeOK, WorkersTyped, RequestCancel, db, results, bounds,
        runtimeVars
<1>4. CASE CommitClaim(h)
  <2>1. handler[h].task \in Tasks
    BY <1>4 DEF CommitClaim, Typed, HandlersTyped
  <2>2. HandlersTyped'
    BY <1>4, <2>1, GotoTyped DEF CommitClaim, Typed, HandlerPCs
  <2> QED
    BY <1>4, <2>1, <2>2, StatusNames, BoundsAssumption
    DEF CommitClaim, Typed, DatabaseTyped, ProcessTyped, BoundsTyped,
        RuntimeTypeOK, WorkersTyped, besideHandlers, db, results, bounds,
        runtimeVars
<1>5. CASE MarkClaim(h)
  <2>1. handler[h].task \in Tasks
    BY <1>5 DEF MarkClaim, Typed, HandlersTyped
  <2>2. HandlersTyped'
    BY <1>5, <2>1, GotoTyped DEF MarkClaim, Typed, HandlerPCs
  <2> QED
    BY <1>5, <2>1, <2>2, StatusNames, BoundsAssumption
    DEF MarkClaim, Typed, DatabaseTyped, ProcessTyped, BoundsTyped,
        RuntimeTypeOK, WorkersTyped, MarkRunning, Release, db, results,
        bounds, runtimeVars
<1>6. CASE KeepChunk(h)
  <2>1. handler[h].task \in Tasks
    BY <1>6 DEF KeepChunk, Typed, HandlersTyped
  <2>2. HandlersTyped'
    BY <1>6, <2>1, GotoTyped DEF KeepChunk, Typed, HandlerPCs
  <2>3. handler[h].rest \in SUBSET ChunkStatuses
    BY DEF Typed, HandlersTyped, HandlerRecords
  <2> QED
    BY <1>6, <2>1, <2>2, <2>3, StatusNames, BoundsAssumption
    DEF KeepChunk, Typed, DatabaseTyped, ProcessTyped, BoundsTyped,
        RuntimeTypeOK, WorkersTyped, besideHandlers, ChunkStatuses, db,
        results, bounds, runtimeVars
<1>7. CASE AbortChunks(h)
  <2>1. handler[h].task \in Tasks
    BY <1>7 DEF AbortChunks, Typed, HandlersTyped
  <2>2. HandlersTyped'
    BY <1>7, <2>1, GotoTyped DEF AbortChunks, Typed, HandlerPCs
  <2>3. status' \in [Tasks -> Statuses] /\ lost' \subseteq Tasks
    BY <1>7, <2>1, StatusNames DEF AbortChunks, Typed, DatabaseTyped, BoundsTyped
  <2>4. BoundsTyped'
    BY <1>7, <2>3, BoundsAssumption DEF AbortChunks, Typed, BoundsTyped
  <2> QED
    BY <1>7, <2>2, <2>3, <2>4
    DEF AbortChunks, Typed, DatabaseTyped, ProcessTyped,
        RuntimeTypeOK, WorkersTyped, Release, results, runtimeVars
<1>8. CASE FinishChunks(h)
  <2>1. handler[h].task \in Tasks
    BY <1>8 DEF FinishChunks, Typed, HandlersTyped
  <2>2. HandlersTyped'
    BY <1>8, <2>1, DoneTyped DEF FinishChunks, Typed, HandlerPCs
  <2> QED
    BY <1>8, <2>1, <2>2, StatusNames, BoundsAssumption
    DEF FinishChunks, Typed, DatabaseTyped, ProcessTyped, BoundsTyped,
        RuntimeTypeOK, WorkersTyped, MarkFinished, db, results, bounds,
        runtimeVars
<1>9. CASE SettleChunks(h)
  <2>1. handler[h].task \in Tasks /\ handler[h].prev \in Statuses
    BY <1>9 DEF SettleChunks, Typed, HandlersTyped, HandlerRecords
  <2>2. HandlersTyped'
    BY <1>9, <2>1, GotoTyped DEF SettleChunks, Typed, HandlerPCs
  <2>3. status' \in [Tasks -> Statuses]
    BY <1>9, <2>1 DEF SettleChunks, Typed, DatabaseTyped
  <2>4. transcript' \in [Tasks -> BOOLEAN] /\ versioned' \in [Tasks -> BOOLEAN]
    BY <1>9 DEF SettleChunks, Typed, DatabaseTyped
  <2> QED
    BY <1>9, <2>2, <2>3, <2>4 DEF SettleChunks, Typed, DatabaseTyped, ProcessTyped,
       BoundsTyped, RuntimeTypeOK, WorkersTyped, Release, bounds, runtimeVars
<1>10. CASE ScanRows(h)
  <2>1. HandlersTyped'
    <3>1. ASSUME NEW s \in SUBSET Tasks
          PROVE  /\ [handler[h] EXCEPT !.pc = "reap", !.seen = s] \in HandlerRecords
                 /\ [handler[h] EXCEPT !.pc = "reap", !.seen = s].pc = "reap"
      BY DEF Typed, HandlersTyped, HandlerRecords, HandlerPCs
    <3>2. CASE Done(h)
      BY <3>2, DoneTyped DEF Typed
    <3>3. CASE \E s \in SUBSET Tasks :
                 handler' = [handler EXCEPT ![h] = [@ EXCEPT !.pc = "reap", !.seen = s]]
      BY <3>1, <3>3 DEF Typed, HandlersTyped
    <3> QED
      BY <1>10, <3>2, <3>3 DEF ScanRows
  <2> QED
    BY <1>10, <2>1 DEF ScanRows, Typed, DatabaseTyped, ProcessTyped, BoundsTyped,
       RuntimeTypeOK, WorkersTyped, besideHandlers, db, bounds, runtimeVars
<1>11. CASE AttemptChunk(h)
  <2>1. /\ handler[h] \in HandlerRecords /\ handler[h].task \in Tasks
        /\ handler[h].left \in 0 .. MaxRetried /\ handler[h].left > 0
    BY <1>11 DEF AttemptChunk, Typed, HandlersTyped, HandlerRecords
  <2>2. handler[h].left - 1 \in 0 .. MaxRetried
    BY <2>1, BoundsAssumption
  <2>3. UNCHANGED <<results, writer, besideHandlers>>
    BY <1>11 DEF AttemptChunk
  <2>4. /\ DatabaseTyped'
        /\ HandlersTyped'
    <3>1. CASE /\ status' = IF Exists(handler[h].task)
                           THEN [status EXCEPT ![handler[h].task] = "failed"] ELSE status
              /\ handler' = [handler EXCEPT ![h] = [@ EXCEPT !.left = handler[h].left - 1,
                                                              !.ok = FALSE]]
              /\ UNCHANGED chunks
      <4>1. /\ [handler[h] EXCEPT !.left = handler[h].left - 1, !.ok = FALSE] \in HandlerRecords
            /\ [handler[h] EXCEPT !.left = handler[h].left - 1, !.ok = FALSE].task \in Tasks
        BY <2>1, <2>2 DEF HandlerRecords
      <4>2. HandlersTyped'
        BY <3>1, <4>1 DEF Typed, HandlersTyped
      <4> QED
        BY <2>3, <3>1, <4>2, StatusNames DEF Typed, DatabaseTyped, results
    <3>2. ASSUME NEW r \in {chunks[handler[h].task], chunks[handler[h].task] \ {"failed"}},
                 chunks' = [chunks EXCEPT ![handler[h].task] = r \union {"open"}],
                 handler' = [handler EXCEPT ![h] = [@ EXCEPT !.pc = "chunk", !.rest = r,
                                                            !.left = handler[h].left - 1]],
                 UNCHANGED status
          PROVE  DatabaseTyped' /\ HandlersTyped'
      <4>1. r \in SUBSET ChunkStatuses
        BY <2>1 DEF Typed, DatabaseTyped
      <4>2. /\ [handler[h] EXCEPT !.pc = "chunk", !.rest = r, !.left = handler[h].left - 1]
                 \in HandlerRecords
            /\ [handler[h] EXCEPT !.pc = "chunk", !.rest = r, !.left = handler[h].left - 1].task
                 \in Tasks
        BY <2>1, <2>2, <4>1 DEF HandlerRecords, HandlerPCs
      <4>3. HandlersTyped'
        BY <3>2, <4>2 DEF Typed, HandlersTyped
      <4> QED
        BY <2>3, <3>2, <4>1, <4>3 DEF Typed, DatabaseTyped, ChunkStatuses, results
    <3> QED
      BY <1>11, <3>1, <3>2 DEF AttemptChunk
  <2> QED
    BY <2>3, <2>4 DEF Typed, ProcessTyped, BoundsTyped, RuntimeTypeOK, WorkersTyped,
       besideHandlers, bounds, runtimeVars
<1>12. CASE EndChunk(h)
  <2>1. /\ handler[h] \in HandlerRecords /\ handler[h].task \in Tasks
        /\ handler[h].rest \in SUBSET ChunkStatuses
    BY <1>12 DEF EndChunk, Typed, HandlersTyped, HandlerRecords
  <2>2. /\ [handler[h] EXCEPT !.pc = "attempt", !.ok = FALSE] \in HandlerRecords
        /\ [handler[h] EXCEPT !.pc = "attempt", !.ok = FALSE].task \in Tasks
    BY <2>1 DEF HandlerRecords, HandlerPCs
  <2>3. HandlersTyped'
    <3>1. CASE Goto(h, "keep")
      BY <2>1, <3>1, GotoTyped DEF Typed, HandlerPCs
    <3>2. CASE handler' = [handler EXCEPT ![h] = [@ EXCEPT !.pc = "attempt", !.ok = FALSE]]
      BY <2>2, <3>2 DEF Typed, HandlersTyped
    <3> QED
      BY <1>12, <3>1, <3>2 DEF EndChunk
  <2>4. DatabaseTyped'
    BY <1>12, <2>1, StatusNames
    DEF EndChunk, Typed, DatabaseTyped, ChunkStatuses, results
  <2> QED
    BY <1>12, <2>3, <2>4 DEF EndChunk, Typed, ProcessTyped, BoundsTyped, RuntimeTypeOK,
       WorkersTyped, besideHandlers, bounds, runtimeVars
<1>13. CASE GatherChunks(h)
  <2>1. /\ handler[h] \in HandlerRecords /\ handler[h].task \in Tasks
        /\ handler[h].prev \in Statuses
    BY <1>13 DEF GatherChunks, Typed, HandlersTyped, HandlerRecords
  <2>2. ASSUME NEW s \in Statuses
        PROVE  /\ [handler[h] EXCEPT !.pc = "settle", !.prev = s] \in HandlerRecords
               /\ [handler[h] EXCEPT !.pc = "settle", !.prev = s].task \in Tasks
    BY <2>1 DEF HandlerRecords, HandlerPCs
  <2>3. \/ Goto(h, "finish") /\ UNCHANGED lock
        \/ \E s \in Statuses :
             /\ handler' = [handler EXCEPT ![h] = [@ EXCEPT !.pc = "settle", !.prev = s]]
             /\ lock' = h
    BY <1>13, <2>1, StatusNames DEF GatherChunks
  <2>4. HandlersTyped'
    <3>1. CASE Goto(h, "finish")
      BY <2>1, <3>1, GotoTyped DEF Typed, HandlerPCs
    <3>2. CASE \E s \in Statuses :
                 handler' = [handler EXCEPT ![h] = [@ EXCEPT !.pc = "settle", !.prev = s]]
      BY <2>2, <3>2 DEF Typed, HandlersTyped
    <3> QED
      BY <2>3, <3>1, <3>2
  <2> QED
    BY <1>13, <2>3, <2>4 DEF GatherChunks, Typed, DatabaseTyped, ProcessTyped, BoundsTyped,
       RuntimeTypeOK, WorkersTyped, db, bounds, runtimeVars
<1>14. CASE DropRequest(h)
  <2>1. handler[h].task \in Tasks
    BY <1>14 DEF DropRequest, Typed, HandlersTyped
  <2>2. HandlersTyped'
    BY <1>14, DoneTyped DEF DropRequest, Typed
  <2> QED
    BY <1>14, <2>1, <2>2, BoundsAssumption
    DEF DropRequest, Typed, DatabaseTyped, ProcessTyped, BoundsTyped,
        RuntimeTypeOK, WorkersTyped, Release, db, results, runtimeVars
<1> QED
  BY <1>1, <1>2, <1>3, <1>4, <1>5, <1>6, <1>7, <1>8, <1>9, <1>10, <1>11, <1>12, <1>13, <1>14,
     CommitRequestTyped
  DEF HandlerStep

LEMMA RestartTyped ==
  ASSUME Typed, Restart
  PROVE  Typed'
<1>1. WorkersTyped'
  BY DEF Restart, WorkersTyped, Workless, WorkerRecords, WorkerPCs, Stages
<1>2. HandlersTyped'
  BY IdleTyped DEF Restart, HandlersTyped
<1>3. DatabaseTyped'
  BY StatusNames DEF Restart, Typed, DatabaseTyped, Interrupted, results
<1> QED
  BY <1>1, <1>2, <1>3, BoundsAssumption
  DEF Restart, Typed, ProcessTyped, BoundsTyped, RuntimeReset, RuntimeTypeOK, Queues

LEMMA TypedNext == Typed /\ [Next]_vars => Typed'
<1> SUFFICES ASSUME Typed, [Next]_vars PROVE Typed'
  OBVIOUS
<1>1. CASE UNCHANGED vars
  BY <1>1 DEF vars, Typed, DatabaseTyped, ProcessTyped, BoundsTyped, RuntimeTypeOK,
     WorkersTyped, HandlersTyped
<1>2. CASE Next
  BY <1>2, NewRequestTyped, HandlerStepTyped, WorkerStepTyped, RestartTyped DEF Next
<1> QED
  BY <1>1, <1>2

(* The rows, the registry, the queues and every thread's record always     *)
(* have the values the code gives them, and a thread past its first step   *)
(* has a task.                                                             *)
THEOREM TypedHolds == Spec => []Typed
<1> QED
  BY TypedInit, TypedNext, PTL DEF Spec

(* So every variable of the task runtime has its type.                     *)
THEOREM TypeOKHolds == Spec => []TypeOK
<1> QED
  BY TypedHolds, TypedTypeOK, PTL

-----------------------------------------------------------------------------
(* Nobody waits for nobody.                                                *)

(* The steps that each kind of request goes through. *)
PCsOf(kind) ==
  CASE kind = "create" -> {"idle", "mark", "put"}
    [] kind \in {"cancel", "delete"} -> {"flag", "commit"}
    [] kind \in {"retry", "retranscribe"} -> {"commit", "mark", "put"}
    [] kind = "reconcile" -> {"scan", "reap"}
    [] kind \in {"cleanup", "postprocess"} -> {"commit"}
    [] kind = "chunks" -> {"claim", "claimed", "attempt", "chunk", "keep", "settle", "finish"}

(* A chunk retry claims a settled task, and gives up no chunk before it    *)
(* has claimed it.                                                         *)
Kinded ==
  \A h \in Handlers :
    /\ handler[h].pc \in PCsOf(handler[h].kind)
    /\ handler[h].kind = "chunks" => handler[h].prev \notin ActiveStatuses
    /\ handler[h].pc \in {"claim", "claimed"} => handler[h].ok

Puts(h, t) == handler[h].pc = "put" /\ handler[h].task = t
Takes(w, t) == worker[w].pc \in {"got", "skip", "claim"} /\ worker[w].task = t

QueuedServed ==
  \A t \in queuedIds :
    \/ Entries(t) # {}
    \/ \E h \in Handlers : Puts(h, t)
    \/ \E w \in Workers : Takes(w, t)

RunningServed ==
  \A t \in runningIds :
    (\E w \in Workers : Runs(w, t)) \/ (\E h \in Handlers : Retries(h, t))

FlagServed ==
  \A t \in cancelledIds :
    \/ Entries(t) # {}
    \/ \E h \in Handlers : Retries(h, t) \/ Puts(h, t)
    \/ \E w \in Workers : WorksOn(w, t)

(* Who will still settle the row of a task, or queue it.                   *)
SettlingPCs == {"enter", "work", "store", "final", "complete", "raise", "record",
                "escaped", "bury"}
AttendingPCs == SettlingPCs \union {"got", "claim", "start", "chunking", "chunked", "refresh"}
Attends(w, t) == worker[w].task = t /\ worker[w].pc \in AttendingPCs
Settles(w, t) == worker[w].task = t /\ worker[w].pc \in SettlingPCs

Requeues(h, t) == handler[h].pc = "mark" /\ handler[h].task = t
Ends(h, t) ==
  handler[h].kind \in {"cancel", "delete"} /\ handler[h].pc = "commit" /\ handler[h].task = t
Recovers(h, t) ==
  /\ status[t] = "transcribing"
  /\ handler[h].kind = "chunks" /\ handler[h].task = t /\ handler[h].ok
  /\ handler[h].pc \in {"claimed", "attempt", "chunk", "keep", "settle"}

RowServed ==
  \A t \in Tasks : Active(t) =>
    \/ Entries(t) # {}
    \/ \E h \in Handlers : Puts(h, t) \/ Requeues(h, t) \/ Ends(h, t) \/ Recovers(h, t)
    \/ \E w \in Workers : Attends(w, t)
    \/ t \in lost

FlaggedRowServed ==
  \A t \in Tasks : Active(t) /\ t \in cancelledIds =>
    \/ \E h \in Handlers : Requeues(h, t) \/ Ends(h, t) \/ Recovers(h, t)
    \/ \E w \in Workers : Settles(w, t)
    \/ t \in lost

Served == QueuedServed /\ RunningServed /\ FlagServed /\ RowServed /\ FlaggedRowServed

(***************************************************************************)
(* A request is always at a step of its kind.                              *)
(***************************************************************************)
LEMMA KindedRecord ==
  ASSUME Typed, Kinded, NEW h \in Handlers, NEW r, handler' = [handler EXCEPT ![h] = r],
         r.pc \in PCsOf(r.kind), r.kind = "chunks" => r.prev \notin ActiveStatuses,
         r.pc \in {"claim", "claimed"} => r.ok
  PROVE  Kinded'
  BY DEF Typed, HandlersTyped, Kinded

LEMMA KindedDone ==
  ASSUME Typed, Kinded, NEW h \in Handlers, Done(h)
  PROVE  Kinded'
<1>1. Idle.pc \in PCsOf(Idle.kind) /\ Idle.kind = "create" /\ Idle.pc = "idle"
  BY DEF Idle, PCsOf
<1> QED
  BY <1>1, KindedRecord DEF Done

LEMMA KindedGoto ==
  ASSUME Typed, Kinded, NEW h \in Handlers, NEW pc \in PCsOf(handler[h].kind), Goto(h, pc),
         pc = "claimed" => handler[h].ok, pc # "claim"
  PROVE  Kinded'
<1> DEFINE r == [handler[h] EXCEPT !.pc = pc]
<1>1. /\ r.pc = pc /\ r.kind = handler[h].kind /\ r.prev = handler[h].prev
      /\ r.ok = handler[h].ok
  BY DEF Typed, HandlersTyped, HandlerRecords
<1>2. handler' = [handler EXCEPT ![h] = r]
  BY DEF Goto
<1>3. handler[h].kind = "chunks" => handler[h].prev \notin ActiveStatuses
  BY DEF Kinded
<1> HIDE DEF r
<1> QED
  BY <1>1, <1>2, <1>3, KindedRecord

LEMMA SettledStatus ==
  /\ \A t : NotActive(t) => status[t] \notin ActiveStatuses
  /\ {"cancelled", "completed", "failed", "deleted", "interrupted", "failed_resumable"}
       \intersect ActiveStatuses = {}
  /\ \A t : Interrupted(t) \notin ActiveStatuses
  BY DEF NotActive, Active, ActiveStatuses, Interrupted

LEMMA NewRequestKinded ==
  ASSUME Typed, Kinded, NEW h \in Handlers, NewRequest(h)
  PROVE  Kinded'
<1> USE DEF BeginLocked, Begin
<1>1. ASSUME NEW t \in Tasks, NEW kind \in Kinds, NEW pc \in PCsOf(kind), kind # "chunks",
             pc \notin {"claim", "claimed"},
             handler' = [handler EXCEPT ![h] = [Idle EXCEPT !.kind = kind, !.task = t, !.pc = pc]]
      PROVE  Kinded'
  <2> DEFINE r == [Idle EXCEPT !.kind = kind, !.task = t, !.pc = pc]
  <2>1. r.kind = kind /\ r.pc = pc
    BY DEF Idle
  <2>2. handler' = [handler EXCEPT ![h] = r]
    BY <1>1
  <2> HIDE DEF r
  <2> QED
    BY <1>1, <2>1, <2>2, KindedRecord
<1>2. ASSUME NEW t \in Tasks, CreateTask(h, t) PROVE Kinded'
  BY <1>1, <1>2 DEF CreateTask, PCsOf, Kinds
<1>3. ASSUME NEW t \in Tasks, CancelTask(h, t) \/ DeleteTask(h, t) PROVE Kinded'
  BY <1>1, <1>3 DEF CancelTask, DeleteTask, PCsOf, Kinds
<1>4. ASSUME NEW t \in Tasks, NEW kind, RequeueTask(h, t, kind) PROVE Kinded'
  BY <1>1, <1>4 DEF RequeueTask, PCsOf, Kinds
<1>5. ASSUME NEW t \in Tasks, NEW kind, MutateTask(h, t, kind) PROVE Kinded'
  BY <1>1, <1>5 DEF MutateTask, PCsOf, Kinds
<1>6. ASSUME NEW t \in Tasks, ClaimChunks(h, t) PROVE Kinded'
  <2>1. PICK n \in 1 .. MaxRetried :
          handler' = [handler EXCEPT ![h] = [Idle EXCEPT !.kind = "chunks", !.task = t,
                                             !.pc = "claim", !.left = n, !.prev = status[t]]]
    BY <1>6 DEF ClaimChunks
  <2> DEFINE r == [Idle EXCEPT !.kind = "chunks", !.task = t, !.pc = "claim", !.left = n,
                               !.prev = status[t]]
  <2>2. r.kind = "chunks" /\ r.pc = "claim" /\ r.ok = TRUE /\ r.prev = status[t]
    BY DEF Idle
  <2>3. handler' = [handler EXCEPT ![h] = r]
    BY <2>1
  <2>4. status[t] \notin ActiveStatuses
    BY <1>6, SettledStatus DEF ClaimChunks
  <2> HIDE DEF r
  <2>5. r.pc \in PCsOf(r.kind)
    BY <2>2 DEF PCsOf
  <2> QED
    BY <2>2, <2>3, <2>4, <2>5, KindedRecord
<1>7. CASE ReconcileOrphans(h)
  <2> DEFINE r == [Idle EXCEPT !.kind = "reconcile", !.pc = "scan", !.seen = ActiveIds]
  <2>1. r.kind = "reconcile" /\ r.pc = "scan"
    BY DEF Idle
  <2>2. handler' = [handler EXCEPT ![h] = r]
    BY <1>7 DEF ReconcileOrphans
  <2> HIDE DEF r
  <2>3. r.pc \in PCsOf(r.kind)
    BY <2>1 DEF PCsOf
  <2> QED
    BY <2>1, <2>2, <2>3, KindedRecord
<1> QED
  BY <1>2, <1>3, <1>4, <1>5, <1>6, <1>7 DEF NewRequest

LEMMA HandlerStepKinded ==
  ASSUME Typed, Kinded, NEW h \in Handlers, HandlerStep(h) \/ AbortChunks(h) \/ DropRequest(h)
  PROVE  Kinded'
<1>0. /\ handler[h].pc \in PCsOf(handler[h].kind) /\ handler[h].kind \in Kinds
      /\ handler[h] \in HandlerRecords
      /\ handler[h].kind = "chunks" => handler[h].prev \notin ActiveStatuses
      /\ handler[h].pc = "claim" => handler[h].ok
  BY DEF Kinded, Typed, HandlersTyped, HandlerRecords
<1>1. CASE CommitRequest(h)
  <2>1. CASE Done(h)
    BY <2>1, KindedDone
  <2>2. CASE CommitRetry(h) \/ CommitRetranscribe(h)
    BY <2>2, KindedGoto DEF CommitRetry, CommitRetranscribe, At, PCsOf
  <2> QED
    BY <1>1, <2>1, <2>2 DEF CommitRequest, CommitCancel, CommitDelete, CommitReconcile,
       CommitCleanup, CommitPostprocess
<1>2. CASE StartTask(h) \/ PutTask(h) \/ FinishChunks(h) \/ DropRequest(h)
  <2>1. CASE Done(h)
    BY <2>1, KindedDone
  <2>2. CASE handler[h].pc = "mark" /\ Goto(h, "put")
    BY <1>0, <2>2, KindedGoto DEF PCsOf, Kinds
  <2> QED
    BY <1>2, <2>1, <2>2 DEF StartTask, PutTask, FinishChunks, DropRequest
<1>3. CASE FlagTask(h)
  BY <1>0, <1>3, KindedGoto DEF FlagTask, PCsOf, Kinds
<1>4. CASE ScanRows(h)
  <2>1. ASSUME NEW s, handler[h].pc = "scan",
               handler' = [handler EXCEPT ![h] = [@ EXCEPT !.pc = "reap", !.seen = s]]
        PROVE  Kinded'
    <3> DEFINE r == [handler[h] EXCEPT !.pc = "reap", !.seen = s]
    <3>1. r.kind = "reconcile" /\ r.pc = "reap"
      BY <1>0, <2>1 DEF PCsOf, Kinds, HandlerRecords
    <3>2. handler' = [handler EXCEPT ![h] = r]
      BY <2>1
    <3> HIDE DEF r
    <3>3. r.pc \in PCsOf(r.kind)
      BY <3>1 DEF PCsOf
    <3> QED
      BY <3>1, <3>2, <3>3, KindedRecord
  <2>2. CASE Done(h)
    BY <2>2, KindedDone
  <2> QED
    BY <1>4, <2>1, <2>2 DEF ScanRows
<1>5. CASE CommitClaim(h) \/ MarkClaim(h) \/ KeepChunk(h) \/ SettleChunks(h) \/ AbortChunks(h)
  <2>1. handler[h].kind = "chunks"
    BY <1>0, <1>5 DEF CommitClaim, MarkClaim, KeepChunk, SettleChunks, AbortChunks, PCsOf, Kinds
  <2>2. PICK pc \in {"claimed", "attempt", "finish"} :
          Goto(h, pc) /\ (pc = "claimed" => handler[h].pc = "claim")
    BY <1>5 DEF CommitClaim, MarkClaim, KeepChunk, SettleChunks, AbortChunks
  <2> QED
    BY <1>0, <2>1, <2>2, KindedGoto DEF PCsOf
<1>6. CASE AttemptChunk(h) \/ EndChunk(h) \/ GatherChunks(h)
  <2>1. handler[h].kind = "chunks"
    BY <1>0, <1>6 DEF AttemptChunk, EndChunk, GatherChunks, PCsOf, Kinds
  <2>2. ASSUME NEW r, handler' = [handler EXCEPT ![h] = r], r.kind = "chunks",
               r.pc \in {"attempt", "chunk", "keep", "settle", "finish"},
               r.prev \notin ActiveStatuses
        PROVE  Kinded'
    BY <2>2, KindedRecord DEF PCsOf
  <2>3. ASSUME NEW n, handler' = [handler EXCEPT ![h] = [@ EXCEPT !.left = n, !.ok = FALSE]],
               handler[h].pc = "attempt"
        PROVE  Kinded'
    <3> DEFINE r == [handler[h] EXCEPT !.left = n, !.ok = FALSE]
    <3>1. r.kind = "chunks" /\ r.pc = "attempt" /\ r.prev = handler[h].prev
      BY <1>0, <2>1, <2>3 DEF HandlerRecords
    <3>2. handler' = [handler EXCEPT ![h] = r]
      BY <2>3
    <3> HIDE DEF r
    <3> QED
      BY <1>0, <2>1, <2>2, <3>1, <3>2
  <2>4. ASSUME NEW n, NEW x,
               handler' = [handler EXCEPT ![h] = [@ EXCEPT !.pc = "chunk", !.rest = x, !.left = n]]
        PROVE  Kinded'
    <3> DEFINE r == [handler[h] EXCEPT !.pc = "chunk", !.rest = x, !.left = n]
    <3>1. r.kind = "chunks" /\ r.pc = "chunk" /\ r.prev = handler[h].prev
      BY <1>0, <2>1, <2>4 DEF HandlerRecords
    <3>2. handler' = [handler EXCEPT ![h] = r]
      BY <2>4
    <3> HIDE DEF r
    <3> QED
      BY <1>0, <2>1, <2>2, <3>1, <3>2
  <2>5. ASSUME handler' = [handler EXCEPT ![h] = [@ EXCEPT !.pc = "attempt", !.ok = FALSE]]
        PROVE  Kinded'
    <3> DEFINE r == [handler[h] EXCEPT !.pc = "attempt", !.ok = FALSE]
    <3>1. r.kind = "chunks" /\ r.pc = "attempt" /\ r.prev = handler[h].prev
      BY <1>0, <2>1, <2>5 DEF HandlerRecords
    <3>2. handler' = [handler EXCEPT ![h] = r]
      BY <2>5
    <3> HIDE DEF r
    <3> QED
      BY <1>0, <2>1, <2>2, <3>1, <3>2
  <2>6. ASSUME NEW s, s \notin ActiveStatuses,
               handler' = [handler EXCEPT ![h] = [@ EXCEPT !.pc = "settle", !.prev = s]]
        PROVE  Kinded'
    <3> DEFINE r == [handler[h] EXCEPT !.pc = "settle", !.prev = s]
    <3>1. r.kind = "chunks" /\ r.pc = "settle" /\ r.prev = s
      BY <1>0, <2>1, <2>6 DEF HandlerRecords
    <3>2. handler' = [handler EXCEPT ![h] = r]
      BY <2>6
    <3> HIDE DEF r
    <3> QED
      BY <2>2, <2>6, <3>1, <3>2
  <2>7. ASSUME NEW pc \in {"keep", "finish"}, Goto(h, pc) PROVE Kinded'
    BY <2>1, <2>7, KindedGoto DEF PCsOf
  <2>8. CASE AttemptChunk(h)
    BY <2>3, <2>4, <2>8 DEF AttemptChunk
  <2>9. CASE EndChunk(h)
    BY <2>5, <2>7, <2>9 DEF EndChunk
  <2>10. CASE GatherChunks(h)
    BY <1>0, <2>1, <2>6, <2>7, <2>10, SettledStatus DEF GatherChunks
  <2> QED
    BY <1>6, <2>8, <2>9, <2>10
<1> QED
  BY <1>1, <1>2, <1>3, <1>4, <1>5, <1>6 DEF HandlerStep

LEMMA WorkersLeaveHandlers ==
  ASSUME NEW w \in Workers, WorkerStep(w) \/ EscapeRun(w) \/ FailCleanUp(w)
  PROVE  handler' = handler
  BY DEF WorkerStep, EscapeRun, FailCleanUp, GetTask, ReadRow, SkipTask, ClaimTask, StartRun, SetTaskState,
     WorkStage, SplitChunks, CompleteChunk, FailTranscription, EndTranscription, RefreshRow,
     StoreSegments, FinalCheck, CommitCompletion, CleanUp, HandleError, RecordFailure, FinishRun,
     ReadEscaped, BuryTask, besideWorkers

LEMMA KindedHolds == Spec => []Kinded
<1>1. Init => Kinded
  BY DEF Init, Kinded, Idle, PCsOf
<1>2. ASSUME Typed, Kinded, [Next]_vars PROVE Kinded'
  <2>1. CASE handler' = handler
    BY <1>2, <2>1 DEF Kinded
  <2>2. CASE Restart
    BY <2>2 DEF Restart, Kinded, Idle, PCsOf
  <2> QED
    BY <1>2, <2>1, <2>2, NewRequestKinded, HandlerStepKinded, WorkersLeaveHandlers DEF Next, vars
<1> QED
  BY <1>1, <1>2, TypedHolds, PTL DEF Spec

(***************************************************************************)
(* What a worker may do to a task it works on without losing anybody it    *)
(* has to serve: it goes on, and a row that it leaves active it attends,   *)
(* or is not its own to settle.                                            *)
(***************************************************************************)
WorkerGoesOn(w) ==
  LET t == worker[w].task
      pc == worker[w].pc
  IN
  /\ \A v \in Workers \ {w} : worker'[v] = worker[v]
  /\ worker'[w].task = t /\ pc # "idle" /\ worker'[w].pc # "idle"
  /\ pc \in {"got", "skip", "claim"} => worker'[w].pc \in {"got", "skip", "claim"}
  /\ pc \in TrackedPCs => worker'[w].pc \in TrackedPCs
  /\ \A s \in Tasks \ {t} : status'[s] = status[s]
  /\ lost \subseteq lost'
  /\ Active(t)' =>
       \/ t \in lost'
       \/ worker'[w].pc \in SettlingPCs
       \/ /\ status'[t] = status[t]
          /\ t \in cancelledIds => pc \notin SettlingPCs
          /\ t \notin cancelledIds /\ pc \in AttendingPCs => worker'[w].pc \in AttendingPCs
  /\ UNCHANGED <<queue, handler, queuedIds, runningIds, cancelledIds>>

LEMMA WorkerGoesOnServed ==
  ASSUME Served, NEW w \in Workers, WorkerGoesOn(w)
  PROVE  Served'
<1> DEFINE t == worker[w].task
<1> USE DEF WorkerGoesOn
<1>1. /\ \A s \in Tasks : Entries(s)' = Entries(s)
      /\ \A h \in Handlers : \A s :
           /\ Puts(h, s)' <=> Puts(h, s)
           /\ Requeues(h, s)' <=> Requeues(h, s)
           /\ Ends(h, s)' <=> Ends(h, s)
           /\ Retries(h, s)' <=> Retries(h, s)
           /\ status'[s] = status[s] => (Recovers(h, s)' <=> Recovers(h, s))
  BY DEF Entries, Puts, Requeues, Ends, Retries, Recovers
<1>2. \A v \in Workers : \A s :
        /\ Takes(v, s) => Takes(v, s)'
        /\ Runs(v, s) => Runs(v, s)'
        /\ WorksOn(v, s) => WorksOn(v, s)'
        /\ s # t => (Attends(v, s) => Attends(v, s)') /\ (Settles(v, s) => Settles(v, s)')
        /\ v # w => (Attends(v, s) => Attends(v, s)') /\ (Settles(v, s) => Settles(v, s)')
  BY DEF Takes, Runs, WorksOn, Attends, Settles
<1>3. QueuedServed' /\ RunningServed' /\ FlagServed'
  BY <1>1, <1>2 DEF Served, QueuedServed, RunningServed, FlagServed, Entries
<1>4. ASSUME NEW s \in Tasks, s # t \/ (status'[s] = status[s] /\ ~Attends(w, s))
      PROVE  /\ Active(s)' => Active(s) /\ status'[s] = status[s]
             /\ \A v \in Workers : Attends(v, s) => Attends(v, s)'
             /\ \A v \in Workers : Settles(v, s) => Settles(v, s)'
  BY <1>2, <1>4 DEF Active, Attends, Settles, AttendingPCs
<1>5. ASSUME t \in Tasks, worker'[w].pc \in SettlingPCs
      PROVE  Attends(w, t)' /\ Settles(w, t)'
  BY <1>5 DEF Attends, Settles, AttendingPCs
<1>6. ASSUME NEW s \in Tasks, Active(s)', s \in cancelledIds'
      PROVE  \/ \E h \in Handlers : Requeues(h, s)' \/ Ends(h, s)' \/ Recovers(h, s)'
             \/ \E v \in Workers : Settles(v, s)'
             \/ s \in lost'
  <2>1. CASE s = t /\ worker'[w].pc \in SettlingPCs
    BY <1>5, <2>1
  <2>2. CASE s \notin lost' /\ (s # t \/ worker'[w].pc \notin SettlingPCs)
    <3>1. Active(s) /\ status'[s] = status[s] /\ s \in cancelledIds
      BY <1>6, <2>2 DEF Active
    <3>2. PICK x : \/ x \in Handlers /\ (Requeues(x, s) \/ Ends(x, s) \/ Recovers(x, s))
                   \/ x \in Workers /\ Settles(x, s)
      BY <2>2, <3>1 DEF Served, FlaggedRowServed
    <3>3. x \in Workers /\ Settles(x, s) => x # w \/ s # t
      BY <1>6, <2>2, <3>1 DEF Settles
    <3> QED
      BY <1>1, <1>2, <3>1, <3>2, <3>3
  <2> QED
    BY <2>1, <2>2
<1>7. ASSUME NEW s \in Tasks, Active(s)'
      PROVE  \/ Entries(s)' # {}
             \/ \E h \in Handlers : Puts(h, s)' \/ Requeues(h, s)' \/ Ends(h, s)' \/ Recovers(h, s)'
             \/ \E v \in Workers : Attends(v, s)'
             \/ s \in lost'
  <2>1. CASE s \in cancelledIds
    <3>1. \A v \in Workers : Settles(v, s)' => Attends(v, s)'
      BY DEF Settles, Attends, AttendingPCs
    <3> QED
      BY <1>6, <1>7, <2>1, <3>1
  <2>2. CASE s = t /\ worker'[w].pc \in SettlingPCs
    BY <1>5, <2>2
  <2>3. CASE s \notin cancelledIds \union lost' /\ (s # t \/ worker'[w].pc \notin SettlingPCs)
    <3>1. Active(s) /\ status'[s] = status[s]
      BY <1>7, <2>3 DEF Active
    <3>2. \A v \in Workers : Attends(v, s) => Attends(v, s)'
      BY <1>2, <1>7, <2>3 DEF Attends
    <3> QED
      BY <1>1, <2>3, <3>1, <3>2 DEF Served, RowServed
  <2> QED
    BY <2>1, <2>2, <2>3
<1> QED
  BY <1>3, <1>6, <1>7 DEF Served, RowServed, FlaggedRowServed

LEMMA StepGoes ==
  ASSUME Typed, NEW w \in Workers, NEW pc, Step(w, pc)
  PROVE  /\ \A v \in Workers \ {w} : worker'[v] = worker[v]
         /\ worker'[w].task = worker[w].task /\ worker'[w].pc = pc
  BY DEF Typed, WorkersTyped, WorkerRecords, Step

LEMMA RaiseGoes ==
  ASSUME Typed, NEW w \in Workers, NEW code, Raise(w, code)
  PROVE  /\ \A v \in Workers \ {w} : worker'[v] = worker[v]
         /\ worker'[w].task = worker[w].task /\ worker'[w].pc = "raise"
  BY DEF Typed, WorkersTyped, WorkerRecords, Raise

LEMMA EnterGoes ==
  ASSUME Typed, NEW w \in Workers, NEW s, Enter(w, s)
  PROVE  /\ \A v \in Workers \ {w} : worker'[v] = worker[v]
         /\ worker'[w].task = worker[w].task /\ worker'[w].pc = "enter"
  BY DEF Typed, WorkersTyped, WorkerRecords, Enter

(* mark_finished by a thread that has no more to settle than the registry  *)
(* says, or that goes on to look at the row once more.                     *)
LEMMA FinishServed ==
  ASSUME Typed, Served, NEW w \in Workers, worker[w].pc # "idle", MarkFinished(worker[w].task),
         \A v \in Workers \ {w} : worker'[v] = worker[v],
         \/ worker[w].pc \notin AttendingPCs
         \/ worker'[w].task = worker[w].task /\ worker'[w].pc \in SettlingPCs,
         UNCHANGED <<queue, handler, status, lost>>
  PROVE  Served'
<1>0. PICK t \in Tasks : t = worker[w].task
  BY DEF Typed, WorkersTyped
<1>1. /\ \A s \in Tasks : Entries(s)' = Entries(s)
      /\ \A h \in Handlers : \A s :
           /\ Puts(h, s)' <=> Puts(h, s)
           /\ Requeues(h, s)' <=> Requeues(h, s)
           /\ Ends(h, s)' <=> Ends(h, s)
           /\ Retries(h, s)' <=> Retries(h, s)
           /\ Recovers(h, s)' <=> Recovers(h, s)
      /\ \A s \in Tasks : Active(s)' <=> Active(s)
  BY DEF Entries, Puts, Requeues, Ends, Retries, Recovers, Active
<1>2. \A v \in Workers : \A s : s # t =>
        /\ Takes(v, s) => Takes(v, s)'
        /\ Runs(v, s) => Runs(v, s)'
        /\ WorksOn(v, s) => WorksOn(v, s)'
        /\ Attends(v, s) => Attends(v, s)'
        /\ Settles(v, s) => Settles(v, s)'
  BY <1>0 DEF Takes, Runs, WorksOn, Attends, Settles
<1>3. \A v \in Workers : Attends(v, t) => Attends(v, t)'
  BY <1>0 DEF Attends, AttendingPCs
<1>4. /\ queuedIds' = queuedIds \ {t} /\ runningIds' = runningIds \ {t}
      /\ cancelledIds' = cancelledIds \ {t}
      /\ queuedIds \union runningIds \union cancelledIds \subseteq Tasks
  BY <1>0 DEF MarkFinished, Typed, ProcessTyped, RuntimeTypeOK
<1>5. QueuedServed' /\ RunningServed' /\ FlagServed'
  BY <1>1, <1>2, <1>4 DEF Served, QueuedServed, RunningServed, FlagServed
<1>6. RowServed' /\ FlaggedRowServed'
  BY <1>1, <1>2, <1>3, <1>4 DEF Served, RowServed, FlaggedRowServed
<1> QED
  BY <1>5, <1>6 DEF Served

LEMMA WorkerStepServed ==
  ASSUME Typed, Served, NEW w \in Workers, WorkerStep(w) \/ EscapeRun(w) \/ FailCleanUp(w)
  PROVE  Served'
<1> DEFINE t == worker[w].task
<1>0. worker[w].pc # "idle" => t \in Tasks
  BY DEF Typed, WorkersTyped
<1> USE DEF besideWorkers, runtimeVars, db, AttendingPCs, SettlingPCs, TrackedPCs
<1>1. CASE ReadRow(w)
  <2>1. WorkerGoesOn(w)
    BY <1>0, <1>1, StepGoes DEF ReadRow, WorkerGoesOn, Typed, DatabaseTyped, Active, Exists, NoRow, ActiveStatuses, IsCancelled
  <2> QED
    BY <2>1, WorkerGoesOnServed
<1>2. CASE StartRun(w)
  <2>1. WorkerGoesOn(w)
    BY <1>0, <1>2, StepGoes, EnterGoes DEF StartRun, WorkerGoesOn, Typed, DatabaseTyped, Active, IsCancelled
  <2> QED
    BY <2>1, WorkerGoesOnServed
<1>3. CASE SetTaskState(w)
  <2>1. WorkerGoesOn(w)
    BY <1>0, <1>3, StepGoes, RaiseGoes DEF SetTaskState, WorkerGoesOn, Typed, DatabaseTyped
  <2> QED
    BY <2>1, WorkerGoesOnServed
<1>4. CASE WorkStage(w)
  <2>1. WorkerGoesOn(w)
    BY <1>0, <1>4, StepGoes, RaiseGoes, EnterGoes DEF WorkStage, WorkerGoesOn, Typed, DatabaseTyped, Active, IsCancelled
  <2> QED
    BY <2>1, WorkerGoesOnServed
<1>5. CASE SplitChunks(w)
  <2>1. WorkerGoesOn(w)
    BY <1>0, <1>5, StepGoes DEF SplitChunks, WorkerGoesOn, Typed, DatabaseTyped, Active
  <2> QED
    BY <2>1, WorkerGoesOnServed
<1>6. CASE CompleteChunk(w)
  <2>1. WorkerGoesOn(w)
    BY <1>0, <1>6, StepGoes DEF CompleteChunk, WorkerGoesOn, Typed, DatabaseTyped, Active
  <2> QED
    BY <2>1, WorkerGoesOnServed
<1>7. CASE FailTranscription(w)
  <2>1. WorkerGoesOn(w)
    BY <1>0, <1>7, RaiseGoes DEF FailTranscription, WorkerGoesOn, Typed, DatabaseTyped
  <2> QED
    BY <2>1, WorkerGoesOnServed
<1>8. CASE EndTranscription(w)
  <2>1. WorkerGoesOn(w)
    BY <1>0, <1>8, StepGoes DEF EndTranscription, WorkerGoesOn, Typed, DatabaseTyped, Active
  <2> QED
    BY <2>1, WorkerGoesOnServed
<1>9. CASE RefreshRow(w)
  <2>1. WorkerGoesOn(w)
    BY <1>0, <1>9, StepGoes, RaiseGoes, EnterGoes DEF RefreshRow, WorkerGoesOn, Typed, DatabaseTyped, Active, Exists, NoRow, ActiveStatuses, IsCancelled
  <2> QED
    BY <2>1, WorkerGoesOnServed
<1>10. CASE StoreSegments(w)
  <2>1. WorkerGoesOn(w)
    BY <1>0, <1>10, StepGoes, RaiseGoes DEF StoreSegments, WorkerGoesOn, Typed, DatabaseTyped, Active
  <2> QED
    BY <2>1, WorkerGoesOnServed
<1>11. CASE FinalCheck(w)
  <2>1. WorkerGoesOn(w)
    BY <1>0, <1>11, StepGoes, RaiseGoes DEF FinalCheck, WorkerGoesOn, Typed, DatabaseTyped, Active
  <2> QED
    BY <2>1, WorkerGoesOnServed
<1>12. CASE CommitCompletion(w)
  <2>1. WorkerGoesOn(w)
    BY <1>0, <1>12, StepGoes, RaiseGoes, SettledStatus DEF CommitCompletion, WorkerGoesOn, Typed, DatabaseTyped, Active
  <2> QED
    BY <2>1, WorkerGoesOnServed
<1>13. CASE CleanUp(w)
  <2>1. WorkerGoesOn(w)
    BY <1>0, <1>13, StepGoes DEF CleanUp, WorkerGoesOn, Typed, DatabaseTyped, Active
  <2> QED
    BY <2>1, WorkerGoesOnServed
<1>14. CASE HandleError(w)
  <2>1. WorkerGoesOn(w)
    BY <1>0, <1>14, StepGoes DEF HandleError, WorkerGoesOn, Typed, DatabaseTyped, Active, Exists, NoRow, ActiveStatuses
  <2> QED
    BY <2>1, WorkerGoesOnServed
<1>15. CASE RecordFailure(w)
  <2>1. WorkerGoesOn(w)
    BY <1>0, <1>15, StepGoes, SettledStatus DEF RecordFailure, WorkerGoesOn, Typed, DatabaseTyped, Active, Exists, NoRow, ActiveStatuses
  <2> QED
    BY <2>1, WorkerGoesOnServed
<1>16. CASE ReadEscaped(w)
  <2>1. WorkerGoesOn(w)
    BY <1>0, <1>16, StepGoes DEF ReadEscaped, WorkerGoesOn, Typed, DatabaseTyped, Active
  <2> QED
    BY <2>1, WorkerGoesOnServed
<1>17. CASE BuryTask(w)
  <2>1. WorkerGoesOn(w)
    BY <1>0, <1>17, StepGoes, SettledStatus DEF BuryTask, WorkerGoesOn, Typed, DatabaseTyped, Active, Exists, NoRow, ActiveStatuses
  <2> QED
    BY <2>1, WorkerGoesOnServed
<1>18. CASE SkipTask(w) \/ FinishRun(w)
  <2>1. \A v \in Workers \ {w} : worker'[v] = worker[v]
    BY <1>18 DEF SkipTask, FinishRun, Typed, WorkersTyped
  <2> QED
    BY <1>18, <2>1, FinishServed DEF SkipTask, FinishRun
<1>19. CASE EscapeRun(w)
  <2>1. Step(w, "escaped")
    BY <1>19 DEF EscapeRun
  <2> QED
    BY <1>19, <2>1, StepGoes, FinishServed DEF EscapeRun
<1>20. CASE ClaimTask(w)
  <2>0. PICK u \in Tasks : u = worker[w].task
    BY <1>0, <1>20 DEF ClaimTask
  <2>1. /\ \A v \in Workers \ {w} : worker'[v] = worker[v]
        /\ worker[w].pc = "claim" /\ worker'[w].task = u /\ worker'[w].pc = "start"
        /\ queuedIds' = queuedIds \ {u} /\ runningIds' = runningIds \union {u}
        /\ UNCHANGED <<queue, handler, status, cancelledIds, lost>>
    BY <1>20, <2>0, StepGoes DEF ClaimTask, MarkRunning
  <2>2. /\ \A s \in Tasks : Entries(s)' = Entries(s) /\ (Active(s)' <=> Active(s))
        /\ \A h \in Handlers : \A s :
             /\ Puts(h, s)' <=> Puts(h, s)
             /\ Requeues(h, s)' <=> Requeues(h, s)
             /\ Ends(h, s)' <=> Ends(h, s)
             /\ Retries(h, s)' <=> Retries(h, s)
             /\ Recovers(h, s)' <=> Recovers(h, s)
    BY <2>1 DEF Entries, Puts, Requeues, Ends, Retries, Recovers, Active
  <2>3. \A v \in Workers : \A s :
          /\ s # u => (Takes(v, s) => Takes(v, s)')
          /\ Runs(v, s) => Runs(v, s)'
          /\ WorksOn(v, s) => WorksOn(v, s)'
          /\ Attends(v, s) => Attends(v, s)'
          /\ Settles(v, s) => Settles(v, s)'
    BY <2>0, <2>1 DEF Takes, Runs, WorksOn, Attends, Settles
  <2>4. Runs(w, u)'
    BY <2>1 DEF Runs
  <2>5. queuedIds \union runningIds \union cancelledIds \subseteq Tasks
    BY DEF Typed, ProcessTyped, RuntimeTypeOK
    <2> QED
    BY <2>1, <2>2, <2>3, <2>4, <2>5
    DEF Served, QueuedServed, RunningServed, FlagServed, RowServed, FlaggedRowServed
<1>21. CASE GetTask(w)
  <2> DEFINE q == Serves(w)
  <2>0. PICK u : u = Head(queue[q])
    OBVIOUS
  <2>1. q \in Queues /\ queue \in [Queues -> Seq(Tasks)] /\ queue[q] # <<>>
    BY <1>21 DEF GetTask, Serves, Queues, Typed, ProcessTyped
  <2>2. /\ u \in Tasks
        /\ queue'[q] = Tail(queue[q])
        /\ \A r \in Queues : r # q => queue'[r] = queue[r]
    BY <1>21, <2>0, <2>1 DEF GetTask
  <2>3. /\ worker'[w].task = u /\ worker'[w].pc = "got" /\ worker[w].pc = "idle"
        /\ \A v \in Workers \ {w} : worker'[v] = worker[v]
        /\ UNCHANGED <<handler, status, queuedIds, runningIds, cancelledIds, lost>>
    BY <1>21, <2>0 DEF GetTask, Workless, Typed, WorkersTyped
  <2>4. \A s \in Tasks : s # u => (Entries(s) # {} => Entries(s)' # {})
    <3> SUFFICES ASSUME NEW s \in Tasks, s # u, NEW r \in Queues,
                        NEW i \in DOMAIN queue[r], queue[r][i] = s
                 PROVE  \E j \in DOMAIN queue'[r] : queue'[r][j] = s
      BY DEF Entries
    <3>1. CASE r # q
      BY <2>2, <3>1
    <3>2. CASE r = q
      <4>1. i # 1 /\ i \in 1 .. Len(queue[q])
        BY <2>0, <2>1, <3>2
      <4>2. i - 1 \in 1 .. Len(Tail(queue[q])) /\ Tail(queue[q])[i - 1] = queue[q][i]
        BY <2>1, <4>1
      <4>3. i - 1 \in DOMAIN queue'[r] /\ queue'[r][i - 1] = s
        BY <2>1, <2>2, <3>2, <4>2
      <4> QED
        BY <4>3
    <3> QED
      BY <3>1, <3>2
  <2>5. \A h \in Handlers : \A s :
          /\ Puts(h, s)' <=> Puts(h, s)
          /\ Requeues(h, s)' <=> Requeues(h, s)
          /\ Ends(h, s)' <=> Ends(h, s)
          /\ Retries(h, s)' <=> Retries(h, s)
          /\ Recovers(h, s)' <=> Recovers(h, s)
    BY <2>3 DEF Puts, Requeues, Ends, Retries, Recovers
  <2>6. \A v \in Workers : \A s :
          /\ Takes(v, s) => Takes(v, s)'
          /\ Runs(v, s) => Runs(v, s)'
          /\ WorksOn(v, s) => WorksOn(v, s)'
          /\ Attends(v, s) => Attends(v, s)'
          /\ Settles(v, s) => Settles(v, s)'
    BY <2>3 DEF Takes, Runs, WorksOn, Attends, Settles
  <2>7. Takes(w, u)' /\ WorksOn(w, u)' /\ Attends(w, u)'
    BY <2>3 DEF Takes, WorksOn, Attends
  <2>8. \A s \in Tasks : Active(s)' <=> Active(s)
    BY <2>3 DEF Active
  <2>9. queuedIds \union runningIds \union cancelledIds \subseteq Tasks
    BY DEF Typed, ProcessTyped, RuntimeTypeOK
  <2> HIDE DEF q
  <2>10. QueuedServed' /\ RunningServed' /\ FlagServed'
    BY <2>2, <2>3, <2>4, <2>5, <2>6, <2>7, <2>9 DEF Served, QueuedServed, RunningServed, FlagServed
  <2>11. RowServed' /\ FlaggedRowServed'
    BY <2>2, <2>3, <2>4, <2>5, <2>6, <2>7, <2>8, <2>9 DEF Served, RowServed, FlaggedRowServed
  <2> QED
    BY <2>10, <2>11 DEF Served
<1>22. CASE FailCleanUp(w)
  <2>1. WorkerGoesOn(w)
    BY <1>0, <1>22, RaiseGoes DEF FailCleanUp, WorkerGoesOn, Typed, DatabaseTyped
  <2> QED
    BY <2>1, WorkerGoesOnServed
<1> QED
  BY <1>1, <1>2, <1>3, <1>4, <1>5, <1>6, <1>7, <1>8, <1>9, <1>10, <1>11, <1>12, <1>13, <1>14, <1>15, <1>16, <1>17, <1>18, <1>19, <1>20, <1>21, <1>22 DEF WorkerStep

(***************************************************************************)
(* What a request may do without losing anybody it has to serve: rows that *)
(* it leaves active it serves itself, or they were not its own to serve.   *)
(***************************************************************************)
HandlerGoesOn(h) ==
  /\ \A g \in Handlers \ {h} : handler'[g] = handler[g]
  /\ handler[h].pc # "put"
  /\ \A s \in Tasks :
       /\ Retries(h, s) => Retries(h, s)'
       /\ Active(s)' =>
            \/ Requeues(h, s)' \/ Recovers(h, s)' \/ s \in lost'
            \/ /\ status'[s] = status[s] /\ s \notin lost
               /\ ~Requeues(h, s) /\ ~Ends(h, s) /\ ~Recovers(h, s)
  /\ UNCHANGED <<queue, worker, queuedIds, runningIds, cancelledIds>>

LEMMA HandlerGoesOnServed ==
  ASSUME Typed, Served, NEW h \in Handlers, HandlerGoesOn(h)
  PROVE  Served'
<1> USE DEF HandlerGoesOn
<1>1. /\ \A s \in Tasks : Entries(s)' = Entries(s)
      /\ \A w \in Workers : \A s :
           /\ Takes(w, s)' <=> Takes(w, s)
           /\ Runs(w, s)' <=> Runs(w, s)
           /\ WorksOn(w, s)' <=> WorksOn(w, s)
           /\ Attends(w, s)' <=> Attends(w, s)
           /\ Settles(w, s)' <=> Settles(w, s)
      /\ queuedIds \union runningIds \union cancelledIds \subseteq Tasks
  BY DEF Entries, Takes, Runs, WorksOn, Attends, Settles, Typed, ProcessTyped, RuntimeTypeOK
<1>2. \A g \in Handlers : \A s \in Tasks :
        /\ Puts(g, s) => Puts(g, s)'
        /\ Retries(g, s) => Retries(g, s)'
        /\ g # h =>
             /\ Requeues(g, s) => Requeues(g, s)'
             /\ Ends(g, s) => Ends(g, s)'
             /\ status'[s] = status[s] => (Recovers(g, s) => Recovers(g, s)')
  BY DEF Puts, Requeues, Ends, Retries, Recovers
<1>3. QueuedServed' /\ RunningServed' /\ FlagServed'
  BY <1>1, <1>2 DEF Served, QueuedServed, RunningServed, FlagServed
<1>4. \A s \in Tasks : status'[s] = status[s] => (Active(s)' <=> Active(s))
  BY DEF Active
<1>5. RowServed'
  BY <1>1, <1>2, <1>4 DEF Served, RowServed
<1>6. FlaggedRowServed'
  BY <1>1, <1>2, <1>4 DEF Served, FlaggedRowServed
<1> QED
  BY <1>3, <1>5, <1>6 DEF Served

LEMMA DoneGoes ==
  ASSUME Typed, NEW h \in Handlers, Done(h)
  PROVE  /\ \A g \in Handlers \ {h} : handler'[g] = handler[g]
         /\ handler'[h].pc = "idle"
  BY DEF Typed, HandlersTyped, Done, Idle

LEMMA GotoGoes ==
  ASSUME Typed, NEW h \in Handlers, NEW pc, Goto(h, pc)
  PROVE  /\ \A g \in Handlers \ {h} : handler'[g] = handler[g]
         /\ handler'[h].task = handler[h].task /\ handler'[h].kind = handler[h].kind
         /\ handler'[h].ok = handler[h].ok /\ handler'[h].pc = pc
  BY DEF Typed, HandlersTyped, HandlerRecords, Goto

(* A request that starts serves nobody yet. *)
LEMMA NewRequestServed ==
  ASSUME Typed, Served, NEW h \in Handlers, NewRequest(h)
  PROVE  Served'
<1>1. /\ handler[h].pc = "idle"
      /\ \A g \in Handlers \ {h} : handler'[g] = handler[g]
      /\ UNCHANGED <<queue, worker, queuedIds, runningIds, cancelledIds, lost>>
      /\ \/ UNCHANGED status
         \/ \E t \in Tasks : /\ \A s \in Tasks \ {t} : status'[s] = status[s]
                             /\ handler'[h].pc = "mark" /\ handler'[h].task = t
  <2>1. ASSUME NEW t \in Tasks, CreateTask(h, t)
        PROVE  /\ handler[h].pc = "idle"
               /\ \A g \in Handlers \ {h} : handler'[g] = handler[g]
               /\ UNCHANGED <<queue, worker, queuedIds, runningIds, cancelledIds, lost>>
               /\ \A s \in Tasks \ {t} : status'[s] = status[s]
               /\ handler'[h].pc = "mark" /\ handler'[h].task = t
    BY <2>1 DEF CreateTask, Begin, Idle, runtimeVars, Typed, HandlersTyped, DatabaseTyped
  <2> QED
    BY <2>1 DEF NewRequest, CancelTask, DeleteTask, RequeueTask, MutateTask, ClaimChunks,
       ReconcileOrphans, BeginLocked, Begin, runtimeVars, db, Typed, HandlersTyped
<1>2. HandlerGoesOn(h)
  BY <1>1 DEF HandlerGoesOn, Active, Requeues, Ends, Recovers, Retries
<1> QED
  BY <1>2, HandlerGoesOnServed

LEMMA CommitRequestServed ==
  ASSUME Typed, Served, NEW h \in Handlers, CommitRequest(h)
  PROVE  Served'
<1>0. /\ handler[h].pc \in {"commit", "reap"}
      /\ handler[h].pc = "commit" => handler[h].task \in Tasks
      /\ UNCHANGED <<queue, worker, queuedIds, runningIds, cancelledIds>>
  BY DEF CommitRequest, CommitCancel, CommitDelete, CommitRetry, CommitRetranscribe,
     CommitReconcile, CommitCleanup, CommitPostprocess, At, runtimeVars, Typed, HandlersTyped
<1>1. CASE CommitCancel(h)
  <2>1. /\ \A s \in Tasks : s # handler[h].task => status'[s] = status[s]
        /\ \A s \in Tasks : s = handler[h].task => ~Active(s)'
        /\ \A s \in lost : s # handler[h].task => s \in lost'
    BY <1>1, SettledStatus DEF CommitCancel, Active, Exists, NoRow, ActiveStatuses, Typed, DatabaseTyped
  <2>2. HandlerGoesOn(h)
    BY <1>0, <1>1, <2>1, DoneGoes
    DEF CommitCancel, At, HandlerGoesOn, Requeues, Ends, Recovers, Retries
  <2> QED
    BY <2>2, HandlerGoesOnServed
<1>2. CASE CommitDelete(h)
  <2>1. /\ \A s \in Tasks : s # handler[h].task => status'[s] = status[s]
        /\ \A s \in Tasks : s = handler[h].task => ~Active(s)'
        /\ lost' = lost
    BY <1>2, SettledStatus DEF CommitDelete, Active, Typed, DatabaseTyped
  <2>2. HandlerGoesOn(h)
    BY <1>0, <1>2, <2>1, DoneGoes
    DEF CommitDelete, At, HandlerGoesOn, Requeues, Ends, Recovers, Retries
  <2> QED
    BY <2>2, HandlerGoesOnServed
<1>3. CASE CommitRetry(h) \/ CommitRetranscribe(h)
  <2>1. lost' = lost /\ \A s \in Tasks : s # handler[h].task => status'[s] = status[s]
    BY <1>3 DEF CommitRetry, CommitRetranscribe, Typed, DatabaseTyped
  <2>2. Goto(h, "mark") /\ handler[h].pc = "commit" /\ handler[h].kind \in {"retry", "retranscribe"}
    BY <1>3 DEF CommitRetry, CommitRetranscribe, At
  <2>3. HandlerGoesOn(h)
    BY <1>0, <2>1, <2>2, GotoGoes DEF HandlerGoesOn, Requeues, Ends, Recovers, Retries
  <2> QED
    BY <2>3, HandlerGoesOnServed
<1>4. CASE CommitReconcile(h)
  <2>1. \A s \in Tasks : (status'[s] = status[s] /\ (s \in lost => s \in lost')) \/ ~Active(s)'
    BY <1>4, SettledStatus
    DEF CommitReconcile, Active, Exists, NoRow, ActiveStatuses, Typed, DatabaseTyped
  <2>2. HandlerGoesOn(h)
    BY <1>0, <1>4, <2>1, DoneGoes
    DEF CommitReconcile, At, HandlerGoesOn, Requeues, Ends, Recovers, Retries
  <2> QED
    BY <2>2, HandlerGoesOnServed
<1>5. CASE CommitCleanup(h) \/ CommitPostprocess(h)
  <2>1. UNCHANGED <<status, lost>> /\ Done(h) /\ handler[h].pc = "commit"
        /\ handler[h].kind \in {"cleanup", "postprocess"}
    BY <1>5 DEF CommitCleanup, CommitPostprocess, At
  <2>2. HandlerGoesOn(h)
    BY <1>0, <2>1, DoneGoes DEF HandlerGoesOn, Requeues, Ends, Recovers, Retries
  <2> QED
    BY <2>2, HandlerGoesOnServed
<1> QED
  BY <1>1, <1>2, <1>3, <1>4, <1>5 DEF CommitRequest

(* The steps of a chunk retry between its claim and its end. *)
LEMMA RetryServed ==
  ASSUME Typed, Kinded, Served, NEW h \in Handlers,
         \/ CommitClaim(h) \/ AttemptChunk(h) \/ EndChunk(h) \/ KeepChunk(h)
         \/ GatherChunks(h) \/ SettleChunks(h) \/ AbortChunks(h)
  PROVE  Served'
<1>0. /\ handler[h].kind = "chunks" /\ handler[h].task \in Tasks
      /\ handler[h].pc \in {"claim", "attempt", "chunk", "keep", "settle"}
      /\ handler[h].pc = "claim" => handler[h].ok
      /\ handler[h].prev \notin ActiveStatuses
      /\ handler[h] \in HandlerRecords
  <2>1. handler[h].pc \in {"claim", "attempt", "chunk", "keep", "settle"}
    BY DEF CommitClaim, AttemptChunk, EndChunk, KeepChunk, GatherChunks, SettleChunks, AbortChunks
  <2>2. handler[h].kind \in Kinds /\ handler[h].pc \in PCsOf(handler[h].kind)
    BY DEF Kinded, Typed, HandlersTyped, HandlerRecords
  <2>3. handler[h].kind = "chunks"
    BY <2>1, <2>2 DEF PCsOf, Kinds
  <2> QED
    BY <2>1, <2>3 DEF Kinded, Typed, HandlersTyped
<1>1. UNCHANGED <<queue, worker, queuedIds, runningIds, cancelledIds>> /\ lost \subseteq lost'
  BY DEF CommitClaim, AttemptChunk, EndChunk, KeepChunk, GatherChunks, SettleChunks, AbortChunks,
     besideHandlers, runtimeVars
<1>2. PICK t \in Tasks : t = handler[h].task
  BY <1>0
<1>3. /\ \A s \in Tasks \ {t} : status'[s] = status[s]
      /\ \A g \in Handlers \ {h} : handler'[g] = handler[g]
      /\ handler'[h].kind = "chunks" /\ handler'[h].task = t
      /\ handler[h].pc # "claim" => handler'[h].pc \in {"attempt", "chunk", "keep", "settle", "finish"}
      /\ Active(t)' =>
           \/ t \in lost'
           \/ Recovers(h, t)'
           \/ status'[t] = status[t] /\ ~Recovers(h, t)
  <2> USE DEF Active, Typed, DatabaseTyped, HandlersTyped, HandlerRecords, Recovers
  <2>1. CASE CommitClaim(h)
    BY <1>0, <1>2, <2>1, GotoGoes DEF CommitClaim
  <2>2. CASE AttemptChunk(h)
    <3> DEFINE Q == /\ \A s \in Tasks \ {t} : status'[s] = status[s]
                    /\ \A g \in Handlers \ {h} : handler'[g] = handler[g]
                    /\ handler'[h].kind = "chunks" /\ handler'[h].task = t
                    /\ handler[h].pc # "claim" =>
                         handler'[h].pc \in {"attempt", "chunk", "keep", "settle", "finish"}
                    /\ Active(t)' =>
                         \/ Recovers(h, t)'
                         \/ status'[t] = status[t] /\ ~Recovers(h, t)
    <3> SUFFICES Q
      OBVIOUS
    <3>1. CASE /\ status' = IF Exists(t) THEN [status EXCEPT ![t] = "failed"] ELSE status
               /\ handler' = [handler EXCEPT ![h] = [@ EXCEPT !.left = handler[h].left - 1,
                                                              !.ok = FALSE]]
      <4>1. ~Active(t)' /\ \A s \in Tasks \ {t} : status'[s] = status[s]
        BY <3>1, SettledStatus DEF Exists, NoRow, ActiveStatuses
      <4> QED
        BY <1>0, <1>2, <2>2, <3>1, <4>1 DEF AttemptChunk
    <3>2. ASSUME NEW r, UNCHANGED status,
                 handler' = [handler EXCEPT ![h] = [@ EXCEPT !.pc = "chunk", !.rest = r,
                                                            !.left = handler[h].left - 1]]
          PROVE  Q
      BY <1>0, <1>2, <2>2, <3>2 DEF AttemptChunk
    <3> HIDE DEF Q
    <3> QED
      BY <1>2, <2>2, <3>1, <3>2 DEF AttemptChunk
  <2>3. CASE EndChunk(h)
    <3>1. CASE Goto(h, "keep") /\ UNCHANGED status
      BY <1>0, <1>2, <2>3, <3>1, GotoGoes DEF EndChunk
    <3>2. CASE /\ \E s \in {"failed", "cancelled"} :
                    status' = IF Exists(t) THEN [status EXCEPT ![t] = s] ELSE status
               /\ handler' = [handler EXCEPT ![h] = [@ EXCEPT !.pc = "attempt", !.ok = FALSE]]
      <4>1. ~Active(t)' /\ \A s \in Tasks \ {t} : status'[s] = status[s]
        BY <3>2, SettledStatus DEF Exists, NoRow, ActiveStatuses
      <4> QED
        BY <1>0, <1>2, <2>3, <3>2, <4>1 DEF EndChunk
    <3> QED
      BY <1>2, <2>3, <3>1, <3>2 DEF EndChunk
  <2>4. CASE KeepChunk(h)
    BY <1>0, <1>2, <2>4, GotoGoes DEF KeepChunk
  <2>5. CASE GatherChunks(h)
    <3>1. handler[h].pc = "attempt" /\ UNCHANGED status
      BY <2>5 DEF GatherChunks, db
    <3>2. CASE Goto(h, "finish") /\ (Exists(t) => ~handler[h].ok)
      BY <1>0, <1>2, <3>1, <3>2, GotoGoes DEF Exists, NoRow, ActiveStatuses
    <3>3. CASE \E s : handler' = [handler EXCEPT ![h] = [@ EXCEPT !.pc = "settle", !.prev = s]]
      <4>1. PICK p : handler' = [handler EXCEPT ![h] = [handler[h] EXCEPT !.pc = "settle", !.prev = p]]
        BY <3>3
      <4> QED
        BY <1>0, <1>2, <3>1, <4>1
    <3> QED
      BY <1>2, <2>5, <3>2, <3>3 DEF GatherChunks
  <2>6. CASE SettleChunks(h)
    <3>0. status' = [status EXCEPT ![t] = IF Exists(t) THEN handler[h].prev ELSE status[t]]
      BY <1>2, <2>6 DEF SettleChunks
    <3>1. ~Active(t)'
      BY <1>0, <3>0 DEF Exists, NoRow, ActiveStatuses
    <3>2. \A s \in Tasks \ {t} : status'[s] = status[s]
      BY <3>0
    <3>3. Goto(h, "finish")
      BY <2>6 DEF SettleChunks
    <3> QED
      BY <1>0, <1>2, <3>1, <3>2, <3>3, GotoGoes
  <2>7. CASE AbortChunks(h)
    BY <1>0, <1>2, <2>7, GotoGoes, SettledStatus DEF AbortChunks
  <2> QED
    BY <2>1, <2>2, <2>3, <2>4, <2>5, <2>6, <2>7
<1>4. HandlerGoesOn(h)
  BY <1>0, <1>1, <1>2, <1>3 DEF HandlerGoesOn, Requeues, Ends, Recovers, Retries
<1> QED
  BY <1>4, HandlerGoesOnServed

LEMMA HandlerStepServed ==
  ASSUME Typed, Kinded, Served, NEW h \in Handlers, HandlerStep(h) \/ AbortChunks(h) \/ DropRequest(h)
  PROVE  Served'
<1>0. /\ handler[h].pc \in PCsOf(handler[h].kind) /\ handler[h].kind \in Kinds
      /\ handler[h].pc \notin {"idle", "scan", "reap"} => handler[h].task \in Tasks
      /\ queuedIds \union runningIds \union cancelledIds \subseteq Tasks
  BY DEF Kinded, Typed, HandlersTyped, HandlerRecords, ProcessTyped, RuntimeTypeOK
<1>1. CASE CommitRequest(h)
  BY <1>1, CommitRequestServed
<1>2. CASE \/ CommitClaim(h) \/ AttemptChunk(h) \/ EndChunk(h) \/ KeepChunk(h)
           \/ GatherChunks(h) \/ SettleChunks(h) \/ AbortChunks(h)
  BY <1>2, RetryServed
<1>3. CASE ScanRows(h)
  <2>1. /\ handler[h].pc = "scan"
        /\ \A g \in Handlers \ {h} : handler'[g] = handler[g]
        /\ UNCHANGED <<status, queue, worker, queuedIds, runningIds, cancelledIds, lost>>
    BY <1>3 DEF ScanRows, Done, besideHandlers, runtimeVars, db, Typed, HandlersTyped
  <2>2. HandlerGoesOn(h)
    BY <2>1 DEF HandlerGoesOn, Requeues, Ends, Recovers, Retries
  <2> QED
    BY <2>2, HandlerGoesOnServed
<1>4. ASSUME UNCHANGED <<worker, status>>,
             NEW t \in Tasks, t = handler[h].task,
             \A g \in Handlers \ {h} : handler'[g] = handler[g]
      PROVE  /\ \A w \in Workers : \A s :
                  /\ Takes(w, s)' <=> Takes(w, s)
                  /\ Runs(w, s)' <=> Runs(w, s)
                  /\ WorksOn(w, s)' <=> WorksOn(w, s)
                  /\ Attends(w, s)' <=> Attends(w, s)
                  /\ Settles(w, s)' <=> Settles(w, s)
             /\ \A g \in Handlers, s \in Tasks : g # h \/ s # t =>
                  /\ Puts(g, s) => Puts(g, s)'
                  /\ Requeues(g, s) => Requeues(g, s)'
                  /\ Ends(g, s) => Ends(g, s)'
                  /\ Retries(g, s) => Retries(g, s)'
                  /\ Recovers(g, s) => Recovers(g, s)'
             /\ \A s \in Tasks : Active(s)' <=> Active(s)
  BY <1>4 DEF Takes, Runs, WorksOn, Attends, Settles, Puts, Requeues, Ends, Retries, Recovers, Active
<1>5. UNCHANGED queue => \A s \in Tasks : Entries(s)' = Entries(s)
  BY DEF Entries
<1>6. CASE FlagTask(h)
  <2>1. PICK t \in Tasks : t = handler[h].task
    BY <1>0, <1>6 DEF FlagTask
  <2>2. /\ handler[h].pc = "flag" /\ handler[h].kind \in {"cancel", "delete"}
        /\ \A g \in Handlers \ {h} : handler'[g] = handler[g]
        /\ handler'[h].task = t /\ handler'[h].kind = handler[h].kind /\ handler'[h].pc = "commit"
        /\ UNCHANGED <<status, queue, worker, runningIds, lost>>
        /\ queuedIds' = queuedIds \ {t}
        /\ cancelledIds' \subseteq cancelledIds \union {t}
        /\ t \in cancelledIds' => t \in cancelledIds \/ t \in queuedIds \/ t \in runningIds
    BY <1>0, <1>6, <2>1, GotoGoes DEF FlagTask, RequestCancel, db, PCsOf, Kinds
  <2>3. Ends(h, t)'
    BY <2>2 DEF Ends
  <2>4. \A g \in Handlers, s \in Tasks :
          /\ Puts(g, s) => Puts(g, s)'
          /\ Requeues(g, s) => Requeues(g, s)'
          /\ Ends(g, s) => Ends(g, s)'
          /\ Retries(g, s) => Retries(g, s)'
          /\ Recovers(g, s) => Recovers(g, s)'
    BY <2>1, <2>2 DEF Puts, Requeues, Ends, Retries, Recovers
  <2>5. QueuedServed' /\ RunningServed'
    BY <1>0, <1>4, <1>5, <2>1, <2>2, <2>4 DEF Served, QueuedServed, RunningServed
  <2>6. RowServed' /\ FlaggedRowServed'
    BY <1>4, <1>5, <2>1, <2>2, <2>3, <2>4 DEF Served, RowServed, FlaggedRowServed
  <2>7. FlagServed'
    <3>1. \A s \in Tasks : \A w \in Workers : Takes(w, s) \/ Runs(w, s) => WorksOn(w, s)
      BY DEF Takes, Runs, WorksOn, TrackedPCs
    <3>2. \A s \in cancelledIds' :
            \/ Entries(s) # {}
            \/ \E g \in Handlers : Retries(g, s) \/ Puts(g, s)
            \/ \E w \in Workers : WorksOn(w, s)
      BY <1>0, <2>2, <3>1 DEF Served, QueuedServed, RunningServed, FlagServed
    <3> QED
      BY <1>0, <1>4, <1>5, <2>1, <2>2, <2>4, <3>2 DEF FlagServed
  <2> QED
    BY <2>5, <2>6, <2>7 DEF Served
<1>7. CASE MarkClaim(h)
  <2>1. PICK t \in Tasks : t = handler[h].task
    BY <1>0, <1>7 DEF MarkClaim
  <2>2. /\ handler[h].pc = "claimed" /\ handler[h].kind = "chunks"
        /\ \A g \in Handlers \ {h} : handler'[g] = handler[g]
        /\ handler'[h].task = t /\ handler'[h].kind = "chunks" /\ handler'[h].pc = "attempt"
        /\ handler'[h].ok = handler[h].ok
        /\ UNCHANGED <<status, queue, worker, cancelledIds, lost>>
        /\ queuedIds' = queuedIds \ {t} /\ runningIds' = runningIds \union {t}
    BY <1>0, <1>7, <2>1, GotoGoes DEF MarkClaim, MarkRunning, db, PCsOf, Kinds
  <2>3. Retries(h, t)'
    BY <2>2 DEF Retries
  <2>4. \A g \in Handlers, s \in Tasks :
          /\ Puts(g, s) => Puts(g, s)'
          /\ Requeues(g, s) => Requeues(g, s)'
          /\ Ends(g, s) => Ends(g, s)'
          /\ Retries(g, s) => Retries(g, s)'
          /\ Recovers(g, s) => Recovers(g, s)'
    BY <2>1, <2>2 DEF Puts, Requeues, Ends, Retries, Recovers
  <2>5. QueuedServed' /\ RunningServed' /\ FlagServed'
    BY <1>0, <1>4, <1>5, <2>1, <2>2, <2>3, <2>4 DEF Served, QueuedServed, RunningServed, FlagServed
  <2>6. RowServed' /\ FlaggedRowServed'
    BY <1>4, <1>5, <2>1, <2>2, <2>4 DEF Served, RowServed, FlaggedRowServed
  <2> QED
    BY <2>5, <2>6 DEF Served
<1>8. CASE FinishChunks(h)
  <2>1. PICK t \in Tasks : t = handler[h].task
    BY <1>0, <1>8 DEF FinishChunks
  <2>2. /\ handler[h].pc = "finish"
        /\ \A g \in Handlers \ {h} : handler'[g] = handler[g]
        /\ UNCHANGED <<status, queue, worker, lost>>
        /\ queuedIds' = queuedIds \ {t} /\ runningIds' = runningIds \ {t}
        /\ cancelledIds' = cancelledIds \ {t}
    BY <1>8, <2>1, DoneGoes DEF FinishChunks, MarkFinished, db
  <2>3. ~Puts(h, t) /\ ~Requeues(h, t) /\ ~Ends(h, t) /\ ~Recovers(h, t)
    BY <2>2 DEF Puts, Requeues, Ends, Recovers
  <2>4. QueuedServed' /\ RunningServed' /\ FlagServed'
    BY <1>0, <1>4, <1>5, <2>1, <2>2, <2>3 DEF Served, QueuedServed, RunningServed, FlagServed
  <2>5. RowServed' /\ FlaggedRowServed'
    BY <1>4, <1>5, <2>1, <2>2, <2>3 DEF Served, RowServed, FlaggedRowServed
  <2> QED
    BY <2>4, <2>5 DEF Served
<1>9. CASE StartTask(h)
  <2>1. PICK t \in Tasks : t = handler[h].task
    BY <1>0, <1>9 DEF StartTask
  <2>2. /\ handler[h].pc = "mark" /\ \A g \in Handlers \ {h} : handler'[g] = handler[g]
        /\ UNCHANGED <<status, queue, worker, runningIds>>
    BY <1>9, DoneGoes, GotoGoes DEF StartTask, MarkQueued, db, runtimeVars
  <2>3. CASE Exists(t)
    <3>1. /\ handler'[h].task = t /\ handler'[h].pc = "put"
          /\ queuedIds' = queuedIds \union {t} /\ cancelledIds' = cancelledIds \ {t}
          /\ lost' = lost \ {t}
      BY <1>9, <2>1, <2>3, GotoGoes DEF StartTask, MarkQueued
    <3>2. Puts(h, t)' /\ ~Retries(h, t)
      BY <2>2, <3>1 DEF Puts, Retries
    <3>3. QueuedServed' /\ RunningServed' /\ FlagServed'
      BY <1>0, <1>4, <1>5, <2>1, <2>2, <3>1, <3>2
      DEF Served, QueuedServed, RunningServed, FlagServed
    <3>4. RowServed' /\ FlaggedRowServed'
      BY <1>4, <1>5, <2>1, <2>2, <3>1, <3>2 DEF Served, RowServed, FlaggedRowServed
    <3> QED
      BY <3>3, <3>4 DEF Served
  <2>4. CASE ~Exists(t)
    <3>1. UNCHANGED <<queuedIds, runningIds, cancelledIds, lost>>
      BY <1>9, <2>1, <2>4 DEF StartTask, runtimeVars
    <3>2. ~Active(t)
      BY <2>4 DEF Active, Exists, ActiveStatuses, NoRow
    <3>3. ~Puts(h, t) /\ ~Retries(h, t)
      BY <2>2 DEF Puts, Retries
    <3>4. QueuedServed' /\ RunningServed' /\ FlagServed'
      BY <1>0, <1>4, <1>5, <2>1, <2>2, <3>1, <3>3
      DEF Served, QueuedServed, RunningServed, FlagServed
    <3>5. RowServed' /\ FlaggedRowServed'
      BY <1>4, <1>5, <2>1, <2>2, <3>1, <3>2, <3>3 DEF Served, RowServed, FlaggedRowServed
    <3> QED
      BY <3>4, <3>5 DEF Served
  <2> QED
    BY <2>3, <2>4
<1>10. CASE PutTask(h)
  <2>1. PICK t \in Tasks : t = handler[h].task
    BY <1>0, <1>10 DEF PutTask
  <2>2. /\ handler[h].pc = "put" /\ \A g \in Handlers \ {h} : handler'[g] = handler[g]
        /\ UNCHANGED <<status, worker, queuedIds, runningIds, cancelledIds, lost>>
    BY <1>10, DoneGoes DEF PutTask, db, runtimeVars
  <2>3. PICK q \in Queues : q = route[t]
    BY <2>1 DEF Typed, DatabaseTyped
  <2>4. /\ queue[q] \in Seq(Tasks) /\ queue'[q] = Append(queue[q], t)
        /\ \A r \in Queues : r # q => queue'[r] = queue[r]
    BY <1>10, <2>1, <2>3 DEF PutTask, Typed, ProcessTyped
  <2>5. \A s \in Tasks : Entries(s) # {} => Entries(s)' # {}
    <3> SUFFICES ASSUME NEW s \in Tasks, NEW r \in Queues, NEW i \in DOMAIN queue[r], queue[r][i] = s
                 PROVE  \E j \in DOMAIN queue'[r] : queue'[r][j] = s
      BY DEF Entries
    <3>1. CASE r # q
      BY <2>4, <3>1
    <3>2. CASE r = q
      <4>1. i \in DOMAIN Append(queue[q], t) /\ Append(queue[q], t)[i] = queue[q][i]
        BY <2>4, <3>2
      <4> QED
        BY <2>4, <3>2, <4>1
    <3> QED
      BY <3>1, <3>2
  <2>6. Entries(t)' # {}
    <3>1. /\ Len(queue[q]) + 1 \in DOMAIN Append(queue[q], t)
          /\ Append(queue[q], t)[Len(queue[q]) + 1] = t
      BY <2>4
    <3> QED
      BY <2>3, <2>4, <3>1 DEF Entries
  <2>7. ~Requeues(h, t) /\ ~Ends(h, t) /\ ~Recovers(h, t) /\ ~Retries(h, t)
    BY <2>2 DEF Requeues, Ends, Recovers, Retries
  <2>8. QueuedServed' /\ RunningServed' /\ FlagServed'
    BY <1>0, <1>4, <2>1, <2>2, <2>5, <2>6, <2>7 DEF Served, QueuedServed, RunningServed, FlagServed
  <2>9. RowServed' /\ FlaggedRowServed'
    BY <1>4, <2>1, <2>2, <2>5, <2>6, <2>7 DEF Served, RowServed, FlaggedRowServed
  <2> QED
    BY <2>8, <2>9 DEF Served
<1>11. CASE DropRequest(h)
  <2>1. PICK t \in Tasks : t = handler[h].task
    BY <1>0, <1>11 DEF DropRequest
  <2>2. /\ handler[h].pc \in {"mark", "claimed"}
        /\ \A g \in Handlers \ {h} : handler'[g] = handler[g]
        /\ lost' = lost \union {t}
        /\ UNCHANGED <<status, queue, worker, queuedIds, runningIds, cancelledIds>>
    BY <1>11, <2>1, DoneGoes DEF DropRequest, db, runtimeVars
  <2>3. \A s \in Tasks :
          /\ ~Retries(h, s) /\ ~Ends(h, s)
          /\ s # t => ~Requeues(h, s) /\ ~Recovers(h, s)
    BY <2>1, <2>2 DEF Retries, Ends, Requeues, Recovers
  <2>4. HandlerGoesOn(h)
    BY <2>1, <2>2, <2>3 DEF HandlerGoesOn, Active
  <2> QED
    BY <2>4, HandlerGoesOnServed
<1> QED
  BY <1>1, <1>2, <1>3, <1>6, <1>7, <1>8, <1>9, <1>10, <1>11 DEF HandlerStep

LEMMA FreshServed ==
  ASSUME queuedIds = {}, runningIds = {}, cancelledIds = {}, \A t \in Tasks : ~Active(t)
  PROVE  Served
  BY DEF Served, QueuedServed, RunningServed, FlagServed, RowServed, FlaggedRowServed

LEMMA ServedHolds == Spec => []Served
<1>1. Init => Served
  BY FreshServed DEF Init, RuntimeInit, Active, ActiveStatuses
<1>2. ASSUME Typed, Kinded, Served, [Next]_vars PROVE Served'
  <2>1. CASE UNCHANGED vars
    BY <1>2, <2>1
    DEF vars, Served, QueuedServed, RunningServed, FlagServed, RowServed, FlaggedRowServed,
        Entries, Puts, Takes, Runs, Retries, WorksOn, Attends, Settles, Requeues, Ends, Recovers,
        Active
  <2>2. CASE Restart
    <3>1. queuedIds' = {} /\ runningIds' = {} /\ cancelledIds' = {}
      BY <2>2 DEF Restart, RuntimeReset
    <3>2. \A t \in Tasks : ~Active(t)'
      BY <2>2, SettledStatus DEF Restart, Active
    <3> QED
      BY <3>1, <3>2
      DEF Served, QueuedServed, RunningServed, FlagServed, RowServed, FlaggedRowServed
  <2> QED
    BY <1>2, <2>1, <2>2, NewRequestServed, HandlerStepServed, WorkerStepServed DEF Next
<1> QED
  BY <1>1, <1>2, TypedHolds, KindedHolds, PTL DEF Spec

(* An id in the registry is served, whatever clients send: otherwise       *)
(* _require_not_active would refuse every later retry or delete of the     *)
(* task (task_runtime.py, start_task_in_background, _task_worker).         *)
THEOREM TrackedIsServedHolds == Spec => []TrackedIsServed
<1>1. Served => TrackedIsServed
  BY DEF Served, QueuedServed, RunningServed, TrackedIsServed, Puts, Takes, Enqueues, Writers
<1> QED
  BY <1>1, ServedHolds, PTL

(* No active row and no cancel request waits for nobody, whatever clients  *)
(* send, whichever errors escape and wherever the process restarts, but    *)
(* for the rows whose enqueueing or whose failure's record was lost.       *)
THEOREM ActiveIsOwnedHolds == Spec => []ActiveIsOwned
<1>1. Served => ActiveIsOwned
  <2>1. \A h \in Handlers, t \in Tasks :
          Puts(h, t) \/ Requeues(h, t) \/ Ends(h, t) \/ Recovers(h, t) \/ Retries(h, t)
            => ServesNow(h, t)
    BY DEF Puts, Requeues, Ends, Recovers, Retries, ServesNow
  <2>2. \A w \in Workers, t \in Tasks : Attends(w, t) => WorksOn(w, t)
    BY DEF Attends, AttendingPCs, SettlingPCs, WorksOn
  <2>3. ASSUME Served, NEW t \in Tasks, Active(t) PROVE Owned(t) \/ t \in lost
    BY <2>1, <2>2, <2>3 DEF Served, RowServed, Owned
  <2>4. ASSUME Served, NEW t \in Tasks, t \in cancelledIds PROVE Owned(t)
    BY <2>1, <2>4 DEF Served, FlagServed, Owned
  <2> QED
    BY <2>3, <2>4 DEF ActiveIsOwned
<1> QED
  BY <1>1, ServedHolds, PTL
====
