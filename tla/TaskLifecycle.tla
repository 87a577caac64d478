---- MODULE TaskLifecycle ----
(***************************************************************************)
(* The life of a transcription task (backend/services/tasks.py): API       *)
(* handlers that create, cancel, retry, retranscribe, delete, reconcile    *)
(* and chunk-retry tasks, worker threads that take ids from the local and  *)
(* the provider queue and run the pipeline, the process-local registry of  *)
(* TaskRuntime, and the SQLite rows that survive a restart.                *)
(*                                                                         *)
(* Atomicity.  One action per database commit, per registry call, per      *)
(* acquisition of task_transition_lock and per read that a later step      *)
(* relies on, so that everything another thread can do in between happens  *)
(* in between here too.  A statement that writes waits for SQLite's write  *)
(* lock ("writer"); only the completion transaction of run_task keeps that *)
(* lock across a step another thread can see.                              *)
(*                                                                         *)
(* Threads.  The handlers declared "async def" (cancel, retry,             *)
(* retranscribe, delete, active) run on the event loop, one at a time; the *)
(* others (creation, chunk retry, artifact cleanup and relink, transcript  *)
(* post-processing) run in pool threads.                                   *)
(***************************************************************************)
EXTENDS TaskRuntime, Naturals, Sequences

CONSTANTS
  LocalWorkers,      \* threads serving the local queue
  ProviderWorkers,   \* threads serving the provider queue
  PoolThreads,       \* request threads of the server's thread pool
  EventLoop,         \* the thread that runs the asynchronous handlers
  NoOne,             \* nobody holds the lock / no task
  Requests,          \* the kinds of request clients send in this instance
  MayWarn,           \* may the quality report of a run carry warnings?
  RetryAfterDrain,   \* do clients retry only what nothing untracked is left of?
  MaxRequests,       \* bound on requests
  MaxRetried,        \* bound on the chunks one chunk retry claims
  MaxEscapes,        \* bound on errors outside the pipeline's own handling
  MaxRestarts        \* bound on restarts of the process

Workers == LocalWorkers \union ProviderWorkers
Handlers == PoolThreads \union {EventLoop}

ASSUME ThreadsAssumption ==
  /\ LocalWorkers \intersect ProviderWorkers = {}
  /\ Workers \intersect Handlers = {}
  /\ EventLoop \notin PoolThreads
  /\ NoOne \notin Workers \union Handlers \union Tasks
ASSUME SwitchesAssumption == MayWarn \in BOOLEAN /\ RetryAfterDrain \in BOOLEAN
ASSUME BoundsAssumption ==
  /\ MaxRequests \in Nat /\ MaxEscapes \in Nat /\ MaxRestarts \in Nat
  /\ MaxRetried \in Nat \ {0}

Queues == {"local", "provider"}

(* ACTIVE_TASK_STATUSES without downloading_model and exporting, which no  *)
(* code assigns.                                                           *)
ActiveStatuses == {"queued", "importing", "preprocessing", "waiting_model",
                   "transcribing", "postprocessing"}
SettledStatuses == {"completed", "failed", "cancelled", "interrupted",
                    "failed_resumable"}
NoRow == {"absent", "deleted"}   \* never created, or its row is gone
Statuses == ActiveStatuses \union SettledStatuses \union NoRow

(* The pipeline stages that _set_task_state persists before their work.    *)
Stages == {"importing", "preprocessing", "waiting_model", "transcribing",
           "postprocessing"}

(* What matters of a task's chunk rows is which of these statuses occur    *)
(* among them; "open" is any status but completed and failed.              *)
ChunkStatuses == {"open", "completed", "failed"}

VARIABLES
  (* the database *)
  status,      \* TranscriptionTask.status
  chunks,      \* statuses that occur among the task's TranscriptionChunk rows
  transcript,  \* does the task have stored text and segments?
  versioned,   \* does the task have a TranscriptVersion?
  route,       \* the queue its source and provider select
  writer,      \* the worker inside a write transaction, or NoOne
  (* the process *)
  queue,       \* _task_queues
  worker,      \* what each worker thread is doing
  handler,     \* what each request thread is doing
  lock,        \* holder of task_transition_lock, or NoOne
  (* history *)
  lost,        \* tasks whose enqueueing or whose failure's record got lost
  (* bounds *)
  requests, escapes, restarts

db == <<status, chunks, transcript, versioned, route>>
bounds == <<requests, escapes, restarts>>
results == <<transcript, versioned, route>>
besideWorkers == <<queue, handler, lock, runtimeVars, lost, bounds>>
besideHandlers == <<queue, worker, lock, runtimeVars, lost, bounds>>
vars == <<status, chunks, transcript, versioned, route, writer, queue, worker,
          handler, lock, queuedIds, runningIds, cancelledIds, lost,
          requests, escapes, restarts>>

WorkerPCs == {"idle", "got", "skip", "claim", "start", "enter", "work",
              "chunking", "chunked", "refresh", "store", "final", "complete",
              "cleanup", "raise", "record", "finish", "escaped", "bury"}
HandlerPCs == {"idle", "flag", "commit", "mark", "put", "scan", "reap",
               "claim", "claimed", "attempt", "chunk", "keep", "settle",
               "finish"}
Kinds == {"create", "cancel", "retry", "retranscribe", "delete", "reconcile",
          "chunks", "cleanup", "postprocess"}

Workless == [pc |-> "idle", task |-> NoOne, stage |-> "importing", code |-> "none"]
Idle == [kind |-> "create", pc |-> "idle", task |-> NoOne, seen |-> {},
         rest |-> {}, left |-> 0, ok |-> TRUE, prev |-> "absent"]

WorkerRecords == [pc : WorkerPCs, task : Tasks \union {NoOne}, stage : Stages,
                  code : {"none", "cancelled", "error", "followup"}]
HandlerRecords == [kind : Kinds, pc : HandlerPCs, task : Tasks \union {NoOne},
                   seen : SUBSET Tasks, rest : SUBSET ChunkStatuses,
                   left : 0 .. MaxRetried, ok : BOOLEAN, prev : Statuses]

TypeOK ==
  /\ RuntimeTypeOK
  /\ status \in [Tasks -> Statuses]
  /\ chunks \in [Tasks -> SUBSET ChunkStatuses]
  /\ transcript \in [Tasks -> BOOLEAN]
  /\ versioned \in [Tasks -> BOOLEAN]
  /\ route \in [Tasks -> Queues]
  /\ writer \in Workers \union {NoOne}
  /\ queue \in [Queues -> Seq(Tasks)]
  /\ worker \in [Workers -> WorkerRecords]
  /\ handler \in [Handlers -> HandlerRecords]
  /\ lock \in Handlers \union {NoOne}
  /\ lost \subseteq Tasks
  /\ requests \in 0 .. MaxRequests
  /\ escapes \in 0 .. MaxEscapes
  /\ restarts \in 0 .. MaxRestarts

Init ==
  /\ RuntimeInit
  /\ status = [t \in Tasks |-> "absent"]
  /\ chunks = [t \in Tasks |-> {}]
  /\ transcript = [t \in Tasks |-> FALSE]
  /\ versioned = [t \in Tasks |-> FALSE]
  /\ route \in [Tasks -> Queues]
  /\ writer = NoOne
  /\ queue = [q \in Queues |-> <<>>]
  /\ worker = [w \in Workers |-> Workless]
  /\ handler = [h \in Handlers |-> Idle]
  /\ lock = NoOne
  /\ lost = {}
  /\ requests = 0
  /\ escapes = 0
  /\ restarts = 0

Exists(t) == status[t] \notin NoRow
Active(t) == status[t] \in ActiveStatuses

(* Variant of _require_not_active that trusts the row alone. *)
NotActiveRow(t) == Exists(t) /\ ~Active(t)

(* _require_not_active *)
NotActive(t) == Exists(t) /\ ~Active(t) /\ t \notin ActiveIds

(***************************************************************************)
(* Who still has something to do with a task.                              *)
(***************************************************************************)
Entries(t) == {q \in Queues : \E i \in DOMAIN queue[q] : queue[q][i] = t}
WorksOn(w, t) == worker[w].pc # "idle" /\ worker[w].task = t
ServesNow(h, t) == handler[h].pc # "idle" /\ handler[h].task = t

(* Between mark_running and mark_finished a worker, or a chunk retry, is   *)
(* the writer of the task.                                                 *)
TrackedPCs == {"start", "enter", "work", "chunking", "chunked", "refresh",
               "store", "final", "complete", "cleanup", "raise", "record", "finish"}
Runs(w, t) == worker[w].pc \in TrackedPCs /\ worker[w].task = t
Retries(h, t) == /\ handler[h].kind = "chunks" /\ handler[h].task = t
                 /\ handler[h].pc \in {"attempt", "chunk", "keep", "settle",
                                       "finish"}
Enqueues(h, t) == handler[h].pc \in {"mark", "put"} /\ handler[h].task = t

(* Leftovers of an earlier enqueueing that the registry does not track: a  *)
(* queue entry, an unfinished put, a worker that took the entry but has    *)
(* not claimed the task, or one that is burying an escaped error.          *)
Drained(t) ==
  /\ Entries(t) = {}
  /\ \A h \in Handlers : ~Enqueues(h, t)
  /\ \A w \in Workers : WorksOn(w, t) => Runs(w, t)
MayRequeue(t) == RetryAfterDrain => Drained(t)

(***************************************************************************)
(* Handlers: small helpers.                                                *)
(***************************************************************************)
Goto(h, pc) == handler' = [handler EXCEPT ![h].pc = pc]
Done(h) == handler' = [handler EXCEPT ![h] = Idle]
Release(h) == lock' = IF lock = h THEN NoOne ELSE lock

(* A request of this kind reaches its thread and starts at pc. *)
Begin(h, kind, t, pc) ==
  /\ kind \in Requests
  /\ requests < MaxRequests
  /\ handler[h].pc = "idle"
  /\ handler' = [handler EXCEPT ![h] = [Idle EXCEPT !.kind = kind, !.task = t,
                                                    !.pc = pc]]
  /\ requests' = requests + 1
  /\ UNCHANGED <<lost, escapes, restarts>>

(* ... inside task_transition_lock *)
BeginLocked(h, kind, t, pc) ==
  /\ lock = NoOne
  /\ lock' = h
  /\ Begin(h, kind, t, pc)
  /\ UNCHANGED <<db, writer, queue, worker, runtimeVars>>

At(h, kind, pc) == handler[h].kind = kind /\ handler[h].pc = pc

(***************************************************************************)
(* Creation: the row is committed, and only then registered and queued.    *)
(***************************************************************************)
CreateTask(h, t) ==
  /\ h \in PoolThreads
  /\ status[t] = "absent"
  /\ writer = NoOne
  /\ Begin(h, "create", t, "mark")
  /\ \E s \in {"queued", "importing"} : status' = [status EXCEPT ![t] = s]
  /\ UNCHANGED <<chunks, results, writer, queue, worker, lock, runtimeVars>>

(* start_task_in_background: nothing happens when the row is gone. *)
StartTask(h) ==
  LET t == handler[h].task IN
  /\ handler[h].pc = "mark"
  /\ IF Exists(t)
     THEN MarkQueued(t) /\ lost' = lost \ {t} /\ Goto(h, "put") /\ UNCHANGED lock
     ELSE Done(h) /\ Release(h) /\ UNCHANGED <<lost, runtimeVars>>
  /\ UNCHANGED <<db, writer, queue, worker, bounds>>

PutTask(h) ==
  LET t == handler[h].task IN
  /\ handler[h].pc = "put"
  /\ queue' = [queue EXCEPT ![route[t]] = Append(@, t)]
  /\ Done(h) /\ Release(h)
  /\ UNCHANGED <<db, writer, worker, runtimeVars, lost, bounds>>

(* A request may fail between its commit and the call that registers the   *)
(* task: the row cannot be read again, or no worker thread starts.  The    *)
(* client gets an error, and the active row that is committed stays.       *)
DropRequest(h) ==
  /\ handler[h].pc \in {"mark", "claimed"}
  /\ escapes < MaxEscapes
  /\ escapes' = escapes + 1
  /\ lost' = lost \union {handler[h].task}
  /\ Done(h) /\ Release(h)
  /\ UNCHANGED <<db, writer, queue, worker, runtimeVars, requests, restarts>>

(***************************************************************************)
(* Requests on the event loop.                                             *)
(***************************************************************************)
(* cancel_task: look, ask the worker to stop, then persist "cancelled".    *)
CancelTask(h, t) ==
  /\ h = EventLoop
  /\ Exists(t) /\ status[t] # "completed"
  /\ BeginLocked(h, "cancel", t, "flag")

DeleteTask(h, t) ==
  /\ h = EventLoop
  /\ NotActive(t)
  /\ BeginLocked(h, "delete", t, "flag")

FlagTask(h) ==
  /\ handler[h].pc = "flag"
  /\ RequestCancel(handler[h].task)
  /\ Goto(h, "commit")
  /\ UNCHANGED <<db, writer, queue, worker, lock, lost, bounds>>

(* retry_task and retranscribe_task *)
RequeueTask(h, t, kind) ==
  /\ h = EventLoop
  /\ kind \in {"retry", "retranscribe"}
  /\ NotActive(t)
  /\ MayRequeue(t)
  /\ BeginLocked(h, kind, t, "commit")

(* The commit of each of them. *)
CommitCancel(h) ==
  LET t == handler[h].task IN
  /\ At(h, "cancel", "commit")
  /\ status' = IF Exists(t) THEN [status EXCEPT ![t] = "cancelled"] ELSE status
  /\ lost' = lost \ {t}
  /\ Done(h) /\ Release(h)
  /\ UNCHANGED <<chunks, results>>

CommitDelete(h) ==
  LET t == handler[h].task IN
  /\ At(h, "delete", "commit")
  /\ status' = [status EXCEPT ![t] = "deleted"]
  /\ chunks' = [chunks EXCEPT ![t] = {}]
  /\ transcript' = [transcript EXCEPT ![t] = FALSE]
  /\ versioned' = [versioned EXCEPT ![t] = FALSE]
  /\ Done(h) /\ Release(h)
  /\ UNCHANGED <<route, lost>>

CommitRetry(h) ==
  LET t == handler[h].task IN
  /\ At(h, "retry", "commit")
  /\ status' = [status EXCEPT ![t] = "queued"]
  /\ chunks' = [chunks EXCEPT ![t] = {}]
  /\ Goto(h, "mark")
  /\ UNCHANGED <<results, lock, lost>>

CommitRetranscribe(h) ==
  LET t == handler[h].task IN
  /\ At(h, "retranscribe", "commit")
  /\ status' = [status EXCEPT ![t] = "queued"]
  /\ chunks' = [chunks EXCEPT ![t] = {}]
  /\ transcript' = [transcript EXCEPT ![t] = FALSE]
  /\ \E q \in Queues : route' = [route EXCEPT ![t] = q]
  /\ Goto(h, "mark")
  /\ UNCHANGED <<versioned, lock, lost>>

(***************************************************************************)
(* reconcile_orphan_tasks, on the event loop and without the lock: first   *)
(* the registry, then the rows, then the commit.                           *)
(***************************************************************************)
ReconcileOrphans(h) ==
  /\ h = EventLoop
  /\ "reconcile" \in Requests
  /\ requests < MaxRequests
  /\ handler[h].pc = "idle"
  /\ handler' = [handler EXCEPT ![h] = [Idle EXCEPT !.kind = "reconcile",
                                                    !.pc = "scan",
                                                    !.seen = ActiveIds]]
  /\ requests' = requests + 1
  /\ UNCHANGED <<db, writer, queue, worker, lock, runtimeVars, lost,
                 escapes, restarts>>

ScanRows(h) ==
  LET orphans == {t \in Tasks : Active(t)} \ handler[h].seen IN
  /\ handler[h].pc = "scan"
  /\ IF orphans = {}
     THEN Done(h)
     ELSE handler' = [handler EXCEPT ![h] = [@ EXCEPT !.pc = "reap", !.seen = orphans]]
  /\ UNCHANGED <<db, writer, besideHandlers>>

(* Variant with a status the rest of the code does not know. *)
Resumable(t) == IF "completed" \in chunks[t] THEN "resumable" ELSE "interrupted"

Interrupted(t) ==
  IF "completed" \in chunks[t] THEN "failed_resumable" ELSE "interrupted"

CommitReconcile(h) ==
  /\ At(h, "reconcile", "reap")
  /\ status' = [t \in Tasks |-> IF t \in handler[h].seen /\ Exists(t)
                                THEN Interrupted(t) ELSE status[t]]
  /\ lost' = lost \ handler[h].seen
  /\ Done(h)
  /\ UNCHANGED <<chunks, results, lock>>

(***************************************************************************)
(* Requests in pool threads under the lock that do not run the pipeline:   *)
(* cleanup_task_artifacts and relink_task_media (both forget the chunk     *)
(* rows), and postprocess_task (a new transcript version).                 *)
(***************************************************************************)
MutateTask(h, t, kind) ==
  /\ h \in PoolThreads
  /\ kind \in {"cleanup", "postprocess"}
  /\ NotActive(t)
  /\ BeginLocked(h, kind, t, "commit")

CommitCleanup(h) ==
  /\ At(h, "cleanup", "commit")
  /\ chunks' = [chunks EXCEPT ![handler[h].task] = {}]
  /\ Done(h) /\ Release(h)
  /\ UNCHANGED <<status, results, lost>>

CommitPostprocess(h) ==
  /\ At(h, "postprocess", "commit")
  /\ versioned' = [versioned EXCEPT ![handler[h].task] = TRUE]
  /\ Done(h) /\ Release(h)
  /\ UNCHANGED <<status, chunks, transcript, route, lost>>

(* Every commit waits for the write lock. *)
CommitRequest(h) ==
  /\ writer = NoOne
  /\ \/ CommitCancel(h) \/ CommitDelete(h)
     \/ CommitRetry(h) \/ CommitRetranscribe(h)
     \/ CommitReconcile(h)
     \/ CommitCleanup(h) \/ CommitPostprocess(h)
  /\ UNCHANGED <<writer, queue, worker, runtimeVars, bounds>>

(***************************************************************************)
(* Failed-chunk recovery (retry_chunk, retry_failed_chunks), in a pool     *)
(* thread: a claim under the lock, slow work outside it, a settlement      *)
(* under the lock.                                                         *)
(***************************************************************************)
ClaimChunks(h, t) ==
  /\ h \in PoolThreads
  /\ NotActive(t)
  /\ "failed" \in chunks[t]
  /\ MayRequeue(t)
  /\ "chunks" \in Requests
  /\ requests < MaxRequests
  /\ handler[h].pc = "idle"
  /\ lock = NoOne
  /\ lock' = h
  /\ \E n \in 1 .. MaxRetried :
       handler' = [handler EXCEPT ![h] = [Idle EXCEPT !.kind = "chunks", !.task = t,
                                          !.pc = "claim", !.left = n,
                                          !.prev = status[t]]]
  /\ requests' = requests + 1
  /\ UNCHANGED <<db, writer, queue, worker, runtimeVars, lost, escapes, restarts>>

CommitClaim(h) ==
  LET t == handler[h].task IN
  /\ handler[h].pc = "claim"
  /\ writer = NoOne
  /\ status' = [status EXCEPT ![t] = "transcribing"]
  /\ Goto(h, "claimed")
  /\ UNCHANGED <<chunks, results, writer, besideHandlers>>

MarkClaim(h) ==
  /\ handler[h].pc = "claimed"
  /\ MarkRunning(handler[h].task)
  /\ Goto(h, "attempt")
  /\ Release(h)
  /\ UNCHANGED <<db, writer, queue, worker, lost, bounds>>

(* A chunk whose row or audio is gone fails the task; any other one is     *)
(* transcribed.  Only the last claimed chunk can empty the failed ones.    *)
AttemptChunk(h) ==
  LET t == handler[h].task
      n == handler[h].left
      rests == IF n > 1 \/ ~handler[h].ok
               THEN {chunks[t]}
               ELSE {chunks[t], chunks[t] \ {"failed"}}
  IN
  /\ handler[h].pc = "attempt"
  /\ n > 0
  /\ writer = NoOne
  /\ \/ /\ status' = IF Exists(t) THEN [status EXCEPT ![t] = "failed"] ELSE status
        /\ handler' = [handler EXCEPT ![h] = [@ EXCEPT !.left = n - 1, !.ok = FALSE]]
        /\ UNCHANGED chunks
     \/ \E r \in rests :
          /\ chunks' = [chunks EXCEPT ![t] = r \union {"open"}]
          /\ handler' = [handler EXCEPT ![h] = [@ EXCEPT !.pc = "chunk", !.rest = r,
                                                            !.left = n - 1]]
          /\ UNCHANGED status
  /\ UNCHANGED <<results, writer, besideHandlers>>

(* The transcription of one chunk fails or is cancelled, or passes the     *)
(* last cancellation check and is kept.                                    *)
EndChunk(h) ==
  LET t == handler[h].task IN
  /\ handler[h].pc = "chunk"
  /\ writer = NoOne
  /\ \/ /\ ~IsCancelled(t)
        /\ Goto(h, "keep")
        /\ UNCHANGED <<status, chunks>>
     \/ /\ chunks' = [chunks EXCEPT ![t] = handler[h].rest \union {"failed"}]
        /\ \E s \in {"failed"} \union (IF IsCancelled(t) THEN {"cancelled"} ELSE {}) :
             status' = IF Exists(t) THEN [status EXCEPT ![t] = s] ELSE status
        /\ handler' = [handler EXCEPT ![h] = [@ EXCEPT !.pc = "attempt", !.ok = FALSE]]
  /\ UNCHANGED <<results, writer, besideHandlers>>

KeepChunk(h) ==
  /\ handler[h].pc = "keep"
  /\ writer = NoOne
  /\ chunks' = [chunks EXCEPT ![handler[h].task] = handler[h].rest \union {"completed"}]
  /\ Goto(h, "attempt")
  /\ UNCHANGED <<status, results, writer, besideHandlers>>

(* The settlement under the lock: cancelled, merged into a completed task, *)
(* back to the status before the claim, or what the failed chunk left.     *)
GatherChunks(h) ==
  LET t == handler[h].task
      settle(s) == /\ handler' = [handler EXCEPT ![h] = [@ EXCEPT !.pc = "settle", !.prev = s]]
                   /\ lock' = h
  IN
  /\ handler[h].pc = "attempt" /\ handler[h].left = 0
  /\ lock = NoOne
  /\ IF ~Exists(t) THEN Goto(h, "finish") /\ UNCHANGED lock
     ELSE IF status[t] = "cancelled" \/ IsCancelled(t) THEN settle("cancelled")
     ELSE IF chunks[t] = {"completed"} THEN settle("completed")
     ELSE IF handler[h].ok THEN settle(handler[h].prev)
     ELSE Goto(h, "finish") /\ UNCHANGED lock
  /\ UNCHANGED <<db, writer, queue, worker, runtimeVars, lost, bounds>>

SettleChunks(h) ==
  LET t == handler[h].task
      s == handler[h].prev
      merged == s = "completed" /\ chunks[t] = {"completed"}
  IN
  /\ handler[h].pc = "settle"
  /\ writer = NoOne
  /\ status' = [status EXCEPT ![t] = IF Exists(t) THEN s ELSE @]
  /\ transcript' = [transcript EXCEPT ![t] = @ \/ merged]
  /\ versioned' = [versioned EXCEPT ![t] = @ \/ merged]
  /\ Goto(h, "finish")
  /\ Release(h)
  /\ UNCHANGED <<chunks, route, writer, queue, worker, runtimeVars, lost, bounds>>

(* An error that escapes the recovery: its handler fails a task that is    *)
(* still transcribing, if that can be written.                             *)
AbortChunks(h) ==
  LET t == handler[h].task IN
  /\ handler[h].pc \in {"attempt", "chunk", "keep", "settle"}
  /\ escapes < MaxEscapes
  /\ writer = NoOne
  /\ \/ /\ status' = IF status[t] = "transcribing"
                     THEN [status EXCEPT ![t] = "failed"] ELSE status
        /\ UNCHANGED lost
     \/ lost' = lost \union {t} /\ UNCHANGED status
  /\ Goto(h, "finish")
  /\ Release(h)
  /\ escapes' = escapes + 1
  /\ UNCHANGED <<chunks, results, writer, queue, worker, runtimeVars, requests, restarts>>

FinishChunks(h) ==
  /\ handler[h].pc = "finish"
  /\ MarkFinished(handler[h].task)
  /\ Done(h)
  /\ UNCHANGED <<db, writer, queue, worker, lock, lost, bounds>>

(***************************************************************************)
(* Workers (_task_worker and run_task).                                    *)
(***************************************************************************)
Serves(w) == IF w \in LocalWorkers THEN "local" ELSE "provider"
Step(w, pc) == worker' = [worker EXCEPT ![w].pc = pc]
Raise(w, code) == worker' = [worker EXCEPT ![w] = [@ EXCEPT !.pc = "raise", !.code = code]]
Enter(w, s) == worker' = [worker EXCEPT ![w] = [@ EXCEPT !.pc = "enter", !.stage = s]]

GetTask(w) ==
  /\ worker[w].pc = "idle"
  /\ queue[Serves(w)] # <<>>
  /\ queue' = [queue EXCEPT ![Serves(w)] = Tail(@)]
  /\ worker' = [worker EXCEPT ![w] = [Workless EXCEPT !.pc = "got",
                                        !.task = Head(queue[Serves(w)])]]
  /\ UNCHANGED <<db, writer, handler, lock, runtimeVars, lost, bounds>>

(* The worker only looks for "cancelled": any other row is executed. *)
ReadRow(w) ==
  LET t == worker[w].task IN
  /\ worker[w].pc = "got"
  /\ IF Exists(t) /\ status[t] # "cancelled" /\ ~IsCancelled(t)
     THEN Step(w, "claim")
     ELSE Step(w, "skip")
  /\ UNCHANGED <<db, writer, besideWorkers>>

SkipTask(w) ==
  /\ worker[w].pc = "skip"
  /\ MarkFinished(worker[w].task)
  /\ worker' = [worker EXCEPT ![w] = Workless]
  /\ UNCHANGED <<db, writer, queue, handler, lock, lost, bounds>>

ClaimTask(w) ==
  /\ worker[w].pc = "claim"
  /\ MarkRunning(worker[w].task)
  /\ Step(w, "start")
  /\ UNCHANGED <<db, writer, queue, handler, lock, lost, bounds>>

StartRun(w) ==
  /\ worker[w].pc = "start"
  /\ IF IsCancelled(worker[w].task)
     THEN Step(w, "finish")
     ELSE \E s \in {"importing", "preprocessing"} : Enter(w, s)
  /\ UNCHANGED <<db, writer, besideWorkers>>

(* _set_task_state overwrites whatever status the row has by now. *)
SetTaskState(w) ==
  LET t == worker[w].task IN
  /\ worker[w].pc = "enter"
  /\ writer = NoOne
  /\ IF Exists(t)
     THEN status' = [status EXCEPT ![t] = worker[w].stage] /\ Step(w, "work")
     ELSE Raise(w, "error") /\ UNCHANGED status
  /\ UNCHANGED <<chunks, results, writer, besideWorkers>>

NextStages(s) ==
  CASE s = "importing" -> {"preprocessing"}
    [] s = "preprocessing" -> {"waiting_model", "transcribing"}
    [] s = "waiting_model" -> {"transcribing"}
    [] OTHER -> {}

(* Every stage begins with _raise_if_cancelled and may fail after it.  The *)
(* import checks only while it copies, so it may end without having looked *)
(* once more.                                                              *)
WorkStage(w) ==
  LET s == worker[w].stage
      cancelled == IsCancelled(worker[w].task)
  IN
  /\ worker[w].pc = "work"
  /\ \/ cancelled /\ Raise(w, "cancelled")
     \/ ~cancelled /\ Raise(w, "error")
     \/ /\ s = "importing" \/ ~cancelled
        /\ \E n \in NextStages(s) : Enter(w, n)
     \/ ~cancelled /\ s = "transcribing" /\ Step(w, "chunking")
     \/ ~cancelled /\ s = "postprocessing" /\ Step(w, "store")
  /\ UNCHANGED <<db, writer, besideWorkers>>

(***************************************************************************)
(* Transcription.  Short media has no chunk rows; long media gets fresh    *)
(* ones, which complete one by one until all are done or the run fails.    *)
(***************************************************************************)
SplitChunks(w) ==
  /\ worker[w].pc = "chunking"
  /\ writer = NoOne
  /\ chunks' = [chunks EXCEPT ![worker[w].task] = {"open"}]
  /\ Step(w, "chunked")
  /\ UNCHANGED <<status, results, writer, besideWorkers>>

CompleteChunk(w) ==
  LET t == worker[w].task IN
  /\ worker[w].pc = "chunked"
  /\ writer = NoOne
  /\ "open" \in chunks[t]
  /\ \E c \in {{"completed"}, {"open", "completed"}} :
       chunks' = [chunks EXCEPT ![t] = c]
  /\ UNCHANGED <<status, results, writer, worker, besideWorkers>>

(* _transcribe_chunks marks the chunk it failed on, whatever the reason,   *)
(* and that may be the last open one; the local worker's chunks just stay  *)
(* unfinished.                                                             *)
FailTranscription(w) ==
  LET t == worker[w].task
      marked == IF worker[w].pc = "chunked" /\ "open" \in chunks[t]
                THEN {chunks[t] \union {"failed"},
                      (chunks[t] \ {"open"}) \union {"failed"}}
                ELSE {}
  IN
  /\ worker[w].pc \in {"chunking", "chunked"}
  /\ writer = NoOne
  /\ \E code \in {"error"} \union (IF IsCancelled(t) THEN {"cancelled"} ELSE {}) :
       Raise(w, code)
  /\ \E c \in {chunks[t]} \union marked : chunks' = [chunks EXCEPT ![t] = c]
  /\ UNCHANGED <<status, results, writer, besideWorkers>>

EndTranscription(w) ==
  /\ \/ worker[w].pc = "chunking"
     \/ worker[w].pc = "chunked" /\ "open" \notin chunks[worker[w].task]
  /\ Step(w, "refresh")
  /\ UNCHANGED <<db, writer, besideWorkers>>

(* db.refresh(row): a run cancelled by now ends without storing anything.  *)
RefreshRow(w) ==
  LET t == worker[w].task IN
  /\ worker[w].pc = "refresh"
  /\ IF ~Exists(t) THEN Raise(w, "error")
     ELSE IF status[t] = "cancelled" \/ IsCancelled(t) THEN Step(w, "finish")
     ELSE Enter(w, "postprocessing")
  /\ UNCHANGED <<db, writer, besideWorkers>>

(***************************************************************************)
(* Persisting the result.  _store_segments opens the write transaction.    *)
(* With quality warnings the diagnostic and log rows commit it, and the    *)
(* transcript with it, before the last cancellation check; without them    *)
(* the worker keeps the write lock up to the completion commit.            *)
(***************************************************************************)
StoreSegments(w) ==
  LET t == worker[w].task IN
  /\ worker[w].pc = "store"
  /\ writer = NoOne
  /\ \/ /\ ~Exists(t)
        /\ Raise(w, "error")
        /\ UNCHANGED <<transcript, writer>>
     \/ /\ Exists(t)
        /\ writer' = w
        /\ Step(w, "final")
        /\ UNCHANGED transcript
     \/ /\ Exists(t) /\ MayWarn
        /\ transcript' = [transcript EXCEPT ![t] = TRUE]
        /\ Step(w, "final")
        /\ UNCHANGED writer
  /\ UNCHANGED <<status, chunks, versioned, route, besideWorkers>>

(* Variant without the last cancellation check. *)
FinalCheckDropped(w) ==
  /\ worker[w].pc = "final"
  /\ Step(w, "complete")
  /\ UNCHANGED <<db, writer, besideWorkers>>

FinalCheck(w) ==
  /\ worker[w].pc = "final"
  /\ IF IsCancelled(worker[w].task) THEN Raise(w, "cancelled") ELSE Step(w, "complete")
  /\ UNCHANGED <<db, writer, besideWorkers>>

(* One commit: the status, the transcript if it is not stored yet, and the *)
(* version that snapshots it.                                              *)
CommitCompletion(w) ==
  LET t == worker[w].task IN
  /\ worker[w].pc = "complete"
  /\ writer \in {w, NoOne}
  /\ IF Exists(t)
     THEN /\ status' = [status EXCEPT ![t] = "completed"]
          /\ transcript' = [transcript EXCEPT ![t] = @ \/ writer = w]
          /\ versioned' = [versioned EXCEPT ![t] = TRUE]
          /\ \E pc \in {"cleanup", "finish"} : Step(w, pc)
          /\ writer' = NoOne
     ELSE Raise(w, "error") /\ UNCHANGED <<status, transcript, versioned, writer>>
  /\ UNCHANGED <<chunks, route, besideWorkers>>

(* With delete_derived_audio_on_complete the chunk rows go, under the lock. *)
CleanUp(w) ==
  LET t == worker[w].task IN
  /\ worker[w].pc = "cleanup"
  /\ lock = NoOne
  /\ writer = NoOne
  /\ chunks' = [chunks EXCEPT ![t] = IF status[t] = "completed" THEN {} ELSE @]
  /\ Step(w, "finish")
  /\ UNCHANGED <<status, results, writer, besideWorkers>>

(* The cleanup is caught, but the log row its handler writes goes through  *)
(* the session that has just failed: when that raises too, as when the     *)
(* switch cannot be read, run_task's own handler gets the error.           *)
FailCleanUp(w) ==
  /\ worker[w].pc = "cleanup"
  /\ escapes < MaxEscapes
  /\ escapes' = escapes + 1
  /\ Raise(w, "followup")
  /\ UNCHANGED <<db, writer, queue, handler, lock, runtimeVars, lost, requests,
                 restarts>>

(***************************************************************************)
(* The exception handler: roll back, look at the row, record the outcome.  *)
(***************************************************************************)
(* Variants of the handler: one records nothing, one does not roll back. *)
HandleErrorSilently(w) ==
  /\ worker[w].pc = "raise"
  /\ writer' = IF writer = w THEN NoOne ELSE writer
  /\ Step(w, "finish")
  /\ UNCHANGED <<db, besideWorkers>>

HandleErrorWithoutRollback(w) ==
  /\ worker[w].pc = "raise"
  /\ Step(w, "finish")
  /\ UNCHANGED <<db, writer, besideWorkers>>

HandleError(w) ==
  LET t == worker[w].task IN
  /\ worker[w].pc = "raise"
  /\ writer' = IF writer = w THEN NoOne ELSE writer
  /\ IF Exists(t) /\ status[t] # "cancelled"
     THEN Step(w, "record")
     ELSE Step(w, "finish")
  /\ UNCHANGED <<db, besideWorkers>>

RecordFailure(w) ==
  LET t == worker[w].task IN
  /\ worker[w].pc = "record"
  /\ writer = NoOne
  /\ status' = [status EXCEPT ![t] =
                  IF ~Exists(t) THEN @
                  ELSE IF worker[w].code = "cancelled" THEN "cancelled" ELSE "failed"]
  /\ Step(w, "finish")
  /\ UNCHANGED <<chunks, results, writer, besideWorkers>>

(* finally: mark_finished *)
FinishRun(w) ==
  /\ worker[w].pc = "finish"
  /\ MarkFinished(worker[w].task)
  /\ worker' = [worker EXCEPT ![w] = Workless]
  /\ UNCHANGED <<db, writer, queue, handler, lock, lost, bounds>>

(***************************************************************************)
(* An error that escapes run_task: its finally clause has untracked the    *)
(* task, and _fail_task_after_escape fails a row that is still active.  A  *)
(* replaced thread serves the same queue.                                  *)
(***************************************************************************)
EscapeRun(w) ==
  /\ worker[w].pc \in {"work", "chunking", "chunked", "final", "record"}
  /\ escapes < MaxEscapes
  /\ escapes' = escapes + 1
  /\ MarkFinished(worker[w].task)
  /\ writer' = IF writer = w THEN NoOne ELSE writer
  /\ Step(w, "escaped")
  /\ UNCHANGED <<db, queue, handler, lock, lost, requests, restarts>>

ReadEscaped(w) ==
  /\ worker[w].pc = "escaped"
  /\ IF Active(worker[w].task) THEN Step(w, "bury") ELSE Step(w, "skip")
  /\ UNCHANGED <<db, writer, besideWorkers>>

(* Best effort: the failure is written, or only logged.                    *)
BuryTask(w) ==
  LET t == worker[w].task IN
  /\ worker[w].pc = "bury"
  /\ writer = NoOne
  /\ \/ /\ status' = [status EXCEPT ![t] = IF Exists(t) THEN "failed" ELSE @]
        /\ UNCHANGED lost
     \/ lost' = lost \union {t} /\ UNCHANGED status
  /\ Step(w, "skip")
  /\ UNCHANGED <<chunks, results, writer, queue, handler, lock, runtimeVars, bounds>>

(***************************************************************************)
(* A crash at any point and the restart: memory is gone, an open           *)
(* transaction too, and mark_interrupted_tasks settles the active rows     *)
(* before any request is served.                                           *)
(***************************************************************************)
Restart ==
  /\ restarts < MaxRestarts
  /\ restarts' = restarts + 1
  /\ RuntimeReset
  /\ queue' = [q \in Queues |-> <<>>]
  /\ worker' = [w \in Workers |-> Workless]
  /\ handler' = [h \in Handlers |-> Idle]
  /\ lock' = NoOne
  /\ writer' = NoOne
  /\ status' = [t \in Tasks |-> IF Active(t) THEN Interrupted(t) ELSE status[t]]
  /\ lost' = {}
  /\ UNCHANGED <<chunks, results, requests, escapes>>

(***************************************************************************)
(* The specification.                                                      *)
(***************************************************************************)
NewRequest(h) ==
  \/ \E t \in Tasks :
       \/ CreateTask(h, t) \/ CancelTask(h, t) \/ DeleteTask(h, t)
       \/ \E kind \in {"retry", "retranscribe"} : RequeueTask(h, t, kind)
       \/ \E kind \in {"cleanup", "postprocess"} : MutateTask(h, t, kind)
       \/ ClaimChunks(h, t)
  \/ ReconcileOrphans(h)

HandlerStep(h) ==
  \/ StartTask(h) \/ PutTask(h) \/ FlagTask(h) \/ ScanRows(h) \/ CommitRequest(h)
  \/ CommitClaim(h) \/ MarkClaim(h) \/ AttemptChunk(h) \/ EndChunk(h)
  \/ KeepChunk(h) \/ GatherChunks(h) \/ SettleChunks(h) \/ FinishChunks(h)

WorkerStep(w) ==
  \/ GetTask(w) \/ ReadRow(w) \/ SkipTask(w) \/ ClaimTask(w) \/ StartRun(w)
  \/ SetTaskState(w) \/ WorkStage(w) \/ SplitChunks(w) \/ CompleteChunk(w)
  \/ FailTranscription(w) \/ EndTranscription(w) \/ RefreshRow(w)
  \/ StoreSegments(w) \/ FinalCheck(w) \/ CommitCompletion(w) \/ CleanUp(w)
  \/ HandleError(w) \/ RecordFailure(w) \/ FinishRun(w)
  \/ ReadEscaped(w) \/ BuryTask(w)

Next ==
  \/ \E h \in Handlers : \/ NewRequest(h) \/ HandlerStep(h)
                         \/ AbortChunks(h) \/ DropRequest(h)
  \/ \E w \in Workers : WorkerStep(w) \/ EscapeRun(w) \/ FailCleanUp(w)
  \/ Restart

Spec == Init /\ [][Next]_vars

(* Threads keep running: a request that started goes on, and so does a     *)
(* worker with a task or with something in its queue.  Clients owe         *)
(* nothing; an engine call returns (the local one is killed when it        *)
(* stalls).                                                                *)
Fairness ==
  /\ \A h \in Handlers : WF_vars(HandlerStep(h))
  /\ \A w \in Workers : WF_vars(WorkerStep(w))

FairSpec == Spec /\ Fairness
====
