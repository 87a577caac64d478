---- MODULE Translation ----
(***************************************************************************)
(* The translation runs of backend/services/translation.py: requests that  *)
(* create, cancel, resume and edit them, the queue of (run, attempt) pairs *)
(* and the worker thread that translates batch after batch with a provider *)
(* outside of any lock.                                                    *)
(*                                                                         *)
(* Every access to the rows is inside task_transition_lock, so that one    *)
(* locked section is one action; the provider's answer, the queue and the  *)
(* start and exit of the worker thread are steps of their own.  Of a task  *)
(* only matters whether its transcript may be worked with: it may be       *)
(* transcribed anew, finish again or be deleted at any time.               *)
(***************************************************************************)
EXTENDS Naturals, Sequences

CONSTANTS
  Tasks, Runs,
  TaskOf,         \* the task each run is created for
  TotalBatches,   \* the batches of a run
  Configs,        \* what a provider may be configured to (endpoint and model)
  LocalConfigs,   \* those that cost nothing
  NoConfig,       \* a disabled provider / a batch without translation
  NoRun,
  Editors,        \* clients that revise results
  DatabaseMayFail, \* may the first or the last commit of a worker fail?
  MaxAttempts,    \* bound on the attempts of a run
  MaxSplits,      \* bound on the further requests for a batch
  MaxRevisions,   \* bound on the revisions of a result
  MaxExits,       \* bound on exits of the worker thread
  MaxRestarts     \* bound on restarts of the process

Batches == 1 .. TotalBatches

ASSUME RunsAssumption == TaskOf \in [Runs -> Tasks] /\ NoRun \notin Runs
ASSUME ConfigsAssumption == LocalConfigs \subseteq Configs /\ NoConfig \notin Configs
ASSUME TranslationBounds ==
  /\ TotalBatches \in Nat \ {0} /\ DatabaseMayFail \in BOOLEAN
  /\ MaxAttempts \in Nat /\ MaxSplits \in Nat /\ MaxRevisions \in Nat
  /\ MaxExits \in Nat /\ MaxRestarts \in Nat

VARIABLES
  task,       \* is the task completed, something else, or gone?
  provider,   \* the provider's configuration
  status,     \* TranslationRun.status
  attempt,    \* TranslationRun.attempt
  config,     \* the configuration the run was created with
  stored,     \* TranslationBatch: the configuration that translated it
  versions,   \* TranslationVersion: per revision, the one its author had seen
  work,       \* the queue of the worker
  calls,      \* enqueue calls under way
  alive,      \* is there a worker thread (_worker)?
  leavers,    \* threads that exit and have not looked at the queue again
  job,        \* what the worker thread is doing
  draft,      \* what an editor's unsaved revision is based on
  exits, restarts

rows == <<task, provider, status, attempt, config, stored, versions>>
thread == <<work, calls, alive, leavers, job>>
vars == <<rows, thread, draft, exits, restarts>>

ActiveStatuses == {"queued", "running"}
ResumableStatuses == {"failed", "cancelled", "interrupted"}
Statuses == ActiveStatuses \union ResumableStatuses \union {"absent", "completed", "deleted"}

JobPCs == {"idle", "begin", "check", "ask", "wait", "store", "repair", "publish",
           "fail", "exit"}
NoJob == [pc |-> "idle", run |-> NoRun, attempt |-> 0, batch |-> 1,
          config |-> NoConfig, repairs |-> FALSE, splits |-> 0, exits |-> FALSE]
Jobs == [pc : JobPCs, run : Runs \union {NoRun}, attempt : 0 .. MaxAttempts,
         batch : 1 .. TotalBatches + 1, config : Configs \union {NoConfig},
         repairs : BOOLEAN, splits : 0 .. MaxSplits, exits : BOOLEAN]
Calls == [run : Runs, attempt : 1 .. MaxAttempts, step : {"put", "ensure"}]

TypeOK ==
  /\ task \in [Tasks -> {"completed", "other", "gone"}]
  /\ provider \in Configs \union {NoConfig}
  /\ status \in [Runs -> Statuses]
  /\ attempt \in [Runs -> 0 .. MaxAttempts]
  /\ config \in [Runs -> Configs \union {NoConfig}]
  /\ stored \in [Runs -> [Batches -> Configs \union {NoConfig}]]
  /\ versions \in [Runs -> Seq(Nat)]
  /\ work \in Seq(Runs \X (1 .. MaxAttempts))
  /\ calls \subseteq Calls
  /\ alive \in BOOLEAN
  /\ leavers \in 0 .. MaxExits
  /\ job \in Jobs
  /\ job.pc \notin {"idle", "begin", "fail", "exit"} => job.config # NoConfig
  /\ draft \in [Editors -> [run : Runs \union {NoRun}, base : Nat]]
  /\ exits \in 0 .. MaxExits
  /\ restarts \in 0 .. MaxRestarts

Init ==
  /\ task = [t \in Tasks |-> "completed"]
  /\ provider \in Configs
  /\ status = [r \in Runs |-> "absent"]
  /\ attempt = [r \in Runs |-> 0]
  /\ config = [r \in Runs |-> NoConfig]
  /\ stored = [r \in Runs |-> [b \in Batches |-> NoConfig]]
  /\ versions = [r \in Runs |-> <<>>]
  /\ work = <<>>
  /\ calls = {}
  /\ alive = FALSE
  /\ leavers = 0
  /\ job = NoJob
  /\ draft = [e \in Editors |-> [run |-> NoRun, base |-> 0]]
  /\ exits = 0
  /\ restarts = 0

(***************************************************************************)
(* The task and the provider, which other requests change.                 *)
(***************************************************************************)
ReopenTask(t) ==
  /\ task[t] = "completed"
  /\ task' = [task EXCEPT ![t] = "other"]
  /\ UNCHANGED <<provider, status, attempt, config, stored, versions, thread,
                 draft, exits, restarts>>

FinishTask(t) ==
  /\ task[t] = "other"
  /\ task' = [task EXCEPT ![t] = "completed"]
  /\ UNCHANGED <<provider, status, attempt, config, stored, versions, thread,
                 draft, exits, restarts>>

(* delete_for_task: the runs go with their task, active ones too. *)
DeleteTask(t) ==
  LET gone(r) == TaskOf[r] = t /\ status[r] # "absent" IN
  /\ task[t] # "gone"
  /\ task' = [task EXCEPT ![t] = "gone"]
  /\ status' = [r \in Runs |-> IF gone(r) THEN "deleted" ELSE status[r]]
  /\ stored' = [r \in Runs |-> IF gone(r) THEN [b \in Batches |-> NoConfig] ELSE stored[r]]
  /\ versions' = [r \in Runs |-> IF gone(r) THEN <<>> ELSE versions[r]]
  /\ UNCHANGED <<provider, attempt, config, thread, draft, exits, restarts>>

ConfigureProvider ==
  /\ provider' \in (Configs \union {NoConfig}) \ {provider}
  /\ UNCHANGED <<task, status, attempt, config, stored, versions, thread, draft,
                 exits, restarts>>

(***************************************************************************)
(* Requests.                                                               *)
(***************************************************************************)
Writable(r) == task[TaskOf[r]] = "completed"
Active(r) == status[r] \in ActiveStatuses

(* Variants: one forgets the runs that wait in the queue, one trusts any   *)
(* enabled provider, one any provider at all.                              *)
NoRunningRun(t) == \A r \in Runs : TaskOf[r] = t => status[r] # "running"
AnyProvider(r) == provider # NoConfig
AnyConfig(r) == TRUE

NoActiveRun(t) == \A r \in Runs : TaskOf[r] = t => ~Active(r)

(* usable_provider *)
UsableProvider(r) == provider # NoConfig /\ provider = config[r]

(* The rows are committed under the lock; enqueue comes after it. *)
Call(r, a) == calls' = calls \union {[run |-> r, attempt |-> a, step |-> "put"]}

CreateRun(r) ==
  /\ status[r] = "absent"
  /\ Writable(r) /\ provider # NoConfig /\ NoActiveRun(TaskOf[r])
  /\ MaxAttempts > 0
  /\ status' = [status EXCEPT ![r] = "queued"]
  /\ attempt' = [attempt EXCEPT ![r] = 1]
  /\ config' = [config EXCEPT ![r] = provider]
  /\ Call(r, 1)
  /\ UNCHANGED <<task, provider, stored, versions, work, alive, leavers, job, draft,
                 exits, restarts>>

CancelRun(r) ==
  /\ Active(r)
  /\ status' = [status EXCEPT ![r] = "cancelled"]
  /\ UNCHANGED <<task, provider, attempt, config, stored, versions, thread, draft,
                 exits, restarts>>

RetryRun(r) ==
  /\ status[r] \in ResumableStatuses
  /\ Writable(r) /\ UsableProvider(r) /\ NoActiveRun(TaskOf[r])
  /\ attempt[r] < MaxAttempts
  /\ status' = [status EXCEPT ![r] = "queued"]
  /\ attempt' = [attempt EXCEPT ![r] = @ + 1]
  /\ Call(r, attempt[r] + 1)
  /\ UNCHANGED <<task, provider, config, stored, versions, work, alive, leavers, job,
                 draft, exits, restarts>>

(* enqueue: the pair goes into the queue, then a worker is made sure of. *)
PutRun(c) ==
  /\ c \in calls /\ c.step = "put"
  /\ work' = Append(work, <<c.run, c.attempt>>)
  /\ calls' = (calls \ {c}) \union {[c EXCEPT !.step = "ensure"]}
  /\ UNCHANGED <<rows, alive, leavers, job, draft, exits, restarts>>

EnsureWorker(c) ==
  /\ c \in calls /\ c.step = "ensure"
  /\ calls' = calls \ {c}
  /\ alive' = TRUE
  /\ UNCHANGED <<rows, work, leavers, job, draft, exits, restarts>>

(* A client looks at the latest revision and later saves a changed one. *)
OpenEditor(e, r) ==
  /\ draft[e].run = NoRun /\ versions[r] # <<>>
  /\ draft' = [draft EXCEPT ![e] = [run |-> r, base |-> Len(versions[r])]]
  /\ UNCHANGED <<rows, thread, exits, restarts>>

(* Variant that takes whatever is sent. *)
AnyBase(e) == versions[draft[e].run] # <<>>

OnLatest(e) ==
  versions[draft[e].run] # <<>> /\ Len(versions[draft[e].run]) = draft[e].base

EditVersion(e) ==
  LET r == draft[e].run IN
  /\ r # NoRun
  /\ \/ /\ Writable(r) /\ OnLatest(e) /\ Len(versions[r]) < MaxRevisions
        /\ versions' = [versions EXCEPT ![r] = Append(@, draft[e].base)]
     \/ UNCHANGED versions   \* a conflict, or nothing changed
  /\ draft' = [draft EXCEPT ![e] = [run |-> NoRun, base |-> 0]]
  /\ UNCHANGED <<task, provider, status, attempt, config, stored, thread, exits, restarts>>

(***************************************************************************)
(* The worker.                                                             *)
(***************************************************************************)
Step(pc) == job' = [job EXCEPT !.pc = pc]
Return == job' = NoJob
besideJob == <<work, calls, alive, leavers, draft, exits, restarts>>

(* Variant that accepts whatever attempt the run is at. *)
CurrentRow(r, a) == status[r] # "deleted" /\ attempt[r] = a

(* _current *)
Current(r, a) == status[r] = "running" /\ attempt[r] = a

(* Most locked sections of the worker begin alike: a run that is not its   *)
(* own any more is left alone, one whose task is not completed fails.      *)
Going == Current(job.run, job.attempt) /\ Writable(job.run)
GiveUp ==
  /\ IF Current(job.run, job.attempt) THEN Step("fail") ELSE Return
  /\ UNCHANGED rows

TakeRun ==
  /\ alive /\ job.pc = "idle" /\ work # <<>>
  /\ job' = [NoJob EXCEPT !.pc = "begin", !.run = Head(work)[1], !.attempt = Head(work)[2]]
  /\ work' = Tail(work)
  /\ UNCHANGED <<rows, calls, alive, leavers, draft, exits, restarts>>

(* Variant that ignores which attempt the queue entry was meant for. *)
IsQueuedRun(r, a) == status[r] = "queued"

IsQueued(r, a) == status[r] = "queued" /\ attempt[r] = a

BeginRun ==
  LET r == job.run IN
  /\ job.pc = "begin"
  /\ IF IsQueued(r, job.attempt)
     THEN /\ status' = [status EXCEPT ![r] = "running"]
          /\ IF Writable(r) /\ UsableProvider(r)
             THEN job' = [job EXCEPT !.pc = "check", !.config = provider]
             ELSE Step("fail")
     ELSE Return /\ UNCHANGED status
  /\ UNCHANGED <<task, provider, attempt, config, stored, versions, besideJob>>

(* Variant that translates every batch of an attempt. *)
NoneKept(r, b) == FALSE

Kept(r, b) == stored[r][b] # NoConfig

(* The next batch: a stored one is kept; after the last one, all of them   *)
(* are collected.                                                          *)
CheckBatch ==
  /\ job.pc = "check"
  /\ \/ /\ Going /\ job.batch \in Batches
        /\ job' = IF Kept(job.run, job.batch)
                  THEN [job EXCEPT !.batch = @ + 1]
                  ELSE [job EXCEPT !.pc = "ask", !.splits = MaxSplits]
     \/ /\ Going /\ job.batch \notin Batches
        /\ IF \A b \in Batches : stored[job.run][b] # NoConfig
           THEN Step("repair") ELSE Step("fail")
     \/ ~Going /\ GiveUp
  /\ UNCHANGED <<rows, besideJob>>

(* _translate_batch looks at the run before every request it sends. *)
AskProvider ==
  /\ job.pc = "ask"
  /\ \/ Going /\ Step("wait")
     \/ ~Going /\ GiveUp
  /\ UNCHANGED <<rows, besideJob>>

(* The answer is good, or the batch is split and asked for in parts, or it *)
(* is an error.                                                            *)
ReceiveAnswer ==
  /\ job.pc = "wait"
  /\ \/ ~job.repairs /\ Step("store")
     \/ job.repairs /\ Step("publish")
     \/ /\ job.splits > 0
        /\ job' = [job EXCEPT !.pc = "ask", !.splits = @ - 1]
     \/ Step("fail")
  /\ UNCHANGED <<rows, besideJob>>

StoreBatch ==
  /\ job.pc = "store"
  /\ \/ /\ Going
        /\ stored' = [stored EXCEPT ![job.run][job.batch] = job.config]
        /\ job' = [job EXCEPT !.pc = "check", !.batch = @ + 1]
        /\ UNCHANGED <<task, provider, status, attempt, config, versions>>
     \/ ~Going /\ GiveUp
  /\ UNCHANGED besideJob

(* _repair_alignment: nothing to repair, too much, or a few cues that are  *)
(* asked for once more, unprompted only where requests cost nothing.       *)
RepairAlignment ==
  /\ job.pc = "repair"
  /\ \/ Step("publish")
     \/ Step("fail")
     \/ /\ job.attempt > 1 \/ job.config \in LocalConfigs
        /\ job' = [job EXCEPT !.pc = "ask", !.repairs = TRUE, !.splits = MaxSplits]
  /\ UNCHANGED <<rows, besideJob>>

PublishRun ==
  /\ job.pc = "publish"
  /\ \/ /\ Going
        /\ versions' = [versions EXCEPT ![job.run] = Append(@, 0)]
        /\ status' = [status EXCEPT ![job.run] = "completed"]
        /\ Return
        /\ UNCHANGED <<task, provider, attempt, config, stored>>
     \/ ~Going /\ GiveUp
  /\ UNCHANGED besideJob

(* An exception in execute_run; some end the thread.  Before the first     *)
(* commit it leaves the run queued.                                        *)
AbortRun ==
  /\ \/ job.pc \in {"check", "ask", "wait", "store", "repair", "publish"}
     \/ job.pc = "begin" /\ DatabaseMayFail
  /\ \/ Step("fail") /\ UNCHANGED exits
     \/ /\ exits < MaxExits
        /\ job' = [job EXCEPT !.pc = "fail", !.exits = TRUE]
        /\ exits' = exits + 1

FailRun ==
  /\ job.pc = "fail"
  /\ status' = IF Current(job.run, job.attempt)
               THEN [status EXCEPT ![job.run] = "failed"] ELSE status
  /\ IF job.exits THEN Step("exit") ELSE Return
  /\ UNCHANGED <<task, provider, attempt, config, stored, versions, besideJob>>

(* _fail_run raises too, for instance because the database is locked: its  *)
(* error ends the thread and the run stays as it is.                       *)
LoseFailure ==
  /\ job.pc = "fail" /\ DatabaseMayFail
  /\ exits < MaxExits
  /\ exits' = exits + 1
  /\ Step("exit")

BreakRun ==
  /\ AbortRun \/ LoseFailure
  /\ UNCHANGED <<rows, work, calls, alive, leavers, draft, restarts>>

ExitWorker ==
  /\ job.pc = "exit"
  /\ alive' = FALSE
  /\ leavers' = leavers + 1
  /\ Return
  /\ UNCHANGED <<rows, work, calls, draft, exits, restarts>>

(* Variant that leaves without a look at the queue. *)
JustLeave ==
  /\ leavers > 0
  /\ leavers' = leavers - 1
  /\ UNCHANGED <<rows, work, calls, alive, job, draft, exits, restarts>>

LeaveQueue ==
  /\ leavers > 0
  /\ leavers' = leavers - 1
  /\ alive' = (alive \/ work # <<>>)
  /\ UNCHANGED <<rows, work, calls, job, draft, exits, restarts>>

(* mark_interrupted_runs *)
InterruptRuns ==
  status' = [r \in Runs |-> IF Active(r) THEN "interrupted" ELSE status[r]]

(* A crash at any point, and the restart. *)
Restart ==
  /\ restarts < MaxRestarts
  /\ restarts' = restarts + 1
  /\ InterruptRuns
  /\ work' = <<>>
  /\ calls' = {}
  /\ alive' = FALSE
  /\ leavers' = 0
  /\ job' = NoJob
  /\ UNCHANGED <<task, provider, attempt, config, stored, versions, draft, exits>>

(***************************************************************************)
(* The specification.                                                      *)
(***************************************************************************)
Environment ==
  \/ \E t \in Tasks : ReopenTask(t) \/ FinishTask(t) \/ DeleteTask(t)
  \/ ConfigureProvider

Request ==
  \/ \E r \in Runs : CreateRun(r) \/ CancelRun(r) \/ RetryRun(r)
  \/ \E e \in Editors : EditVersion(e) \/ \E r \in Runs : OpenEditor(e, r)

Enqueue(c) == PutRun(c) \/ EnsureWorker(c)

WorkerStep ==
  \/ TakeRun \/ BeginRun \/ CheckBatch \/ AskProvider \/ ReceiveAnswer
  \/ StoreBatch \/ RepairAlignment \/ PublishRun \/ FailRun \/ ExitWorker

Next ==
  \/ Environment \/ Request
  \/ \E c \in Calls : Enqueue(c)
  \/ WorkerStep \/ BreakRun \/ LeaveQueue
  \/ Restart

Spec == Init /\ [][Next]_vars

(* Threads keep running and a provider's answer has a deadline. *)
FairSpec ==
  /\ Spec
  /\ WF_vars(WorkerStep) /\ WF_vars(LeaveQueue)
  /\ \A c \in Calls : WF_vars(Enqueue(c))
====
