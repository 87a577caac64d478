-------------------------- MODULE Translation_proofs ---------------------------
(***************************************************************************)
(* Proofs about the translation runs, for any sets of tasks, runs and      *)
(* editors, any number of batches and any bounds.                          *)
(*                                                                         *)
(* Typing.  TypeOK alone is not inductive: the worker writes at job.run    *)
(* and job.batch, which may be NoRun and past the last batch, and a thread *)
(* that ends is counted twice on its way, in exits and in leavers.         *)
(***************************************************************************)
EXTENDS TranslationProperties, TLAPS

RowsTyped ==
  /\ task \in [Tasks -> {"completed", "other", "gone"}]
  /\ provider \in Configs \union {NoConfig}
  /\ status \in [Runs -> Statuses]
  /\ attempt \in [Runs -> 0 .. MaxAttempts]
  /\ config \in [Runs -> Configs \union {NoConfig}]
  /\ stored \in [Runs -> [Batches -> Configs \union {NoConfig}]]
  /\ versions \in [Runs -> Seq(Nat)]

ClientsTyped ==
  /\ draft \in [Editors -> [run : Runs \union {NoRun}, base : Nat]]
  /\ restarts \in 0 .. MaxRestarts

QueueTyped ==
  /\ work \in Seq(Runs \X (1 .. MaxAttempts))
  /\ calls \subseteq Calls
  /\ alive \in BOOLEAN

JobTyped ==
  /\ job \in Jobs
  /\ job.pc # "idle" => job.run \in Runs
  /\ job.pc \notin {"idle", "begin", "fail", "exit"} => job.config # NoConfig
  /\ job.pc \in {"ask", "wait", "store"} /\ ~job.repairs => job.batch \in Batches
  /\ job.pc \in {"begin", "check", "store", "repair"} => ~job.repairs
  /\ job.exits => job.pc \in {"fail", "exit"}

(* The exits are those of the threads that have left and are leaving. *)
Leaving == job.exits \/ job.pc = "exit"
ExitsCounted ==
  /\ exits \in 0 .. MaxExits
  /\ leavers \in Nat
  /\ IF Leaving THEN leavers < exits ELSE leavers <= exits

Typed == RowsTyped /\ ClientsTyped /\ QueueTyped /\ JobTyped /\ ExitsCounted

LEMMA TypedTypeOK == Typed => TypeOK
<1> SUFFICES ASSUME Typed PROVE TypeOK
  OBVIOUS
<1>1. leavers \in 0 .. MaxExits
  BY TranslationBounds DEF Typed, ExitsCounted
<1> QED
  BY <1>1 DEF Typed, RowsTyped, ClientsTyped, QueueTyped, JobTyped, ExitsCounted, TypeOK

LEMMA NoJobTyped ==
  NoJob \in Jobs /\ NoJob.pc = "idle" /\ ~NoJob.repairs /\ ~NoJob.exits /\ NoJob.batch = 1
  BY TranslationBounds DEF NoJob, Jobs, JobPCs

LEMMA NothingTyped == <<>> \in Seq(Runs \X (1 .. MaxAttempts)) /\ {} \subseteq Calls
  OBVIOUS

LEMMA TypedInit == Init => Typed
<1> SUFFICES ASSUME Init PROVE Typed
  OBVIOUS
<1>1. RowsTyped
  BY TranslationBounds DEF Init, RowsTyped, Statuses
<1>2. ClientsTyped
  BY TranslationBounds DEF Init, ClientsTyped
<1>3. QueueTyped
  BY NothingTyped DEF Init, QueueTyped
<1>4. ~Leaving
  BY NoJobTyped DEF Init, Leaving
<1>5. ExitsCounted
  BY <1>4, TranslationBounds DEF Init, ExitsCounted
<1>6. JobTyped
  BY NoJobTyped DEF Init, JobTyped
<1> QED
  BY <1>1, <1>2, <1>3, <1>5, <1>6 DEF Typed

(* What the requests and the environment do to the rows. *)
LEMMA RequestTyped ==
  ASSUME Typed, Environment \/ Request
  PROVE  Typed'
<1> USE DEF Typed
<1>1. ASSUME NEW t \in Tasks, ReopenTask(t) \/ FinishTask(t)
      PROVE  Typed'
  BY <1>1 DEF ReopenTask, FinishTask, thread, RowsTyped, ClientsTyped, QueueTyped, JobTyped,
              ExitsCounted, Leaving
<1>2. ASSUME NEW t \in Tasks, DeleteTask(t)
      PROVE  Typed'
  <2>1. RowsTyped'
    BY <1>2 DEF DeleteTask, RowsTyped, Statuses
  <2> QED
    BY <1>2, <2>1 DEF DeleteTask, thread, ClientsTyped, QueueTyped, JobTyped, ExitsCounted, Leaving
<1>3. ASSUME ConfigureProvider
      PROVE  Typed'
  BY <1>3 DEF ConfigureProvider, thread, RowsTyped, ClientsTyped, QueueTyped, JobTyped,
              ExitsCounted, Leaving
<1>4. ASSUME NEW r \in Runs, CreateRun(r)
      PROVE  Typed'
  <2>1. RowsTyped'
    BY <1>4, TranslationBounds DEF CreateRun, RowsTyped, Statuses, ActiveStatuses
  <2>2. QueueTyped'
    BY <1>4, TranslationBounds DEF CreateRun, Call, QueueTyped, Calls
  <2> QED
    BY <1>4, <2>1, <2>2 DEF CreateRun, ClientsTyped, JobTyped, ExitsCounted, Leaving
<1>5. ASSUME NEW r \in Runs, CancelRun(r)
      PROVE  Typed'
  <2>1. RowsTyped'
    BY <1>5 DEF CancelRun, RowsTyped, Statuses, ResumableStatuses
  <2> QED
    BY <1>5, <2>1 DEF CancelRun, thread, ClientsTyped, QueueTyped, JobTyped, ExitsCounted, Leaving
<1>6. ASSUME NEW r \in Runs, RetryRun(r)
      PROVE  Typed'
  <2>1. attempt[r] + 1 \in 1 .. MaxAttempts
    BY <1>6, TranslationBounds DEF RetryRun, RowsTyped
  <2>2. RowsTyped'
    BY <1>6, <2>1 DEF RetryRun, RowsTyped, Statuses, ActiveStatuses
  <2>3. QueueTyped'
    BY <1>6, <2>1 DEF RetryRun, Call, QueueTyped, Calls
  <2> QED
    BY <1>6, <2>2, <2>3 DEF RetryRun, ClientsTyped, JobTyped, ExitsCounted, Leaving
<1>7. ASSUME NEW e \in Editors, NEW r \in Runs, OpenEditor(e, r)
      PROVE  Typed'
  <2>1. ClientsTyped'
    BY <1>7 DEF OpenEditor, ClientsTyped, RowsTyped
  <2> QED
    BY <1>7, <2>1 DEF OpenEditor, rows, thread, RowsTyped, QueueTyped, JobTyped, ExitsCounted,
                      Leaving
<1>8. ASSUME NEW e \in Editors, EditVersion(e)
      PROVE  Typed'
  <2>1. draft[e].base \in Nat /\ draft[e].run \in Runs
    BY <1>8 DEF EditVersion, ClientsTyped
  <2>2. Append(versions[draft[e].run], draft[e].base) \in Seq(Nat)
    BY <2>1 DEF RowsTyped
  <2>3. RowsTyped' /\ ClientsTyped'
    BY <1>8, <2>1, <2>2 DEF EditVersion, RowsTyped, ClientsTyped
  <2> QED
    BY <1>8, <2>3 DEF EditVersion, thread, QueueTyped, JobTyped, ExitsCounted, Leaving
<1> QED
  BY <1>1, <1>2, <1>3, <1>4, <1>5, <1>6, <1>7, <1>8 DEF Environment, Request

LEMMA EnqueueTyped ==
  ASSUME Typed, NEW c \in Calls, Enqueue(c)
  PROVE  Typed'
<1> USE DEF Typed
<1>1. <<c.run, c.attempt>> \in Runs \X (1 .. MaxAttempts) /\ [c EXCEPT !.step = "ensure"] \in Calls
  BY DEF Calls
<1>2. Append(work, <<c.run, c.attempt>>) \in Seq(Runs \X (1 .. MaxAttempts))
  BY <1>1 DEF QueueTyped
<1>3. QueueTyped'
  BY <1>1, <1>2 DEF Enqueue, PutRun, EnsureWorker, QueueTyped
<1> QED
  BY <1>3 DEF Enqueue, PutRun, EnsureWorker, rows, RowsTyped, ClientsTyped, JobTyped, ExitsCounted,
              Leaving

(***************************************************************************)
(* The worker.                                                             *)
(***************************************************************************)
LEMMA WorkerTyped ==
  ASSUME Typed, WorkerStep
  PROVE  Typed'
<1> USE DEF Typed
<1>a. ASSUME Return
      PROVE  JobTyped' /\ ~Leaving'
  BY <1>a, NoJobTyped DEF Return, JobTyped, Leaving
<1>b. ASSUME Step("fail"), job.pc # "idle"
      PROVE  JobTyped' /\ Leaving' = job.exits
  BY <1>b DEF Step, JobTyped, Jobs, JobPCs, Leaving
<1>c. ASSUME GiveUp, job.pc \notin {"idle", "fail", "exit"}
      PROVE  JobTyped' /\ ~Leaving' /\ RowsTyped'
  BY <1>a, <1>b, <1>c DEF GiveUp, JobTyped, rows, RowsTyped
<1>d. ASSUME job.pc \notin {"fail", "exit"}
      PROVE  ~Leaving
  BY <1>d DEF JobTyped, Leaving
<1>e. MaxSplits \in 0 .. MaxSplits
  BY TranslationBounds
<1>1. ASSUME TakeRun
      PROVE  Typed'
  <2>1. Head(work) \in Runs \X (1 .. MaxAttempts) /\ Tail(work) \in Seq(Runs \X (1 .. MaxAttempts))
    BY <1>1 DEF TakeRun, QueueTyped
  <2>2. Head(work)[1] \in Runs /\ Head(work)[2] \in 0 .. MaxAttempts
    BY <2>1, TranslationBounds
  <2>3. JobTyped' /\ ~Leaving'
    BY <1>1, <2>2, NoJobTyped DEF TakeRun, JobTyped, Jobs, JobPCs, Leaving
  <2> QED
    BY <1>1, <1>d, <2>1, <2>3 DEF TakeRun, rows, RowsTyped, ClientsTyped, QueueTyped, ExitsCounted
<1>2. ASSUME BeginRun
      PROVE  Typed'
  <2>1. RowsTyped'
    BY <1>2 DEF BeginRun, RowsTyped, JobTyped, Statuses, ActiveStatuses
  <2>2. JobTyped' /\ ~Leaving'
    <3>1. CASE Return
      BY <1>a, <3>1
    <3>2. CASE Step("fail")
      BY <1>2, <1>b, <3>2 DEF BeginRun, JobTyped
    <3>3. CASE /\ UsableProvider(job.run)
               /\ job' = [job EXCEPT !.pc = "check", !.config = provider]
      BY <1>2, <3>3 DEF BeginRun, UsableProvider, JobTyped, RowsTyped, Jobs, JobPCs, Leaving
    <3> QED
      BY <1>2, <3>1, <3>2, <3>3 DEF BeginRun
  <2> QED
    BY <1>2, <1>d, <2>1, <2>2 DEF BeginRun, besideJob, ClientsTyped, QueueTyped, ExitsCounted
<1>3. ASSUME CheckBatch
      PROVE  Typed'
  <2>1. RowsTyped'
    BY <1>3 DEF CheckBatch, rows, RowsTyped
  <2>2. JobTyped' /\ ~Leaving'
    <3>1. CASE Step("fail") \/ GiveUp
      BY <1>3, <1>b, <1>c, <3>1 DEF CheckBatch, JobTyped
    <3>2. CASE job' = [job EXCEPT !.batch = @ + 1] /\ job.batch \in Batches
      <4>1. job.batch + 1 \in 1 .. TotalBatches + 1
        BY <3>2, TranslationBounds DEF Batches
      <4> QED
        BY <1>3, <3>2, <4>1 DEF CheckBatch, JobTyped, Jobs, Leaving
    <3>3. CASE job' = [job EXCEPT !.pc = "ask", !.splits = MaxSplits] /\ job.batch \in Batches
      BY <1>3, <1>e, <3>3 DEF CheckBatch, JobTyped, Jobs, JobPCs, Leaving
    <3>4. CASE Step("repair")
      BY <1>3, <3>4 DEF CheckBatch, Step, JobTyped, Jobs, JobPCs, Leaving
    <3> QED
      BY <1>3, <3>1, <3>2, <3>3, <3>4 DEF CheckBatch
  <2> QED
    BY <1>3, <1>d, <2>1, <2>2 DEF CheckBatch, besideJob, ClientsTyped, QueueTyped, ExitsCounted
<1>4. ASSUME AskProvider
      PROVE  Typed'
  <2>1. RowsTyped'
    BY <1>4 DEF AskProvider, rows, RowsTyped
  <2>2. JobTyped' /\ ~Leaving'
    <3>1. CASE GiveUp
      BY <1>4, <1>c, <3>1 DEF AskProvider
    <3>2. CASE Step("wait")
      BY <1>4, <3>2 DEF AskProvider, Step, JobTyped, Jobs, JobPCs, Leaving
    <3> QED
      BY <1>4, <3>1, <3>2 DEF AskProvider
  <2> QED
    BY <1>4, <1>d, <2>1, <2>2 DEF AskProvider, besideJob, ClientsTyped, QueueTyped, ExitsCounted
<1>5. ASSUME ReceiveAnswer
      PROVE  Typed'
  <2>1. RowsTyped'
    BY <1>5 DEF ReceiveAnswer, rows, RowsTyped
  <2>2. JobTyped' /\ ~Leaving'
    <3>1. CASE Step("fail")
      BY <1>5, <1>b, <3>1 DEF ReceiveAnswer, JobTyped
    <3>2. CASE job.splits > 0 /\ job' = [job EXCEPT !.pc = "ask", !.splits = @ - 1]
      <4>1. job.splits - 1 \in 0 .. MaxSplits
        BY <3>2, TranslationBounds DEF JobTyped, Jobs
      <4> QED
        BY <1>5, <3>2, <4>1 DEF ReceiveAnswer, JobTyped, Jobs, JobPCs, Leaving
    <3>3. CASE ~job.repairs /\ Step("store")
      BY <1>5, <3>3 DEF ReceiveAnswer, Step, JobTyped, Jobs, JobPCs, Leaving
    <3>4. CASE job.repairs /\ Step("publish")
      BY <1>5, <3>4 DEF ReceiveAnswer, Step, JobTyped, Jobs, JobPCs, Leaving
    <3> QED
      BY <1>5, <3>1, <3>2, <3>3, <3>4 DEF ReceiveAnswer
  <2> QED
    BY <1>5, <1>d, <2>1, <2>2 DEF ReceiveAnswer, besideJob, ClientsTyped, QueueTyped, ExitsCounted
<1>6. ASSUME StoreBatch
      PROVE  Typed'
  <2>1. RowsTyped' /\ JobTyped' /\ ~Leaving'
    <3>1. CASE GiveUp
      BY <1>6, <1>c, <3>1 DEF StoreBatch
    <3>2. CASE /\ stored' = [stored EXCEPT ![job.run][job.batch] = job.config]
               /\ job' = [job EXCEPT !.pc = "check", !.batch = @ + 1]
               /\ UNCHANGED <<task, provider, status, attempt, config, versions>>
      <4>1. job.run \in Runs /\ job.batch \in Batches /\ job.config \in Configs \union {NoConfig}
        BY <1>6 DEF StoreBatch, JobTyped, Jobs
      <4>2. RowsTyped'
        BY <3>2, <4>1 DEF RowsTyped
      <4>3. job.batch + 1 \in 1 .. TotalBatches + 1
        BY <4>1, TranslationBounds DEF Batches
      <4> QED
        BY <1>6, <3>2, <4>1, <4>2, <4>3 DEF StoreBatch, JobTyped, Jobs, JobPCs, Leaving
    <3> QED
      BY <1>6, <3>1, <3>2 DEF StoreBatch
  <2> QED
    BY <1>6, <1>d, <2>1 DEF StoreBatch, besideJob, ClientsTyped, QueueTyped, ExitsCounted
<1>7. ASSUME RepairAlignment
      PROVE  Typed'
  <2>1. RowsTyped'
    BY <1>7 DEF RepairAlignment, rows, RowsTyped
  <2>2. JobTyped' /\ ~Leaving'
    <3>1. CASE Step("fail")
      BY <1>7, <1>b, <3>1 DEF RepairAlignment, JobTyped
    <3>2. CASE Step("publish")
      BY <1>7, <3>2 DEF RepairAlignment, Step, JobTyped, Jobs, JobPCs, Leaving
    <3>3. CASE job' = [job EXCEPT !.pc = "ask", !.repairs = TRUE, !.splits = MaxSplits]
      BY <1>7, <1>e, <3>3 DEF RepairAlignment, JobTyped, Jobs, JobPCs, Leaving
    <3> QED
      BY <1>7, <3>1, <3>2, <3>3 DEF RepairAlignment
  <2> QED
    BY <1>7, <1>d, <2>1, <2>2 DEF RepairAlignment, besideJob, ClientsTyped, QueueTyped, ExitsCounted
<1>8. ASSUME PublishRun
      PROVE  Typed'
  <2>1. RowsTyped' /\ JobTyped' /\ ~Leaving'
    <3>1. CASE GiveUp
      BY <1>8, <1>c, <3>1 DEF PublishRun
    <3>2. CASE Going /\ Return
      <4>1. job.run \in Runs
        BY <1>8 DEF PublishRun, JobTyped
      <4>2. Append(versions[job.run], 0) \in Seq(Nat)
        BY <4>1 DEF RowsTyped
      <4>3. /\ versions' = [versions EXCEPT ![job.run] = Append(@, 0)]
            /\ status' = [status EXCEPT ![job.run] = "completed"]
            /\ UNCHANGED <<task, provider, attempt, config, stored>>
        BY <1>8, <3>2 DEF PublishRun
      <4>4. versions' \in [Runs -> Seq(Nat)]
        BY <4>1, <4>2, <4>3 DEF RowsTyped
      <4>5. status' \in [Runs -> Statuses]
        BY <4>1, <4>3 DEF RowsTyped, Statuses
      <4> QED
        BY <1>a, <3>2, <4>3, <4>4, <4>5 DEF RowsTyped
    <3> QED
      BY <1>8, <3>1, <3>2 DEF PublishRun
  <2> QED
    BY <1>8, <1>d, <2>1 DEF PublishRun, besideJob, ClientsTyped, QueueTyped, ExitsCounted
<1>9. ASSUME FailRun
      PROVE  Typed'
  <2>1. RowsTyped'
    BY <1>9 DEF FailRun, RowsTyped, JobTyped, Statuses, ResumableStatuses
  <2>2. JobTyped' /\ (Leaving' => Leaving)
    <3>1. CASE job.exits /\ Step("exit")
      BY <1>9, <3>1 DEF FailRun, Step, JobTyped, Jobs, JobPCs, Leaving
    <3>2. CASE Return
      BY <1>a, <3>2
    <3> QED
      BY <1>9, <3>1, <3>2 DEF FailRun
  <2> QED
    BY <1>9, <2>1, <2>2 DEF FailRun, besideJob, ClientsTyped, QueueTyped, ExitsCounted
<1>10. ASSUME ExitWorker
       PROVE  Typed'
  <2>1. Leaving
    BY <1>10 DEF ExitWorker, Leaving
  <2>2. JobTyped' /\ ~Leaving'
    BY <1>10, <1>a DEF ExitWorker
  <2>3. ExitsCounted'
    BY <1>10, <2>1, <2>2, TranslationBounds DEF ExitWorker, ExitsCounted
  <2> QED
    BY <1>10, <2>2, <2>3 DEF ExitWorker, rows, RowsTyped, ClientsTyped, QueueTyped
<1> QED
  BY <1>1, <1>2, <1>3, <1>4, <1>5, <1>6, <1>7, <1>8, <1>9, <1>10 DEF WorkerStep

(* Exceptions, threads that leave, and the restart. *)
LEMMA FaultTyped ==
  ASSUME Typed, BreakRun \/ LeaveQueue \/ Restart
  PROVE  Typed'
<1> USE DEF Typed
<1>1. ASSUME BreakRun, AbortRun
      PROVE  Typed'
  <2>1. job.pc \notin {"idle", "fail", "exit"} /\ ~job.exits /\ ~Leaving
    BY <1>1 DEF AbortRun, JobTyped, Leaving
  <2>2. JobTyped'
    BY <1>1, <2>1 DEF AbortRun, Step, JobTyped, Jobs, JobPCs
  <2>3. ExitsCounted'
    BY <1>1, <2>1, TranslationBounds
    DEF BreakRun, AbortRun, Step, JobTyped, Jobs, Leaving, ExitsCounted
  <2> QED
    BY <1>1, <2>2, <2>3 DEF BreakRun, rows, RowsTyped, ClientsTyped, QueueTyped
<1>2. ASSUME BreakRun, LoseFailure
      PROVE  Typed'
  <2>1. JobTyped'
    BY <1>2 DEF LoseFailure, Step, JobTyped, Jobs, JobPCs
  <2>2. ExitsCounted'
    BY <1>2, TranslationBounds DEF BreakRun, LoseFailure, Leaving, ExitsCounted
  <2> QED
    BY <1>2, <2>1, <2>2 DEF BreakRun, rows, RowsTyped, ClientsTyped, QueueTyped
<1>3. ASSUME LeaveQueue
      PROVE  Typed'
  BY <1>3 DEF LeaveQueue, rows, RowsTyped, ClientsTyped, QueueTyped, JobTyped, ExitsCounted, Leaving
<1>4. ASSUME Restart
      PROVE  Typed'
  <2>1. RowsTyped'
    BY <1>4 DEF Restart, InterruptRuns, RowsTyped, Statuses, ResumableStatuses
  <2>2. JobTyped' /\ ~Leaving'
    BY <1>4, NoJobTyped DEF Restart, JobTyped, Leaving
  <2>3. ClientsTyped'
    BY <1>4, TranslationBounds DEF Restart, ClientsTyped
  <2>4. QueueTyped'
    BY <1>4, NothingTyped DEF Restart, QueueTyped
  <2>5. ExitsCounted'
    BY <1>4, <2>2, TranslationBounds DEF Restart, ExitsCounted
  <2> QED
    BY <2>1, <2>2, <2>3, <2>4, <2>5
<1> QED
  BY <1>1, <1>2, <1>3, <1>4 DEF BreakRun

LEMMA TypedNext == Typed /\ [Next]_vars => Typed'
<1> SUFFICES ASSUME Typed, [Next]_vars PROVE Typed'
  OBVIOUS
<1>1. CASE UNCHANGED vars
  BY <1>1 DEF vars, rows, thread, Typed, RowsTyped, ClientsTyped, QueueTyped, JobTyped,
              ExitsCounted, Leaving
<1> QED
  BY <1>1, RequestTyped, EnqueueTyped, WorkerTyped, FaultTyped DEF Next

LEMMA TypedHolds == Spec => []Typed
<1> QED
  BY TypedInit, TypedNext, PTL DEF Spec

(* Every reachable state of the translation runs is well typed. *)
THEOREM TranslationTypeOK == Spec => []TypeOK
  BY TypedHolds, TypedTypeOK, PTL

(***************************************************************************)
(* The translation runs implement TranslationContract, for any sets of     *)
(* tasks, runs and editors and any number of batches.                      *)
(*                                                                         *)
(* A step of the worker is a step of the contract because of what it knows *)
(* of its run as long as the run is still its own: the batch it asks for   *)
(* has no translation (NotAskedAgain), and what it repairs and publishes   *)
(* is the whole run (WholeRun).  Only completed runs have revisions        *)
(* (Published).  Together these are inductive: nobody else stores a batch  *)
(* of a running run, and nobody but BeginRun makes a run running.          *)
(***************************************************************************)

Asking == job.pc \in {"ask", "wait", "store"} /\ ~job.repairs
Assembled == job.pc \in {"repair", "publish"} \/ (job.pc \in {"ask", "wait"} /\ job.repairs)
Mine == Current(job.run, job.attempt)

Translated(r, b) == stored[r][b] # NoConfig
WholeRun == Assembled /\ Mine => \A b \in Batches : Translated(job.run, b)
NextBatch == Asking /\ Mine => ~Translated(job.run, job.batch)
Published == \A r \in Runs : versions[r] # <<>> => status[r] = "completed"

Progress == WholeRun /\ NextBatch /\ Published

LEMMA NextBatchNotAsked == ASSUME Typed PROVE NextBatch <=> NotAskedAgain
  BY DEF Typed, JobTyped, NextBatch, NotAskedAgain, Asking, Mine, Translated, Stored

LEMMA ProgressInit == Init => Progress
  BY NoJobTyped DEF Init, Progress, WholeRun, NextBatch, Published, Asking, Assembled

(***************************************************************************)
(* Requests leave the rows of a running run alone, or end it.              *)
(***************************************************************************)
LEMMA RequestsEndRuns ==
  ASSUME Typed, Environment \/ Request \/ \E c \in Calls : Enqueue(c)
  PROVE  /\ job' = job
         /\ \A r \in Runs : status'[r] = "running" =>
              status[r] = "running" /\ attempt'[r] = attempt[r] /\ stored'[r] = stored[r]
<1> USE DEF Typed, RowsTyped
<1>1. ASSUME NEW t \in Tasks, ReopenTask(t) \/ FinishTask(t)
      PROVE  UNCHANGED <<job, status, attempt, stored>>
  BY <1>1 DEF ReopenTask, FinishTask, thread
<1>2. ASSUME NEW t \in Tasks, DeleteTask(t)
      PROVE  /\ UNCHANGED <<job, attempt>>
             /\ \A r \in Runs : status'[r] = "running" => status[r] = "running" /\ stored'[r] = stored[r]
  BY <1>2 DEF DeleteTask, thread
<1>3. ASSUME ConfigureProvider
      PROVE  UNCHANGED <<job, status, attempt, stored>>
  BY <1>3 DEF ConfigureProvider, thread
<1>4. ASSUME NEW r \in Runs, CreateRun(r) \/ RetryRun(r)
      PROVE  /\ UNCHANGED <<job, stored>>
             /\ status' = [status EXCEPT ![r] = "queued"]
             /\ \A s \in Runs \ {r} : attempt'[s] = attempt[s]
  BY <1>4 DEF CreateRun, RetryRun
<1>5. ASSUME NEW r \in Runs, CancelRun(r)
      PROVE  /\ UNCHANGED <<job, attempt, stored>>
             /\ status' = [status EXCEPT ![r] = "cancelled"]
  BY <1>5 DEF CancelRun, thread
<1>6. ASSUME NEW e \in Editors, NEW r \in Runs, OpenEditor(e, r)
      PROVE  UNCHANGED <<job, status, attempt, stored>>
  BY <1>6 DEF OpenEditor, thread, rows
<1>7. ASSUME NEW e \in Editors, EditVersion(e)
      PROVE  UNCHANGED <<job, status, attempt, stored>>
  BY <1>7 DEF EditVersion, thread
<1>8. ASSUME NEW c \in Calls, Enqueue(c)
      PROVE  UNCHANGED <<job, status, attempt, stored>>
  BY <1>8 DEF Enqueue, PutRun, EnsureWorker, rows
<1>9. CASE Environment
  BY <1>1, <1>2, <1>3, <1>9 DEF Environment
<1>10. CASE Request
  <2>1. ASSUME NEW r \in Runs, CreateRun(r) \/ RetryRun(r)
        PROVE  \A s \in Runs : status'[s] = "running" =>
                 status[s] = "running" /\ attempt'[s] = attempt[s] /\ stored'[s] = stored[s]
    BY <1>4, <2>1
  <2>2. ASSUME NEW r \in Runs, CancelRun(r)
        PROVE  \A s \in Runs : status'[s] = "running" =>
                 status[s] = "running" /\ attempt'[s] = attempt[s] /\ stored'[s] = stored[s]
    BY <1>5, <2>2
  <2> QED
    BY <1>4, <1>5, <1>6, <1>7, <1>10, <2>1, <2>2 DEF Request
<1> QED
  BY <1>8, <1>9, <1>10

(* Who changes the revisions. *)
LEMMA RequestPublished ==
  ASSUME Typed, Published, Environment \/ Request \/ \E c \in Calls : Enqueue(c)
  PROVE  Published'
<1> USE DEF Typed, RowsTyped, Published
<1>1. ASSUME NEW t \in Tasks, ReopenTask(t) \/ FinishTask(t)
      PROVE  Published'
  BY <1>1 DEF ReopenTask, FinishTask
<1>2. ASSUME NEW t \in Tasks, DeleteTask(t)
      PROVE  Published'
  BY <1>2 DEF DeleteTask
<1>3. ASSUME ConfigureProvider
      PROVE  Published'
  BY <1>3 DEF ConfigureProvider
<1>4. ASSUME NEW r \in Runs, CreateRun(r) \/ CancelRun(r) \/ RetryRun(r)
      PROVE  Published'
  <2>1. status[r] # "completed" /\ versions' = versions /\ \A s \in Runs \ {r} : status'[s] = status[s]
    BY <1>4 DEF CreateRun, CancelRun, RetryRun, Active, ActiveStatuses, ResumableStatuses
  <2> QED
    BY <2>1
<1>5. ASSUME NEW e \in Editors, NEW r \in Runs, OpenEditor(e, r)
      PROVE  Published'
  BY <1>5 DEF OpenEditor, rows
<1>6. ASSUME NEW e \in Editors, EditVersion(e)
      PROVE  Published'
  BY <1>6 DEF EditVersion, OnLatest
<1>7. ASSUME NEW c \in Calls, Enqueue(c)
      PROVE  Published'
  BY <1>7 DEF Enqueue, PutRun, EnsureWorker, rows
<1> QED
  BY <1>1, <1>2, <1>3, <1>4, <1>5, <1>6, <1>7 DEF Environment, Request

LEMMA RequestProgress ==
  ASSUME Typed, Progress, Environment \/ Request \/ \E c \in Calls : Enqueue(c)
  PROVE  Progress'
<1>1. Published'
  BY RequestPublished DEF Progress
<1>2. job' = job
  BY RequestsEndRuns
<1>3. ASSUME Asking \/ Assembled
      PROVE  job.run \in Runs
  BY <1>3 DEF Typed, JobTyped, Asking, Assembled
<1>4. ASSUME Asking \/ Assembled, Mine'
      PROVE  Mine /\ stored'[job.run] = stored[job.run]
  BY <1>2, <1>3, <1>4, RequestsEndRuns DEF Mine, Current
<1>5. WholeRun'
  BY <1>2, <1>4 DEF Progress, WholeRun, Assembled, Translated
<1>6. NextBatch'
  BY <1>2, <1>4 DEF Progress, NextBatch, Asking, Translated
<1> QED
  BY <1>1, <1>5, <1>6 DEF Progress

(***************************************************************************)
(* The worker.  Outside of Asking and Assembled it claims nothing.         *)
(***************************************************************************)
LEMMA ResignedProgress ==
  ASSUME Published', ~Asking', ~Assembled'
  PROVE  Progress'
  BY DEF Progress, WholeRun, NextBatch

LEMMA RowsKeptProgress ==
  ASSUME Progress, UNCHANGED rows,
         Asking' => Asking /\ job'.run = job.run /\ job'.attempt = job.attempt
                           /\ job'.batch = job.batch,
         Assembled' => Assembled /\ job'.run = job.run /\ job'.attempt = job.attempt
  PROVE  Progress'
  BY DEF Progress, WholeRun, NextBatch, Published, Mine, Current, Translated, rows

LEMMA StepFields ==
  ASSUME Typed, NEW pc \in JobPCs, Step(pc)
  PROVE  /\ job'.pc = pc /\ job'.run = job.run /\ job'.attempt = job.attempt
         /\ job'.batch = job.batch /\ job'.repairs = job.repairs
  BY DEF Typed, JobTyped, Jobs, Step

LEMMA GiveUpProgress ==
  ASSUME Typed, Progress, GiveUp
  PROVE  Progress'
<1>1. CASE Return
  BY <1>1, NoJobTyped, RowsKeptProgress DEF GiveUp, Return, Asking, Assembled
<1>2. CASE Step("fail")
  <2>1. job'.pc = "fail"
    BY <1>2, StepFields DEF JobPCs
  <2> QED
    BY <2>1, RowsKeptProgress DEF GiveUp, Asking, Assembled
<1> QED
  BY <1>1, <1>2 DEF GiveUp

LEMMA FailProgress ==
  ASSUME Typed, Progress, Step("fail") \/ Step("exit") \/ Return, Published'
  PROVE  Progress'
<1>1. job'.pc \in {"fail", "exit", "idle"}
  BY StepFields, NoJobTyped DEF JobPCs, Return
<1> QED
  BY <1>1, ResignedProgress DEF Asking, Assembled

LEMMA WorkerProgress ==
  ASSUME Typed, Progress, WorkerStep
  PROVE  Progress'
<1> USE DEF Typed
<1>a. ASSUME UNCHANGED rows
      PROVE  Published'
  BY <1>a DEF Progress, Published, rows
<1>1. ASSUME TakeRun
      PROVE  Progress'
  <2>1. job'.pc = "begin"
    BY <1>1, NoJobTyped DEF TakeRun, Jobs
  <2> QED
    BY <1>1, <1>a, <2>1, ResignedProgress DEF TakeRun, Asking, Assembled
<1>2. ASSUME BeginRun
      PROVE  Progress'
  <2>1. job.run \in Runs
    BY <1>2 DEF BeginRun, JobTyped
  <2>2. Published'
    BY <1>2, <2>1 DEF BeginRun, Progress, Published, IsQueued, RowsTyped
  <2>3. CASE Return \/ Step("fail")
    BY <2>2, <2>3, FailProgress
  <2>4. CASE job' = [job EXCEPT !.pc = "check", !.config = provider]
    BY <2>2, <2>4, ResignedProgress DEF JobTyped, Jobs, Asking, Assembled
  <2> QED
    BY <1>2, <2>3, <2>4 DEF BeginRun
<1>3. ASSUME CheckBatch
      PROVE  Progress'
  <2>1. Published' /\ UNCHANGED rows /\ job.pc = "check"
    BY <1>3, <1>a DEF CheckBatch
  <2>2. CASE GiveUp
    BY <2>2, GiveUpProgress
  <2>3. CASE Step("fail")
    BY <2>1, <2>3, FailProgress
  <2>4. CASE job' = [job EXCEPT !.batch = @ + 1]
    BY <2>1, <2>4, ResignedProgress DEF JobTyped, Jobs, Asking, Assembled
  <2>5. CASE ~Kept(job.run, job.batch) /\ job' = [job EXCEPT !.pc = "ask", !.splits = MaxSplits]
    <3>1. /\ job'.pc = "ask" /\ job'.run = job.run /\ job'.batch = job.batch /\ ~job'.repairs
      BY <2>1, <2>5 DEF JobTyped, Jobs
    <3>2. NextBatch'
      BY <2>1, <2>5, <3>1 DEF NextBatch, Translated, Kept, rows
    <3>3. WholeRun'
      BY <3>1 DEF WholeRun, Assembled
    <3> QED
      BY <2>1, <3>2, <3>3 DEF Progress
  <2>6. CASE Step("repair") /\ \A b \in Batches : stored[job.run][b] # NoConfig
    <3>1. job'.pc = "repair" /\ job'.run = job.run
      BY <2>6, StepFields DEF JobPCs
    <3>2. WholeRun'
      BY <2>1, <2>6, <3>1 DEF WholeRun, Translated, rows
    <3>3. NextBatch'
      BY <3>1 DEF NextBatch, Asking
    <3> QED
      BY <2>1, <3>2, <3>3 DEF Progress
  <2> QED
    BY <1>3, <2>2, <2>3, <2>4, <2>5, <2>6 DEF CheckBatch
<1>4. ASSUME AskProvider
      PROVE  Progress'
  <2>1. CASE GiveUp
    BY <2>1, GiveUpProgress
  <2>2. CASE Step("wait")
    <3>1. /\ job'.pc = "wait" /\ job'.run = job.run /\ job'.attempt = job.attempt
          /\ job'.batch = job.batch /\ job'.repairs = job.repairs
      BY <2>2, StepFields DEF JobPCs
    <3> QED
      BY <1>4, <3>1, RowsKeptProgress DEF AskProvider, Asking, Assembled
  <2> QED
    BY <1>4, <2>1, <2>2 DEF AskProvider
<1>5. ASSUME ReceiveAnswer
      PROVE  Progress'
  <2>1. CASE Step("fail")
    BY <1>5, <1>a, <2>1, FailProgress DEF ReceiveAnswer
  <2>2. CASE job' = [job EXCEPT !.pc = "ask", !.splits = @ - 1]
    <3>1. /\ job'.pc = "ask" /\ job'.run = job.run /\ job'.attempt = job.attempt
          /\ job'.batch = job.batch /\ job'.repairs = job.repairs
      BY <2>2 DEF JobTyped, Jobs
    <3> QED
      BY <1>5, <3>1, RowsKeptProgress DEF ReceiveAnswer, Asking, Assembled
  <2>3. CASE ~job.repairs /\ Step("store")
    <3>1. /\ job'.pc = "store" /\ job'.run = job.run /\ job'.attempt = job.attempt
          /\ job'.batch = job.batch /\ job'.repairs = job.repairs
      BY <2>3, StepFields DEF JobPCs
    <3> QED
      BY <1>5, <2>3, <3>1, RowsKeptProgress DEF ReceiveAnswer, Asking, Assembled
  <2>4. CASE job.repairs /\ Step("publish")
    <3>1. /\ job'.pc = "publish" /\ job'.run = job.run /\ job'.attempt = job.attempt
          /\ job'.batch = job.batch /\ job'.repairs = job.repairs
      BY <2>4, StepFields DEF JobPCs
    <3> QED
      BY <1>5, <2>4, <3>1, RowsKeptProgress DEF ReceiveAnswer, Asking, Assembled
  <2> QED
    BY <1>5, <2>1, <2>2, <2>3, <2>4 DEF ReceiveAnswer
<1>6. ASSUME StoreBatch
      PROVE  Progress'
  <2>1. CASE GiveUp
    BY <2>1, GiveUpProgress
  <2>2. CASE /\ job' = [job EXCEPT !.pc = "check", !.batch = @ + 1]
             /\ UNCHANGED <<task, provider, status, attempt, config, versions>>
    <3>1. job'.pc = "check"
      BY <2>2 DEF JobTyped, Jobs
    <3> QED
      BY <2>2, <3>1, ResignedProgress DEF Progress, Published, Asking, Assembled
  <2> QED
    BY <1>6, <2>1, <2>2 DEF StoreBatch
<1>7. ASSUME RepairAlignment
      PROVE  Progress'
  <2>1. CASE Step("fail")
    BY <1>7, <1>a, <2>1, FailProgress DEF RepairAlignment
  <2>2. CASE Step("publish")
    <3>1. job'.pc = "publish" /\ job'.run = job.run /\ job'.attempt = job.attempt
      BY <2>2, StepFields DEF JobPCs
    <3> QED
      BY <1>7, <3>1, RowsKeptProgress DEF RepairAlignment, Asking, Assembled
  <2>3. CASE job' = [job EXCEPT !.pc = "ask", !.repairs = TRUE, !.splits = MaxSplits]
    <3>1. /\ job'.pc = "ask" /\ job'.run = job.run /\ job'.attempt = job.attempt /\ job'.repairs
      BY <2>3 DEF JobTyped, Jobs
    <3> QED
      BY <1>7, <3>1, RowsKeptProgress DEF RepairAlignment, Asking, Assembled
  <2> QED
    BY <1>7, <2>1, <2>2, <2>3 DEF RepairAlignment
<1>8. ASSUME PublishRun
      PROVE  Progress'
  <2>1. CASE GiveUp
    BY <2>1, GiveUpProgress
  <2>2. CASE /\ versions' = [versions EXCEPT ![job.run] = Append(@, 0)]
             /\ status' = [status EXCEPT ![job.run] = "completed"]
             /\ Return
    <3>1. Published'
      BY <1>8, <2>2 DEF PublishRun, Progress, Published, RowsTyped, JobTyped
    <3> QED
      BY <2>2, <3>1, FailProgress
  <2> QED
    BY <1>8, <2>1, <2>2 DEF PublishRun
<1>9. ASSUME FailRun
      PROVE  Progress'
  <2>1. Published'
    BY <1>9 DEF FailRun, Current, Progress, Published, RowsTyped, JobTyped
  <2> QED
    BY <1>9, <2>1, FailProgress DEF FailRun
<1>10. ASSUME ExitWorker
       PROVE  Progress'
  BY <1>10, <1>a, FailProgress DEF ExitWorker
<1> QED
  BY <1>1, <1>2, <1>3, <1>4, <1>5, <1>6, <1>7, <1>8, <1>9, <1>10 DEF WorkerStep

LEMMA FaultProgress ==
  ASSUME Typed, Progress, BreakRun \/ LeaveQueue \/ Restart
  PROVE  Progress'
<1>1. CASE BreakRun /\ AbortRun
  <2>1. job'.pc = "fail" /\ UNCHANGED rows
    BY <1>1 DEF BreakRun, AbortRun, Step, Typed, JobTyped, Jobs
  <2> QED
    BY <2>1, RowsKeptProgress DEF Asking, Assembled
<1>2. CASE BreakRun /\ LoseFailure
  BY <1>2, FailProgress DEF BreakRun, LoseFailure, Progress, Published, rows
<1>3. CASE LeaveQueue
  BY <1>3, RowsKeptProgress DEF LeaveQueue, Asking, Assembled
<1>4. CASE Restart
  <2>1. Published'
    BY <1>4 DEF Restart, InterruptRuns, Active, ActiveStatuses, Progress, Published, Typed, RowsTyped
  <2> QED
    BY <1>4, <2>1, FailProgress DEF Restart, Return
<1> QED
  BY <1>1, <1>2, <1>3, <1>4 DEF BreakRun

LEMMA ProgressNext == Typed /\ Progress /\ [Next]_vars => Progress'
<1> SUFFICES ASSUME Typed, Progress, [Next]_vars PROVE Progress'
  OBVIOUS
<1>1. CASE UNCHANGED vars
  BY <1>1, RowsKeptProgress DEF vars, thread, Asking, Assembled
<1> QED
  BY <1>1, RequestProgress, WorkerProgress, FaultProgress DEF Next

LEMMA ProgressHolds == Spec => [](Typed /\ Progress)
  BY TypedInit, TypedNext, ProgressInit, ProgressNext, PTL DEF Spec

(* A batch that has a translation is not asked for again, except to repair *)
(* the assembled result: what is stored is not paid for twice.             *)
THEOREM NotAskedAgainHolds == Spec => []NotAskedAgain
<1>1. Typed /\ Progress => NotAskedAgain
  BY NextBatchNotAsked DEF Progress
<1> QED
  BY <1>1, ProgressHolds, PTL

(***************************************************************************)
(* The refinement.  done of the contract is the set of stored batches.     *)
(***************************************************************************)
LEMMA ContractInit == Init => Contract!Init
  BY DEF Init, Contract!Init, Stored

Idle == UNCHANGED Contract!vars

LEMMA StoredKept ==
  ASSUME UNCHANGED stored
  PROVE  UNCHANGED [r \in Runs |-> Stored(r)]
  BY DEF Stored

LEMMA RowsIdle ==
  ASSUME UNCHANGED <<status, attempt, stored, versions>>
  PROVE  Idle
  BY StoredKept DEF Idle, Contract!vars

LEMMA RequestRefines ==
  ASSUME Typed, Progress, Environment \/ Request \/ \E c \in Calls : Enqueue(c)
  PROVE  Contract!Next \/ Idle
<1> USE DEF Typed, RowsTyped
<1>1. ASSUME NEW t \in Tasks, ReopenTask(t) \/ FinishTask(t)
      PROVE  Idle
  BY <1>1, RowsIdle DEF ReopenTask, FinishTask
<1>2. ASSUME NEW t \in Tasks, DeleteTask(t)
      PROVE  Contract!Next
  <2>1. [r \in Runs |-> Stored(r)]'
        = [r \in Runs |-> IF TaskOf[r] = t /\ status[r] # "absent" THEN {} ELSE [s \in Runs |-> Stored(s)][r]]
    BY <1>2 DEF DeleteTask, Stored
  <2>2. Contract!Delete(t)
    BY <1>2, <2>1 DEF DeleteTask, Contract!Delete
  <2> QED
    BY <2>2 DEF Contract!Next
<1>3. ASSUME ConfigureProvider
      PROVE  Idle
  BY <1>3, RowsIdle DEF ConfigureProvider
<1>4. ASSUME NEW r \in Runs, CreateRun(r)
      PROVE  Contract!Next
  <2>1. Contract!Create(r)
    BY <1>4, StoredKept
    DEF CreateRun, NoActiveRun, Active, ActiveStatuses, Contract!Create, Contract!Free,
        Contract!ActiveRun, Contract!Move
  <2> QED
    BY <2>1 DEF Contract!Next
<1>5. ASSUME NEW r \in Runs, CancelRun(r)
      PROVE  Contract!Next
  <2>1. Contract!Cancel(r)
    BY <1>5, StoredKept
    DEF CancelRun, Active, ActiveStatuses, Contract!Cancel, Contract!ActiveRun, Contract!Move
  <2> QED
    BY <2>1 DEF Contract!Next
<1>6. ASSUME NEW r \in Runs, RetryRun(r)
      PROVE  Contract!Next
  <2>1. Contract!Resume(r)
    BY <1>6, StoredKept
    DEF RetryRun, ResumableStatuses, NoActiveRun, Active, ActiveStatuses, Contract!Resume,
        Contract!Resumable, Contract!Free, Contract!ActiveRun, Contract!Move
  <2> QED
    BY <2>1 DEF Contract!Next
<1>7. ASSUME NEW e \in Editors, NEW r \in Runs, OpenEditor(e, r)
      PROVE  Idle
  BY <1>7, RowsIdle DEF OpenEditor, rows
<1>8. ASSUME NEW e \in Editors, EditVersion(e)
      PROVE  Contract!Next \/ Idle
  <2>1. CASE UNCHANGED versions
    BY <1>8, <2>1, RowsIdle DEF EditVersion
  <2>2. CASE /\ OnLatest(e)
             /\ versions' = [versions EXCEPT ![draft[e].run] = Append(@, draft[e].base)]
    <3>1. draft[e].run \in Runs /\ status[draft[e].run] = "completed"
      BY <1>8, <2>2 DEF EditVersion, OnLatest, ClientsTyped, Progress, Published
    <3>2. Contract!Edit(draft[e].run)
      BY <1>8, <2>2, <3>1, StoredKept DEF EditVersion, OnLatest, Contract!Edit
    <3> QED
      BY <3>1, <3>2 DEF Contract!Next
  <2> QED
    BY <1>8, <2>1, <2>2 DEF EditVersion
<1>9. ASSUME NEW c \in Calls, Enqueue(c)
      PROVE  Idle
  BY <1>9, RowsIdle DEF Enqueue, PutRun, EnsureWorker, rows
<1> QED
  BY <1>1, <1>2, <1>3, <1>4, <1>5, <1>6, <1>7, <1>8, <1>9 DEF Environment, Request

LEMMA WorkerRefines ==
  ASSUME Typed, Progress, WorkerStep
  PROVE  Contract!Next \/ Idle
<1> USE DEF Typed, RowsTyped
<1>1. CASE UNCHANGED rows
  BY <1>1, RowsIdle DEF rows
<1>2. ASSUME BeginRun, IsQueued(job.run, job.attempt)
      PROVE  Contract!Next
  <2>1. job.run \in Runs
    BY <1>2 DEF BeginRun, JobTyped
  <2>2. Contract!Start(job.run)
    BY <1>2, StoredKept DEF BeginRun, IsQueued, Contract!Start, Contract!Move
  <2> QED
    BY <2>1, <2>2 DEF Contract!Next
<1>3. ASSUME BeginRun, ~IsQueued(job.run, job.attempt)
      PROVE  Idle
  BY <1>3, RowsIdle DEF BeginRun
<1>4. ASSUME StoreBatch, Going
      PROVE  Contract!Next
  <2>1. job.run \in Runs /\ job.batch \in Batches /\ Asking /\ Mine /\ job.config # NoConfig
    BY <1>4 DEF StoreBatch, Going, Mine, Asking, JobTyped
  <2>2. job.batch \notin Stored(job.run)
    BY <2>1 DEF Progress, NextBatch, Translated, Stored
  <2>3. /\ stored' = [stored EXCEPT ![job.run][job.batch] = job.config]
        /\ UNCHANGED <<status, attempt, versions>>
    BY <1>4 DEF StoreBatch, GiveUp
  <2>4. [r \in Runs |-> Stored(r)]'
        = [[r \in Runs |-> Stored(r)] EXCEPT ![job.run] = @ \union {job.batch}]
    <3>1. \A r \in Runs : \A b \in Batches :
            stored'[r][b] = IF r = job.run /\ b = job.batch THEN job.config ELSE stored[r][b]
      BY <2>1, <2>3
    <3>2. ASSUME NEW r \in Runs
          PROVE  Stored(r)' = IF r = job.run THEN Stored(r) \union {job.batch} ELSE Stored(r)
      BY <2>1, <3>1 DEF Stored
    <3> QED
      BY <2>1, <3>2
  <2>5. Contract!Store(job.run)
    BY <2>1, <2>2, <2>3, <2>4 DEF Contract!Store, Mine, Current
  <2> QED
    BY <2>1, <2>5 DEF Contract!Next
<1>5. ASSUME PublishRun, Going
      PROVE  Contract!Next
  <2>1. job.run \in Runs /\ Assembled /\ Mine
    BY <1>5 DEF PublishRun, Going, Mine, Assembled, JobTyped
  <2>2. Stored(job.run) = Batches
    BY <2>1 DEF Progress, WholeRun, Translated, Stored
  <2>3. versions[job.run] = <<>>
    BY <2>1 DEF Progress, Published, Mine, Current
  <2>4. Append(versions[job.run], 0) = <<0>>
    BY <2>3
  <2>5. Contract!Publish(job.run)
    BY <1>5, <2>1, <2>2, <2>3, <2>4, StoredKept
    DEF PublishRun, Mine, Current, Contract!Publish, Contract!Move
  <2> QED
    BY <2>1, <2>5 DEF Contract!Next
<1>6. ASSUME FailRun, Mine
      PROVE  Contract!Next
  <2>1. job.run \in Runs
    BY <1>6 DEF FailRun, JobTyped
  <2>2. Contract!Fail(job.run)
    BY <1>6, StoredKept DEF FailRun, Mine, Current, Contract!Fail, Contract!Move
  <2> QED
    BY <2>1, <2>2 DEF Contract!Next
<1>7. ASSUME FailRun, ~Mine
      PROVE  Idle
  BY <1>7, RowsIdle DEF FailRun, Mine
<1>8. CASE TakeRun \/ CheckBatch \/ AskProvider \/ ReceiveAnswer \/ RepairAlignment \/ ExitWorker
  BY <1>1, <1>8
  DEF TakeRun, CheckBatch, AskProvider, ReceiveAnswer, RepairAlignment, ExitWorker
<1>9. CASE (StoreBatch \/ PublishRun) /\ ~Going
  BY <1>1, <1>9 DEF StoreBatch, PublishRun, GiveUp
<1> QED
  BY <1>2, <1>3, <1>4, <1>5, <1>6, <1>7, <1>8, <1>9 DEF WorkerStep

LEMMA FaultRefines ==
  ASSUME Typed, BreakRun \/ LeaveQueue \/ Restart
  PROVE  Contract!Next \/ Idle
<1>1. CASE BreakRun \/ LeaveQueue
  BY <1>1, RowsIdle DEF BreakRun, LeaveQueue, rows
<1>2. CASE Restart
  <2>1. Contract!Interrupt
    BY <1>2, StoredKept
    DEF Restart, InterruptRuns, Active, ActiveStatuses, Contract!Interrupt, Contract!ActiveRun
  <2> QED
    BY <2>1 DEF Contract!Next
<1> QED
  BY <1>1, <1>2

LEMMA NextRefines == Typed /\ Progress /\ [Next]_vars => [Contract!Next]_(Contract!vars)
<1> SUFFICES ASSUME Typed, Progress, [Next]_vars PROVE Contract!Next \/ Idle
  BY DEF Idle
<1>1. CASE UNCHANGED vars
  BY <1>1, RowsIdle DEF vars, rows
<1> QED
  BY <1>1, RequestRefines, WorkerRefines, FaultRefines DEF Next

(* The protocol of queue, thread and attempts implements the contract: no  *)
(* late answer, old queue entry or exiting thread moves a run, stores a    *)
(* batch twice or publishes a result that is not whole.                    *)
THEOREM TranslationImplementsContract == Spec => ContractHolds
  BY ContractInit, NextRefines, ProgressHolds, PTL DEF Spec, ContractHolds, Contract!Spec

(***************************************************************************)
(* What the contract says of statuses and revisions holds of the protocol. *)
(***************************************************************************)
LEMMA ContractStepOneActive ==
  ASSUME Typed, OneActiveRun, [Contract!Next]_(Contract!vars)
  PROVE  OneActiveRun'
<1> USE DEF Typed, RowsTyped, OneActiveRun, Active, ActiveStatuses, Contract!Move
<1>1. ASSUME NEW r \in Runs, Contract!Create(r) \/ Contract!Resume(r)
      PROVE  OneActiveRun'
  <2>1. \A s \in Runs \ {r} : status'[s] = status[s]
    BY <1>1 DEF Contract!Create, Contract!Resume
  <2>2. \A s \in Runs : TaskOf[s] = TaskOf[r] => ~Active(s)
    BY <1>1 DEF Contract!Create, Contract!Resume, Contract!Free, Contract!ActiveRun
  <2> QED
    BY <2>1, <2>2
<1>2. ASSUME NEW r \in Runs,
             Contract!Cancel(r) \/ Contract!Start(r) \/ Contract!Publish(r) \/ Contract!Fail(r)
      PROVE  \A s \in Runs : Active(s)' => Active(s)
  BY <1>2 DEF Contract!Cancel, Contract!Start, Contract!Publish, Contract!Fail, Contract!ActiveRun
<1>3. ASSUME NEW r \in Runs, Contract!Store(r) \/ Contract!Edit(r)
      PROVE  \A s \in Runs : Active(s)' => Active(s)
  BY <1>3 DEF Contract!Store, Contract!Edit
<1>4. ASSUME Contract!Interrupt
      PROVE  \A s \in Runs : Active(s)' => Active(s)
  BY <1>4 DEF Contract!Interrupt, Contract!ActiveRun
<1>5. ASSUME NEW t \in Tasks, Contract!Delete(t)
      PROVE  \A s \in Runs : Active(s)' => Active(s)
  BY <1>5 DEF Contract!Delete
<1>6. CASE UNCHANGED Contract!vars
  BY <1>6 DEF Contract!vars
<1> QED
  BY <1>1, <1>2, <1>3, <1>4, <1>5, <1>6 DEF Contract!Next

(* Each task has at most one active run. *)
THEOREM OneActiveRunHolds == Spec => []OneActiveRun
<1>1. Init => OneActiveRun
  BY DEF Init, OneActiveRun, Active, ActiveStatuses
<1>2. Typed /\ Progress /\ OneActiveRun /\ [Next]_vars => OneActiveRun'
  BY NextRefines, ContractStepOneActive
<1> QED
  BY <1>1, <1>2, ProgressHolds, PTL DEF Spec

LEMMA ContractStepEdits ==
  ASSUME Typed, EditsSawLatest, [Contract!Next]_(Contract!vars)
  PROVE  EditsSawLatest'
<1> USE DEF Typed, RowsTyped, EditsSawLatest
<1>1. ASSUME NEW r \in Runs, Contract!Publish(r)
      PROVE  EditsSawLatest'
  BY <1>1 DEF Contract!Publish
<1>2. ASSUME NEW r \in Runs, Contract!Edit(r)
      PROVE  EditsSawLatest'
  <2>1. versions' = [versions EXCEPT ![r] = Append(@, Len(@))] /\ versions[r] \in Seq(Nat)
    BY <1>2 DEF Contract!Edit
  <2>2. \A i \in DOMAIN versions'[r] : versions'[r][i] = i - 1
    BY <2>1
  <2> QED
    BY <2>1, <2>2
<1>3. ASSUME NEW r \in Runs,
             \/ Contract!Create(r) \/ Contract!Resume(r) \/ Contract!Cancel(r)
             \/ Contract!Start(r) \/ Contract!Store(r) \/ Contract!Fail(r)
      PROVE  versions' = versions
  BY <1>3 DEF Contract!Create, Contract!Resume, Contract!Cancel, Contract!Start, Contract!Store,
              Contract!Fail
<1>4. CASE Contract!Interrupt
  BY <1>4 DEF Contract!Interrupt
<1>5. ASSUME NEW t \in Tasks, Contract!Delete(t)
      PROVE  EditsSawLatest'
  BY <1>5 DEF Contract!Delete
<1>6. CASE UNCHANGED Contract!vars
  BY <1>6 DEF Contract!vars
<1> QED
  BY <1>1, <1>2, <1>3, <1>4, <1>5, <1>6 DEF Contract!Next

(* Nobody overwrites a revision unseen. *)
THEOREM EditsSawLatestHolds == Spec => []EditsSawLatest
<1>1. Init => EditsSawLatest
  BY DEF Init, EditsSawLatest
<1>2. Typed /\ Progress /\ EditsSawLatest /\ [Next]_vars => EditsSawLatest'
  BY NextRefines, ContractStepEdits
<1> QED
  BY <1>1, <1>2, ProgressHolds, PTL DEF Spec

(***************************************************************************)
(* Who serves a run, and with which configuration, for any sets of tasks,  *)
(* runs and editors and any number of batches.                             *)
(*                                                                         *)
(* ActiveRunIsServed is not inductive: the worker might hold a running run *)
(* while its thread exits.  Served rules that out; it holds as long as the *)
(* commits of the worker's first and last section do not fail.             *)
(***************************************************************************)

HoldingPCs == {"check", "ask", "wait", "store", "repair", "publish", "fail"}

Serves(r, a) == job.run = r /\ job.attempt = a /\ job.pc \in HoldingPCs

Served ==
  \A r \in Runs :
    /\ status[r] = "queued" => Waits(r, attempt[r])
    /\ status[r] = "running" => Serves(r, attempt[r])

(* What changes neither calls, queue nor worker and activates no run.      *)
LEMMA RowsServed ==
  ASSUME Served, UNCHANGED <<calls, work, job>>,
         \A r \in Runs : status'[r] \in ActiveStatuses => status'[r] = status[r] /\ attempt'[r] = attempt[r]
  PROVE  Served'
  BY DEF Served, Serves, Waits, ActiveStatuses

(* A request that queues a run also enqueues it. *)
LEMMA QueuedServed ==
  ASSUME Typed, Served, NEW r \in Runs, NEW a \in Nat,
         status' = [status EXCEPT ![r] = "queued"],
         attempt' = [attempt EXCEPT ![r] = a],
         Call(r, a), UNCHANGED <<work, job>>
  PROVE  Served'
<1> USE DEF Typed, RowsTyped
<1>1. calls \subseteq calls' /\ [run |-> r, attempt |-> a, step |-> "put"] \in calls'
  BY DEF Call
<1>2. Waits(r, a)'
  BY <1>1 DEF Waits
<1>3. ASSUME NEW s \in Runs, NEW b \in Nat, Waits(s, b)
      PROVE  Waits(s, b)'
  BY <1>1, <1>3 DEF Waits
<1>4. ASSUME NEW s \in Runs \ {r}
      PROVE  status'[s] = status[s] /\ attempt'[s] = attempt[s] /\ attempt[s] \in Nat
  BY <1>4, TranslationBounds
<1> QED
  BY <1>2, <1>3, <1>4 DEF Served, Serves

LEMMA RequestServed ==
  ASSUME Typed, Served, Environment \/ Request
  PROVE  Served'
<1> USE DEF Typed, RowsTyped, thread, ActiveStatuses
<1>1. ASSUME NEW t \in Tasks, ReopenTask(t) \/ FinishTask(t)
      PROVE  Served'
  BY <1>1, RowsServed DEF ReopenTask, FinishTask
<1>2. ASSUME NEW t \in Tasks, DeleteTask(t)
      PROVE  Served'
  BY <1>2, RowsServed DEF DeleteTask
<1>3. ASSUME ConfigureProvider
      PROVE  Served'
  BY <1>3, RowsServed DEF ConfigureProvider
<1>4. ASSUME NEW r \in Runs, CreateRun(r)
      PROVE  Served'
  BY <1>4, QueuedServed DEF CreateRun
<1>5. ASSUME NEW r \in Runs, CancelRun(r)
      PROVE  Served'
  BY <1>5, RowsServed DEF CancelRun
<1>6. ASSUME NEW r \in Runs, RetryRun(r)
      PROVE  Served'
  <2>1. attempt[r] + 1 \in Nat
    BY TranslationBounds
  <2> QED
    BY <1>6, <2>1, QueuedServed DEF RetryRun
<1>7. ASSUME NEW e \in Editors, NEW r \in Runs, OpenEditor(e, r)
      PROVE  Served'
  BY <1>7, RowsServed DEF OpenEditor, rows
<1>8. ASSUME NEW e \in Editors, EditVersion(e)
      PROVE  Served'
  BY <1>8, RowsServed DEF EditVersion
<1> QED
  BY <1>1, <1>2, <1>3, <1>4, <1>5, <1>6, <1>7, <1>8 DEF Environment, Request

LEMMA EnqueueServed ==
  ASSUME Typed, Served, NEW c \in Calls, Enqueue(c)
  PROVE  Served'
<1> USE DEF Typed
<1>1. CASE PutRun(c)
  <2>1. work' = Append(work, <<c.run, c.attempt>>) /\ work \in Seq(Runs \X (1 .. MaxAttempts))
    BY <1>1 DEF PutRun, QueueTyped
  <2>2. Len(work) + 1 \in DOMAIN work' /\ work'[Len(work) + 1] = <<c.run, c.attempt>>
    BY <2>1
  <2>3. \A i \in DOMAIN work : i \in DOMAIN work' /\ work'[i] = work[i]
    BY <2>1
  <2>4. \A d \in calls : d # c => d \in calls'
    BY <1>1 DEF PutRun
  <2>5. \A r \in Runs : Waits(r, attempt[r]) => Waits(r, attempt[r])'
    BY <1>1, <2>2, <2>3, <2>4 DEF PutRun, rows, Waits
  <2> QED
    BY <1>1, <2>5 DEF PutRun, rows, Served, Serves
<1>2. CASE EnsureWorker(c)
  <2>1. \A d \in calls : d.step = "put" => d \in calls'
    BY <1>2 DEF EnsureWorker
  <2>2. \A r \in Runs : Waits(r, attempt[r]) => Waits(r, attempt[r])'
    BY <1>2, <2>1 DEF EnsureWorker, rows, Waits
  <2> QED
    BY <1>2, <2>2 DEF EnsureWorker, rows, Served, Serves
<1> QED
  BY <1>1, <1>2 DEF Enqueue

(***************************************************************************)
(* The worker.                                                             *)
(***************************************************************************)

(* A worker past "begin" moves on with the run it holds. *)
LEMMA HeldServed ==
  ASSUME Served, job.pc # "begin",
         UNCHANGED <<calls, work, status, attempt>>,
         \A r \in Runs : status[r] = "running" /\ Serves(r, attempt[r]) => Serves(r, attempt[r])'
  PROVE  Served'
  BY DEF Served, Waits

(* It lets go of a run that is not running any more.                       *)
LEMMA ReleasedServed ==
  ASSUME Served, job.pc # "begin", UNCHANGED <<calls, work, attempt>>,
         \A r \in Runs : r # job.run => status'[r] = status[r],
         \/ status'[job.run] \notin ActiveStatuses
         \/ ~Current(job.run, job.attempt) /\ status'[job.run] = status[job.run]
  PROVE  Served'
  BY DEF Served, Waits, Serves, Current, ActiveStatuses

LEMMA StepServes ==
  ASSUME Typed, Served, NEW pc \in HoldingPCs, Step(pc), job.pc # "begin",
         UNCHANGED <<calls, work, status, attempt>>
  PROVE  Served'
<1>1. job'.pc = pc /\ job'.run = job.run /\ job'.attempt = job.attempt
  BY DEF Typed, JobTyped, Jobs, Step
<1> QED
  BY <1>1, HeldServed DEF Serves

LEMMA GiveUpServes ==
  ASSUME Typed, Served, GiveUp, besideJob' = besideJob, job.pc # "begin"
  PROVE  Served'
<1>1. UNCHANGED <<calls, work, status, attempt>>
  BY DEF GiveUp, rows, besideJob
<1>2. CASE Current(job.run, job.attempt)
  BY <1>1, <1>2, StepServes DEF GiveUp, HoldingPCs
<1>3. CASE ~Current(job.run, job.attempt)
  BY <1>1, <1>3, ReleasedServed DEF GiveUp, rows
<1> QED
  BY <1>2, <1>3

LEMMA WorkerServed ==
  ASSUME Typed, Served, WorkerStep
  PROVE  Served'
<1> USE DEF Typed, besideJob
<1>1. ASSUME TakeRun
      PROVE  Served'
  <2>1. work \in Seq(Runs \X (1 .. MaxAttempts)) /\ work # <<>>
    BY <1>1 DEF TakeRun, QueueTyped
  <2>2. job'.pc = "begin" /\ job'.run = Head(work)[1] /\ job'.attempt = Head(work)[2]
    BY <1>1, NoJobTyped DEF TakeRun, Jobs
  <2>3. UNCHANGED <<calls, status, attempt>> /\ work' = Tail(work)
    BY <1>1 DEF TakeRun, rows
  <2>4. ASSUME NEW i \in DOMAIN work, i # 1
        PROVE  i - 1 \in DOMAIN work' /\ work'[i - 1] = work[i]
    BY <2>1, <2>3, <2>4
  <2>5. ASSUME NEW r \in Runs, Waits(r, attempt[r])
        PROVE  Waits(r, attempt[r])'
    <3>1. CASE \E c \in calls : c.run = r /\ c.attempt = attempt[r] /\ c.step = "put"
      BY <2>3, <3>1 DEF Waits
    <3>2. ASSUME NEW i \in DOMAIN work, work[i] = <<r, attempt[r]>>
          PROVE  Waits(r, attempt[r])'
      <4>1. CASE i = 1
        BY <2>1, <2>2, <2>3, <3>2, <4>1 DEF Waits
      <4>2. CASE i # 1
        BY <2>3, <2>4, <3>2, <4>2 DEF Waits
      <4> QED
        BY <4>1, <4>2
    <3>3. job.pc # "begin"
      BY <1>1 DEF TakeRun
    <3> QED
      BY <2>5, <3>1, <3>2, <3>3 DEF Waits
  <2>6. \A r \in Runs : status[r] # "running"
    BY <1>1 DEF TakeRun, Served, Serves, HoldingPCs
  <2> QED
    BY <2>3, <2>5, <2>6 DEF Served
<1>2. ASSUME BeginRun
      PROVE  Served'
  <2>1. \A r \in Runs : status[r] # "running"
    BY <1>2 DEF BeginRun, Served, Serves, HoldingPCs
  <2>2. ASSUME NEW r \in Runs, status[r] = "queued", ~(job.run = r /\ job.attempt = attempt[r])
        PROVE  Waits(r, attempt[r])'
    BY <1>2, <2>2 DEF BeginRun, Served, Waits
  <2>3. CASE IsQueued(job.run, job.attempt)
    <3>1. job'.pc \in HoldingPCs /\ job'.run = job.run /\ job'.attempt = job.attempt
      BY <1>2, <2>3 DEF BeginRun, Step, HoldingPCs, JobTyped, Jobs
    <3>2. job.run \in Runs /\ status' = [status EXCEPT ![job.run] = "running"] /\ attempt' = attempt
      BY <1>2, <2>3 DEF BeginRun, JobTyped
    <3> QED
      BY <2>1, <2>2, <2>3, <3>1, <3>2 DEF Served, Serves, IsQueued, RowsTyped
  <2>4. CASE ~IsQueued(job.run, job.attempt)
    BY <1>2, <2>1, <2>2, <2>4 DEF BeginRun, Served, IsQueued
  <2> QED
    BY <2>3, <2>4
<1>3. ASSUME CheckBatch
      PROVE  Served'
  <2>1. UNCHANGED <<calls, work, status, attempt>> /\ job.pc = "check"
    BY <1>3 DEF CheckBatch, rows
  <2>2. CASE GiveUp
    BY <1>3, <2>1, <2>2, GiveUpServes DEF CheckBatch
  <2>3. CASE Step("repair") \/ Step("fail")
    BY <2>1, <2>3, StepServes DEF HoldingPCs
  <2>4. CASE \/ job' = [job EXCEPT !.batch = @ + 1]
             \/ job' = [job EXCEPT !.pc = "ask", !.splits = MaxSplits]
    <3>1. job'.pc \in HoldingPCs /\ job'.run = job.run /\ job'.attempt = job.attempt
      BY <2>1, <2>4 DEF HoldingPCs, JobTyped, Jobs
    <3> QED
      BY <2>1, <3>1, HeldServed DEF Serves
  <2> QED
    BY <1>3, <2>2, <2>3, <2>4 DEF CheckBatch
<1>4. ASSUME AskProvider
      PROVE  Served'
  BY <1>4, GiveUpServes, StepServes DEF AskProvider, HoldingPCs, rows
<1>5. ASSUME ReceiveAnswer
      PROVE  Served'
  <2>1. UNCHANGED <<calls, work, status, attempt>> /\ job.pc = "wait"
    BY <1>5 DEF ReceiveAnswer, rows
  <2>2. CASE Step("store") \/ Step("publish") \/ Step("fail")
    BY <2>1, <2>2, StepServes DEF HoldingPCs
  <2>3. CASE job' = [job EXCEPT !.pc = "ask", !.splits = @ - 1]
    <3>1. job'.pc \in HoldingPCs /\ job'.run = job.run /\ job'.attempt = job.attempt
      BY <2>3 DEF HoldingPCs, JobTyped, Jobs
    <3> QED
      BY <2>1, <3>1, HeldServed DEF Serves
  <2> QED
    BY <1>5, <2>2, <2>3 DEF ReceiveAnswer
<1>6. ASSUME StoreBatch
      PROVE  Served'
  <2>1. CASE GiveUp
    BY <1>6, <2>1, GiveUpServes DEF StoreBatch
  <2>2. CASE /\ job' = [job EXCEPT !.pc = "check", !.batch = @ + 1]
             /\ UNCHANGED <<task, provider, status, attempt, config, versions>>
    <3>1. job'.pc \in HoldingPCs /\ job'.run = job.run /\ job'.attempt = job.attempt
      BY <2>2 DEF HoldingPCs, JobTyped, Jobs
    <3> QED
      BY <1>6, <2>2, <3>1, HeldServed DEF StoreBatch, Serves
  <2> QED
    BY <1>6, <2>1, <2>2 DEF StoreBatch
<1>7. ASSUME RepairAlignment
      PROVE  Served'
  <2>1. UNCHANGED <<calls, work, status, attempt>> /\ job.pc = "repair"
    BY <1>7 DEF RepairAlignment, rows
  <2>2. CASE Step("publish") \/ Step("fail")
    BY <2>1, <2>2, StepServes DEF HoldingPCs
  <2>3. CASE job' = [job EXCEPT !.pc = "ask", !.repairs = TRUE, !.splits = MaxSplits]
    <3>1. job'.pc \in HoldingPCs /\ job'.run = job.run /\ job'.attempt = job.attempt
      BY <2>3 DEF HoldingPCs, JobTyped, Jobs
    <3> QED
      BY <2>1, <3>1, HeldServed DEF Serves
  <2> QED
    BY <1>7, <2>2, <2>3 DEF RepairAlignment
<1>8. ASSUME PublishRun
      PROVE  Served'
  <2>1. CASE GiveUp
    BY <1>8, <2>1, GiveUpServes DEF PublishRun
  <2>2. CASE /\ status' = [status EXCEPT ![job.run] = "completed"]
             /\ UNCHANGED <<task, provider, attempt, config, stored>>
    <3>1. job.run \in Runs
      BY <1>8 DEF PublishRun, JobTyped
    <3>2. /\ status'[job.run] = "completed"
          /\ \A r \in Runs : r # job.run => status'[r] = status[r]
      BY <2>2, <3>1 DEF RowsTyped
    <3> QED
      <4>1. job.pc # "begin" /\ UNCHANGED <<calls, work, attempt>>
        BY <1>8, <2>2 DEF PublishRun
      <4>2. status'[job.run] \notin ActiveStatuses
        BY <3>2 DEF ActiveStatuses
      <4> QED
        BY <3>2, <4>1, <4>2, ReleasedServed
  <2> QED
    BY <1>8, <2>1, <2>2 DEF PublishRun
<1>9. ASSUME FailRun
      PROVE  Served'
  <2>1. job.run \in Runs
    BY <1>9 DEF FailRun, JobTyped
  <2>2. /\ \A r \in Runs : r # job.run => status'[r] = status[r]
        /\ \/ status'[job.run] = "failed"
           \/ ~Current(job.run, job.attempt) /\ status'[job.run] = status[job.run]
    BY <1>9, <2>1 DEF FailRun, RowsTyped
  <2> QED
    <3>1. job.pc # "begin" /\ UNCHANGED <<calls, work, attempt>>
      BY <1>9 DEF FailRun
    <3>2. "failed" \notin ActiveStatuses
      BY DEF ActiveStatuses
    <3> QED
      BY <2>2, <3>1, <3>2, ReleasedServed
<1>10. ASSUME ExitWorker
       PROVE  Served'
  BY <1>10, HeldServed DEF ExitWorker, rows, Serves, HoldingPCs
<1> QED
  BY <1>1, <1>2, <1>3, <1>4, <1>5, <1>6, <1>7, <1>8, <1>9, <1>10 DEF WorkerStep

LEMMA FaultServed ==
  ASSUME Typed, Served, ~DatabaseMayFail, BreakRun \/ LeaveQueue \/ Restart
  PROVE  Served'
<1> USE DEF Typed
<1>1. CASE BreakRun
  <2>1. job'.pc = "fail" /\ job'.run = job.run /\ job'.attempt = job.attempt
    BY <1>1 DEF BreakRun, AbortRun, LoseFailure, Step, JobTyped, Jobs
  <2> QED
    BY <1>1, <2>1, HeldServed DEF BreakRun, AbortRun, LoseFailure, rows, Serves, HoldingPCs
<1>2. CASE LeaveQueue
  BY <1>2, RowsServed DEF LeaveQueue, rows
<1>3. CASE Restart
  <2>1. \A r \in Runs : status'[r] \notin ActiveStatuses
    BY <1>3 DEF Restart, InterruptRuns, Active, ActiveStatuses
  <2> QED
    BY <2>1 DEF Served, ActiveStatuses
<1> QED
  BY <1>1, <1>2, <1>3

LEMMA ServedNext == Typed /\ Served /\ ~DatabaseMayFail /\ [Next]_vars => Served'
<1> SUFFICES ASSUME Typed, Served, ~DatabaseMayFail, [Next]_vars PROVE Served'
  OBVIOUS
<1>1. CASE UNCHANGED vars
  BY <1>1, RowsServed DEF vars, rows, thread
<1> QED
  BY <1>1, RequestServed, EnqueueServed, WorkerServed, FaultServed DEF Next

(* Unless the database fails the worker's first or last commit, an active  *)
(* run is always in somebody's hands at its present attempt.               *)
THEOREM ActiveRunIsServedHolds ==
  ASSUME ~DatabaseMayFail
  PROVE  Spec => []ActiveRunIsServed
<1>1. Init => Served
  BY DEF Init, Served
<1>2. Served => ActiveRunIsServed
  BY DEF Served, ActiveRunIsServed, Serves, HoldingPCs
<1> QED
  BY <1>1, <1>2, ServedNext, TypedHolds, PTL DEF Spec

(***************************************************************************)
(* The queue and its worker.                                               *)
(***************************************************************************)
LEMMA QueueHasWorkerNext == QueueHasWorker /\ Typed /\ [Next]_vars => QueueHasWorker'
<1> SUFFICES ASSUME QueueHasWorker, Typed, [Next]_vars PROVE QueueHasWorker'
  OBVIOUS
<1>1. ASSUME UNCHANGED <<work, alive, leavers>>, calls \subseteq calls'
      PROVE  QueueHasWorker'
  BY <1>1 DEF QueueHasWorker
<1>2. CASE Environment
  BY <1>1, <1>2 DEF Environment, ReopenTask, FinishTask, DeleteTask, ConfigureProvider, thread
<1>3. CASE Request
  BY <1>1, <1>3
  DEF Request, CreateRun, CancelRun, RetryRun, EditVersion, OpenEditor, Call, thread
<1>4. ASSUME NEW c \in Calls, PutRun(c)
      PROVE  QueueHasWorker'
  <2>1. [c EXCEPT !.step = "ensure"].step = "ensure"
    BY DEF Calls
  <2> QED
    BY <1>4, <2>1 DEF PutRun, QueueHasWorker
<1>5. ASSUME NEW c \in Calls, EnsureWorker(c)
      PROVE  QueueHasWorker'
  BY <1>5 DEF EnsureWorker, QueueHasWorker
<1>6. CASE TakeRun
  BY <1>6 DEF TakeRun, QueueHasWorker
<1>7. CASE \/ BeginRun \/ CheckBatch \/ AskProvider \/ ReceiveAnswer \/ StoreBatch
           \/ RepairAlignment \/ PublishRun \/ FailRun \/ BreakRun
  BY <1>1, <1>7
  DEF BeginRun, CheckBatch, AskProvider, ReceiveAnswer, StoreBatch, RepairAlignment, PublishRun,
      FailRun, BreakRun, besideJob
<1>8. CASE ExitWorker
  BY <1>8 DEF ExitWorker, QueueHasWorker, Typed, ExitsCounted
<1>9. CASE LeaveQueue
  BY <1>9 DEF LeaveQueue, QueueHasWorker
<1>10. CASE Restart
  BY <1>10 DEF Restart, QueueHasWorker
<1>11. CASE UNCHANGED vars
  BY <1>1, <1>11 DEF vars, thread
<1> QED
  BY <1>2, <1>3, <1>4, <1>5, <1>6, <1>7, <1>8, <1>9, <1>10, <1>11 DEF Next, Enqueue, WorkerStep

(* What is in the queue never waits for nobody, although threads exit.     *)
THEOREM QueueHasWorkerHolds == Spec => []QueueHasWorker
<1>1. Init => QueueHasWorker
  BY DEF Init, QueueHasWorker
<1> QED
  BY <1>1, QueueHasWorkerNext, TypedHolds, PTL DEF Spec

(***************************************************************************)
(* The configuration of a run is fixed when it is created and checked when *)
(* an attempt begins.                                                      *)
(***************************************************************************)
Translating == job.pc \notin {"idle", "begin", "fail", "exit"}

Origin ==
  /\ Translating => status[job.run] # "absent" /\ job.config = config[job.run]
  /\ \A r \in Runs : \A b \in Batches :
       stored[r][b] # NoConfig => status[r] # "absent" /\ stored[r][b] = config[r]

(* Requests never make a run absent, change the configuration of one that  *)
(* is not, or translate a batch.                                           *)
LEMMA RequestOrigin ==
  ASSUME Typed, Origin, Environment \/ Request \/ \E c \in Calls : Enqueue(c)
  PROVE  Origin'
<1> USE DEF Typed, RowsTyped
<1>1. ASSUME job' = job,
             \A r \in Runs : status[r] # "absent" => status'[r] # "absent" /\ config'[r] = config[r],
             \A r \in Runs : \A b \in Batches :
               stored'[r][b] # NoConfig => stored'[r][b] = stored[r][b]
      PROVE  Origin'
  <2>1. Translating => job.run \in Runs
    BY DEF Translating, JobTyped
  <2>2. Translating' = Translating
    BY <1>1 DEF Translating
  <2>3. Translating' => status'[job'.run] # "absent" /\ job'.config = config'[job'.run]
    BY <1>1, <2>1, <2>2 DEF Origin
  <2> QED
    BY <1>1, <2>3 DEF Origin
<1>2. ASSUME NEW t \in Tasks, ReopenTask(t) \/ FinishTask(t)
      PROVE  Origin'
  BY <1>1, <1>2 DEF ReopenTask, FinishTask, thread
<1>3. ASSUME NEW t \in Tasks, DeleteTask(t)
      PROVE  Origin'
  BY <1>1, <1>3 DEF DeleteTask, thread
<1>4. ASSUME ConfigureProvider
      PROVE  Origin'
  BY <1>1, <1>4 DEF ConfigureProvider, thread
<1>5. ASSUME NEW r \in Runs, CreateRun(r)
      PROVE  Origin'
  BY <1>1, <1>5 DEF CreateRun
<1>6. ASSUME NEW r \in Runs, CancelRun(r) \/ RetryRun(r)
      PROVE  Origin'
  BY <1>1, <1>6 DEF CancelRun, RetryRun, thread
<1>7. ASSUME NEW e \in Editors, EditVersion(e) \/ \E r \in Runs : OpenEditor(e, r)
      PROVE  Origin'
  BY <1>1, <1>7 DEF EditVersion, OpenEditor, thread, rows
<1>8. ASSUME NEW c \in Calls, Enqueue(c)
      PROVE  Origin'
  BY <1>1, <1>8 DEF Enqueue, PutRun, EnsureWorker, rows
<1> QED
  BY <1>2, <1>3, <1>4, <1>5, <1>6, <1>7, <1>8 DEF Environment, Request

(* The worker moves on, or it stops translating. *)
LEMMA MovedOrigin ==
  ASSUME Origin, UNCHANGED <<config, stored>>,
         \A r \in Runs : status[r] # "absent" => status'[r] # "absent",
         Translating' => /\ Translating /\ job.run \in Runs
                         /\ job'.run = job.run /\ job'.config = job.config
  PROVE  Origin'
<1>1. Translating' => status'[job'.run] # "absent" /\ job'.config = config'[job'.run]
  BY DEF Origin
<1> QED
  BY <1>1 DEF Origin

LEMMA WorkerOrigin ==
  ASSUME Typed, Origin, WorkerStep \/ BreakRun \/ LeaveQueue \/ Restart
  PROVE  Origin'
<1> USE DEF Typed, RowsTyped
<1>1. Translating => job.run \in Runs
  BY DEF Translating, JobTyped
<1>2. ASSUME NEW pc \in JobPCs, Step(pc)
      PROVE  job'.pc = pc /\ job'.run = job.run /\ job'.config = job.config
  BY <1>2 DEF Step, JobTyped, Jobs
<1>3. Step("fail") \/ Step("exit") \/ Return => ~Translating'
  BY <1>2, NoJobTyped DEF Translating, Return, JobPCs
<1>4. CASE BeginRun
  <2>1. \A r \in Runs : status[r] # "absent" => status'[r] # "absent"
    BY <1>4 DEF BeginRun
  <2>2. CASE Return \/ Step("fail")
    BY <1>3, <1>4, <2>1, <2>2, MovedOrigin DEF BeginRun
  <2>3. CASE /\ UsableProvider(job.run)
             /\ status' = [status EXCEPT ![job.run] = "running"]
             /\ job' = [job EXCEPT !.pc = "check", !.config = provider]
    <3>1. job'.config = config[job.run] /\ job'.run = job.run /\ job.run \in Runs
      BY <1>4, <2>3 DEF BeginRun, UsableProvider, JobTyped, Jobs
    <3>2. config' = config /\ stored' = stored
      BY <1>4 DEF BeginRun
    <3>3. status'[job'.run] # "absent" /\ job'.config = config'[job'.run]
      BY <2>3, <3>1, <3>2
    <3> QED
      BY <2>1, <3>2, <3>3 DEF Origin
  <2> QED
    BY <1>4, <2>2, <2>3 DEF BeginRun
<1>5. CASE StoreBatch
  <2>1. CASE GiveUp
    BY <1>3, <2>1, MovedOrigin DEF GiveUp, rows
  <2>2. CASE /\ stored' = [stored EXCEPT ![job.run][job.batch] = job.config]
             /\ job' = [job EXCEPT !.pc = "check", !.batch = @ + 1]
             /\ UNCHANGED <<task, provider, status, attempt, config, versions>>
    <3>1. /\ job.run \in Runs /\ status[job.run] # "absent" /\ job.config = config[job.run]
          /\ job'.run = job.run /\ job'.config = job.config
      BY <1>1, <1>5, <2>2 DEF StoreBatch, Translating, Origin, JobTyped, Jobs
    <3>2. \A r \in Runs : \A b \in Batches :
            stored'[r][b] = stored[r][b] \/ (r = job.run /\ stored'[r][b] = job.config)
      BY <2>2, <3>1
    <3>3. status'[job'.run] # "absent" /\ job'.config = config'[job'.run]
      BY <2>2, <3>1
    <3>4. \A r \in Runs : \A b \in Batches :
            stored'[r][b] # NoConfig => status'[r] # "absent" /\ stored'[r][b] = config'[r]
      BY <2>2, <3>1, <3>2 DEF Origin
    <3> QED
      BY <3>3, <3>4 DEF Origin
  <2> QED
    BY <1>5, <2>1, <2>2 DEF StoreBatch
<1>6. CASE CheckBatch \/ AskProvider \/ ReceiveAnswer \/ RepairAlignment
  <2>1. UNCHANGED rows /\ Translating
    BY <1>6 DEF CheckBatch, AskProvider, ReceiveAnswer, RepairAlignment, Translating
  <2>2. Translating' => job'.run = job.run /\ job'.config = job.config
    <3>1. CASE CheckBatch
      BY <1>2, <1>3, <3>1 DEF CheckBatch, GiveUp, JobPCs, JobTyped, Jobs
    <3>2. CASE AskProvider
      BY <1>2, <1>3, <3>2 DEF AskProvider, GiveUp, JobPCs
    <3>3. CASE ReceiveAnswer
      BY <1>2, <1>3, <3>3 DEF ReceiveAnswer, JobPCs, JobTyped, Jobs
    <3>4. CASE RepairAlignment
      BY <1>2, <1>3, <3>4 DEF RepairAlignment, JobPCs, JobTyped, Jobs
    <3> QED
      BY <1>6, <3>1, <3>2, <3>3, <3>4
  <2> QED
    BY <1>1, <2>1, <2>2, MovedOrigin DEF rows
<1>7. CASE PublishRun
  <2>1. ~Translating'
    BY <1>3, <1>7 DEF PublishRun, GiveUp
  <2>2. /\ UNCHANGED <<config, stored>>
        /\ \A r \in Runs : status[r] # "absent" => status'[r] # "absent"
    BY <1>7 DEF PublishRun, GiveUp, rows
  <2> QED
    BY <2>1, <2>2, MovedOrigin
<1>8. CASE FailRun
  <2>1. ~Translating'
    BY <1>3, <1>8 DEF FailRun
  <2>2. /\ UNCHANGED <<config, stored>>
        /\ \A r \in Runs : status[r] # "absent" => status'[r] # "absent"
    BY <1>8 DEF FailRun
  <2> QED
    BY <2>1, <2>2, MovedOrigin
<1>9. CASE TakeRun
  <2>1. ~Translating'
    BY <1>9, NoJobTyped DEF TakeRun, Translating, Jobs
  <2> QED
    BY <1>9, <2>1, MovedOrigin DEF TakeRun, rows
<1>10. CASE ExitWorker \/ BreakRun
  <2>1. ~Translating'
    BY <1>3, <1>10 DEF ExitWorker, BreakRun, AbortRun, LoseFailure, Translating, Step, JobTyped,
       Jobs
  <2> QED
    BY <1>10, <2>1, MovedOrigin DEF ExitWorker, BreakRun, rows
<1>11. CASE LeaveQueue
  <2>1. UNCHANGED <<rows, job>>
    BY <1>11 DEF LeaveQueue
  <2>2. Translating' = Translating
    BY <2>1 DEF Translating
  <2> QED
    BY <1>1, <2>1, <2>2, MovedOrigin DEF rows
<1>12. CASE Restart
  <2>1. ~Translating'
    BY <1>12, NoJobTyped DEF Restart, Translating
  <2>2. \A r \in Runs : status[r] # "absent" => status'[r] # "absent"
    BY <1>12 DEF Restart, InterruptRuns
  <2> QED
    BY <1>12, <2>1, <2>2, MovedOrigin DEF Restart
<1> QED
  BY <1>4, <1>5, <1>6, <1>7, <1>8, <1>9, <1>10, <1>11, <1>12 DEF WorkerStep

LEMMA OriginNext == Typed /\ Origin /\ [Next]_vars => Origin'
<1> SUFFICES ASSUME Typed, Origin, [Next]_vars PROVE Origin'
  OBVIOUS
<1>1. CASE UNCHANGED vars
  BY <1>1 DEF vars, rows, thread, Origin, Translating
<1> QED
  BY <1>1, RequestOrigin, WorkerOrigin DEF Next

(* A run is never stitched together from different endpoints or models.    *)
THEOREM OneConfigurationHolds == Spec => []OneConfiguration
<1>1. Init => Origin
  BY NoJobTyped DEF Init, Origin, Translating
<1>2. Origin => OneConfiguration
  BY DEF Origin, OneConfiguration, Stored
<1> QED
  BY <1>1, <1>2, OriginNext, TypedHolds, PTL DEF Spec
====
