---------------------------- MODULE Proofreading ----------------------------
(* Proofreading of one task by a language model: the service with its queue   *)
(* and worker (proofreading.py), the other writers of the transcript, and the *)
(* panel that shows the runs, collects the chosen suggestions and asks for    *)
(* them to be applied (ProofreadingPanel.tsx).                                *)
EXTENDS Naturals, Sequences

CONSTANTS Segments,      \* number of segments; each is a batch of its own
          MaxRuns,       \* bound: runs started
          MaxMishaps     \* bound: transcript changes by others, and restarts

ASSUME ProofreadingAssumption ==
  Segments \in Nat /\ MaxRuns \in Nat /\ MaxMishaps \in Nat

VARIABLES words,         \* current text of every segment
          version,       \* latest transcript version
          edits,         \* versions made by others so far
          settled,       \* the task is completed
          runs,          \* the rows of proofreading runs, oldest first
          entering,      \* the run whose row is committed and not yet queued, or 0
          pending,       \* the in-memory queue of run ids
          job,           \* what the worker thread executes
          unserved,      \* active runs that were lost on the way
          deaths,        \* restarts so far
          shownRuns,     \* the rows the panel was given last
          chosenRun,     \* selectedRunId, 0 for none
          checked,       \* selectedSuggestionIds: segments of the shown run
          confirming,    \* the confirmation is open
          applying       \* the apply call under way

queueVars == <<entering, pending, job, unserved>>
serviceVars == <<words, version, edits, settled, runs, queueVars, deaths>>
panelVars == <<shownRuns, chosenRun, checked, confirming, applying>>
proofVars == <<serviceVars, panelVars>>

Active == {"queued", "running"}
Ended == {"completed", "failed", "interrupted", "applied"}
Resolutions == {"none", "pending", "applied", "skipped"}
NoAdvice == [s \in 1..Segments |-> "none"]
NoJob == [run |-> 0, next |-> 0, collected |-> {}]
NoApply == [run |-> 0, ids |-> {}]
Suggested(r) == <<"suggested", r>>

ProofInit ==
  /\ words = [s \in 1..Segments |-> <<"typed", 0>>]
  /\ version = 1 /\ edits = 0 /\ settled = TRUE
  /\ runs = <<>> /\ entering = 0 /\ pending = <<>> /\ job = NoJob /\ unserved = {}
  /\ deaths = 0
  /\ shownRuns = <<>>
  /\ chosenRun = 0 /\ checked = {} /\ confirming = FALSE /\ applying = NoApply

(* Edits and restores make a version of the transcript; a retranscription     *)
(* takes the task from completed to active and makes one when it ends.        *)
OthersEdit ==
  /\ settled /\ edits + deaths < MaxMishaps
  /\ version' = version + 1 /\ edits' = edits + 1
  /\ \E s \in 1..Segments : words' = [words EXCEPT ![s] = <<"typed", edits'>>]
  /\ UNCHANGED <<settled, runs, queueVars, deaths>> /\ UNCHANGED panelVars

RetranscriptionStarts ==
  /\ settled /\ edits + deaths < MaxMishaps
  /\ settled' = FALSE /\ edits' = edits + 1
  /\ UNCHANGED <<words, version, runs, queueVars, deaths>> /\ UNCHANGED panelVars

RetranscriptionEnds ==
  /\ ~settled /\ settled' = TRUE
  /\ version' = version + 1
  /\ words' = [s \in 1..Segments |-> <<"typed", edits>>]
  /\ UNCHANGED <<edits, runs, queueVars, deaths>> /\ UNCHANGED panelVars

(* create_run: a completed task without an active run; the row remembers the  *)
(* latest version, here with its texts, and the id is queued.                 *)
NewRun == [status |-> "queued", source |-> version, base |-> words,
           advice |-> NoAdvice]
MayCreate == settled /\ \A r \in 1..Len(runs) : runs[r].status \notin Active

(* execute_run: a queued id whose row is not active any more is dropped.      *)
TakeRun ==
  /\ job = NoJob /\ pending # <<>>
  /\ pending' = Tail(pending)
  /\ job' = IF runs[Head(pending)].status \in Active
            THEN [NoJob EXCEPT !.run = Head(pending)] ELSE NoJob
  /\ UNCHANGED <<words, version, edits, settled, runs, entering, unserved, deaths>>
  /\ UNCHANGED panelVars

BeginRun ==
  /\ job.run # 0 /\ job.next = 0 /\ job' = [job EXCEPT !.next = 1]
  /\ runs' = [runs EXCEPT ![job.run].status = "running"]
  /\ UNCHANGED <<words, version, edits, settled, entering, pending, unserved, deaths>>
  /\ UNCHANGED panelVars

(* A batch is answered; suggestions stay with the thread until all are there. *)
AnswerBatch ==
  /\ job.run # 0 /\ job.next \in 1..Segments
  /\ \E some \in {{}, {job.next}} :
       job' = [job EXCEPT !.next = @ + 1, !.collected = @ \cup some]
  /\ UNCHANGED <<words, version, edits, settled, runs, entering, pending, unserved, deaths>>
  /\ UNCHANGED panelVars

FinishRun ==
  /\ job.run # 0 /\ job.next > Segments
  /\ runs' = [runs EXCEPT ![job.run] = [@ EXCEPT !.status = "completed", !.advice =
                [s \in 1..Segments |-> IF s \in job.collected THEN "pending" ELSE "none"]]]
  /\ job' = NoJob
  /\ UNCHANGED <<words, version, edits, settled, entering, pending, unserved, deaths>>
  /\ UNCHANGED panelVars

(* A batch, the provider or the database fails, or the thread itself dies and *)
(* is replaced.  The row is failed by execute_run or behind it, unless the    *)
(* database refuses both (_fail_run_after_escape): then it stays active.      *)
FailRun ==
  /\ job.run # 0 /\ job' = NoJob
  /\ \/ runs' = [runs EXCEPT ![job.run].status = "failed"] /\ UNCHANGED unserved
     \/ unserved' = unserved \cup {job.run} /\ UNCHANGED runs
  /\ UNCHANGED <<words, version, edits, settled, entering, pending, deaths>>
  /\ UNCHANGED panelVars

(* Variant: the start does not mark what the last process left active.        *)
RestartUnmarked ==
  /\ edits + deaths < MaxMishaps /\ deaths' = deaths + 1
  /\ entering' = 0 /\ pending' = <<>> /\ job' = NoJob /\ unserved' = {}
  /\ UNCHANGED <<words, version, edits, settled, runs>> /\ UNCHANGED panelVars

(* The process ends and starts: queue and thread are gone, active rows are    *)
(* marked as interrupted.                                                     *)
Restart ==
  /\ edits + deaths < MaxMishaps /\ deaths' = deaths + 1
  /\ entering' = 0 /\ pending' = <<>> /\ job' = NoJob /\ unserved' = {}
  /\ runs' = [r \in 1..Len(runs) |->
                IF runs[r].status \in Active THEN [runs[r] EXCEPT !.status = "interrupted"]
                                             ELSE runs[r]]
  /\ UNCHANGED <<words, version, edits, settled>> /\ UNCHANGED panelVars

(* Variant: the version is not compared.                                      *)
IsUnsettled(r) == r \in DOMAIN runs /\ ~settled

IsStale(r) == ~settled \/ version # runs[r].source

(* _apply_suggestions_unlocked, under the transition lock in one transaction. *)
Applicable(r, ids) ==
  /\ r \in 1..Len(runs) /\ runs[r].status = "completed"
  /\ ids # {} /\ ~IsStale(r)
  /\ ids \subseteq {s \in 1..Segments : runs[r].advice[s] # "none"}
  /\ \A s \in 1..Segments : runs[r].advice[s] \in {"none", "pending"}
  /\ \A s \in ids : words[s] = runs[r].base[s]

Resolved(r, ids) ==
  [s \in 1..Segments |-> IF s \in ids THEN "applied"
                         ELSE IF runs[r].advice[s] = "none" THEN "none" ELSE "skipped"]

Apply(r, ids) ==
  /\ words' = [s \in 1..Segments |-> IF s \in ids THEN Suggested(r) ELSE words[s]]
  /\ version' = version + 1
  /\ runs' = [runs EXCEPT ![r] = [@ EXCEPT !.status = "applied", !.advice = Resolved(r, ids)]]

(* The panel: the run shown is the one chosen, else the newest; its stale     *)
(* mark is the one of the answer.                                             *)
ShownRun == IF chosenRun \in 1..Len(shownRuns) THEN chosenRun ELSE Len(shownRuns)
Offered(s) == s \in 1..Segments /\ ShownRun # 0 /\ shownRuns[ShownRun].row.advice[s] = "pending"
Selectable == ShownRun # 0 /\ shownRuns[ShownRun].row.status = "completed"
              /\ ~shownRuns[ShownRun].stale
SomeActive == \E r \in 1..Len(shownRuns) : shownRuns[r].row.status \in Active
Rows == [r \in 1..Len(runs) |-> [row |-> runs[r], stale |-> IsStale(r)]]

(* Another run on the screen: the effect drops what was checked, and the      *)
(* confirmation belongs to the run that is gone.                              *)
Show(list, choice) ==
  LET run(l, c) == IF c \in 1..Len(l) THEN c ELSE Len(l)
      open == run(list, choice) # 0 /\ list[run(list, choice)].row.status = "completed"
              /\ ~list[run(list, choice)].stale
  IN /\ shownRuns' = list /\ chosenRun' = choice
     /\ checked' = IF run(list, choice) # ShownRun THEN {} ELSE checked
     /\ confirming' = (confirming /\ open)

(* Asked for every 1.2 s while a run is active, whenever the window is        *)
(* visited and behind every call; the answer is taken to be read when it      *)
(* arrives: one that was read before is one the panel shows for longer.       *)
RunsArrive ==
  /\ shownRuns # Rows /\ Show(Rows, chosenRun)
  /\ UNCHANGED serviceVars /\ UNCHANGED applying

(* The start button is disabled while a run is shown active; the retry and    *)
(* rerun buttons of a run that failed, advised nothing or was applied are not.*)
StartOffered ==
  /\ ~confirming
  /\ \/ ~SomeActive
     \/ /\ ShownRun # 0
        /\ LET row == shownRuns[ShownRun].row
           IN row.status \in Ended /\ (row.status = "completed" => row.advice = NoAdvice)

(* A refused start changes nothing.  The row is committed first, then the run *)
(* is queued; where that fails, nothing takes the row back.                   *)
StartRun ==
  /\ Len(runs) < MaxRuns /\ StartOffered /\ entering = 0
  /\ MayCreate
  /\ runs' = Append(runs, NewRun) /\ entering' = Len(runs) + 1
  /\ UNCHANGED <<words, version, edits, settled, pending, job, unserved, deaths>>
  /\ UNCHANGED panelVars

EnqueueRun ==
  /\ entering # 0 /\ entering' = 0 /\ pending' = Append(pending, entering)
  /\ Show(shownRuns, entering)
  /\ UNCHANGED <<words, version, edits, settled, runs, job, unserved, deaths, applying>>

EnqueueFails ==
  /\ entering # 0 /\ entering' = 0 /\ unserved' = unserved \cup {entering}
  /\ UNCHANGED <<words, version, edits, settled, runs, pending, job, deaths>>
  /\ UNCHANGED panelVars

ChooseRun(r) ==
  /\ ~confirming /\ r \in 1..Len(shownRuns) /\ r # chosenRun
  /\ Show(shownRuns, r)
  /\ UNCHANGED serviceVars /\ UNCHANGED applying

ToggleSuggestion(s) ==
  /\ Selectable /\ ~confirming /\ Offered(s)
  /\ checked' = IF s \in checked THEN checked \ {s} ELSE checked \cup {s}
  /\ UNCHANGED serviceVars /\ UNCHANGED <<shownRuns, chosenRun, confirming, applying>>

ToggleAll ==
  /\ Selectable /\ ~confirming
  /\ LET offered == {s \in 1..Segments : Offered(s)} IN
     /\ offered # {}
     /\ checked' = IF offered \subseteq checked THEN {} ELSE offered
  /\ UNCHANGED serviceVars /\ UNCHANGED <<shownRuns, chosenRun, confirming, applying>>

OpenConfirm ==
  /\ Selectable /\ ~confirming /\ checked # {} /\ applying = NoApply
  /\ confirming' = TRUE
  /\ UNCHANGED serviceVars /\ UNCHANGED <<shownRuns, chosenRun, checked, applying>>

CloseConfirm ==
  /\ confirming /\ confirming' = FALSE
  /\ UNCHANGED serviceVars /\ UNCHANGED <<shownRuns, chosenRun, checked, applying>>

SendApply ==
  /\ confirming /\ confirming' = FALSE
  /\ applying' = [run |-> ShownRun, ids |-> checked]
  /\ UNCHANGED serviceVars /\ UNCHANGED <<shownRuns, chosenRun, checked>>

ApplySucceeds ==
  /\ Applicable(applying.run, applying.ids)
  /\ Apply(applying.run, applying.ids)
  /\ applying' = NoApply
  /\ checked' = {}
  /\ UNCHANGED <<edits, settled, queueVars, deaths, shownRuns, chosenRun, confirming>>

(* Stale, already applied, or not delivered.                                  *)
ApplyFails ==
  /\ applying.run # 0
  /\ applying' = NoApply
  /\ UNCHANGED serviceVars /\ UNCHANGED <<shownRuns, chosenRun, checked, confirming>>

(* Another window applies a run it shows. *)
OthersApply ==
  /\ edits + deaths < MaxMishaps /\ edits' = edits + 1
  /\ \E r \in 1..Len(runs), ids \in SUBSET (1..Segments) : Applicable(r, ids) /\ Apply(r, ids)
  /\ UNCHANGED <<settled, queueVars, deaths>> /\ UNCHANGED panelVars

ProofNext ==
  \/ OthersEdit
  \/ RetranscriptionStarts
  \/ RetranscriptionEnds
  \/ TakeRun
  \/ BeginRun
  \/ AnswerBatch
  \/ FinishRun
  \/ FailRun
  \/ Restart
  \/ RunsArrive
  \/ StartRun
  \/ EnqueueRun
  \/ EnqueueFails
  \/ \E r \in 1..MaxRuns : ChooseRun(r)
  \/ \E s \in 1..Segments : ToggleSuggestion(s)
  \/ ToggleAll
  \/ OpenConfirm
  \/ CloseConfirm
  \/ SendApply
  \/ ApplySucceeds
  \/ ApplyFails
  \/ OthersApply

ProofSpec == ProofInit /\ [][ProofNext]_proofVars

ProofTypeOK ==
  /\ version \in 1..(MaxMishaps + MaxRuns + 1) /\ edits \in 0..MaxMishaps /\ settled \in BOOLEAN
  /\ DOMAIN words = 1..Segments /\ Len(runs) <= MaxRuns
  /\ \A r \in 1..Len(runs) : /\ runs[r].status \in Active \cup Ended
                             /\ runs[r].source \in 1..version
                             /\ runs[r].advice \in [1..Segments -> Resolutions]
  /\ {entering, job.run} \subseteq 0..Len(runs) /\ unserved \subseteq 1..Len(runs)
  /\ job.next \in 0..(Segments + 1) /\ deaths \in 0..MaxMishaps
  /\ chosenRun \in 0..MaxRuns
  /\ checked \subseteq 1..Segments /\ confirming \in BOOLEAN
  /\ applying.run \in 0..Len(runs) /\ applying.ids \subseteq 1..Segments

(* Applying a run gives the transcript the run read with the chosen           *)
(* suggestions put in, and nothing else: no edit made meanwhile is carried    *)
(* along or lost, whoever wrote and whichever rows the panel still shows.     *)
AppliedIsReviewed ==
  [][\A r \in 1..Len(runs) : runs[r].status # "applied" /\ runs'[r].status = "applied" =>
       words' = [s \in 1..Segments |-> IF runs'[r].advice[s] = "applied" THEN Suggested(r)
                                       ELSE runs[r].base[s]]]_proofVars

(* An active run is about to be queued, queued once or executed, or one of    *)
(* those that a failing call lost (create_run behind its commit, and          *)
(* _fail_run_after_escape): no other waits for nobody, and none is executed   *)
(* twice, across failures, dying threads and restarts.                        *)
InQueue(r) == \E k \in 1..Len(pending) : pending[k] = r
ActiveRunHasWorker ==
  /\ \A r \in 1..Len(runs) : runs[r].status \in Active =>
       InQueue(r) # (r \in {entering, job.run} \cup unserved)
  /\ entering # 0 => entering \notin {job.run} \cup unserved
  /\ job.run \notin unserved
  /\ \A j, k \in 1..Len(pending) : pending[j] = pending[k] => j = k
=============================================================================
