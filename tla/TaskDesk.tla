------------------------------ MODULE TaskDesk ------------------------------
(* The tasks page of the desktop application (TasksPage.tsx) beside a server  *)
(* whose tasks other clients and workers change as well.  The list is a       *)
(* cached answer: it is fetched again by a timer, by an event of the server   *)
(* and after every call of the page, and the effects of the page (which task  *)
(* is selected, whether its inspector is there) run whenever it changes.      *)
EXTENDS Naturals

CONSTANTS Tasks,         \* ids of the tasks of the server
          NoTask,        \* no task
          Links,         \* ids a link may open the page with (?task=), or NoTask
          Guarded,       \* calls behind a ConfirmAction: cancel, cleanup, delete
          Direct,        \* calls a button sends: retry, retranscribe, ...
          BatchOps,      \* calls for all marked tasks: cancel, retry, delete
          MaxChanges,    \* bound: changes of the server the page does not ask for
          MaxCalls       \* bound: calls and batches the user starts

ASSUME DeskAssumption ==
  /\ NoTask \notin Tasks /\ Links \subseteq Tasks \cup {NoTask}
  /\ Guarded \subseteq {"cancel", "cleanup", "delete"}
  /\ Direct \subseteq {"retry", "retranscribe", "postprocess", "retryChunks"}
  /\ BatchOps \subseteq {"cancel", "retry", "delete"}
  /\ MaxChanges \in Nat /\ MaxCalls \in Nat

VARIABLES stored,        \* status of every task on the server, or "gone"
          changes,       \* changes made there by others so far
          started,       \* calls and batches started so far
          listed,        \* the list the page shows: the cached answer
          asking,        \* the request for the list under way, with its answer
          route,         \* ?task= of the address
          selected,      \* selectedTaskId: the task of viewer and inspector
          selecting,     \* selectionMode
          marked,        \* selectedTaskIds: what a batch acts on
          dialog,        \* the confirmation open, and the task it was opened on
          calls,         \* single calls under way
          batch          \* the batch that keeps the page busy: what is not answered

deskVars == <<stored, changes, started, listed, asking, route, selected, selecting,
              marked, dialog, calls, batch>>

Statuses == {"running", "done"}
Lists == [Tasks -> Statuses \cup {"gone"}]

Present(list) == {t \in Tasks : list[t] # "gone"}
Idle == [step |-> "none", answer |-> [t \in Tasks |-> "gone"]]
Asked == [Idle EXCEPT !.step = "asked"]
Closed == [of |-> "none", on |-> NoTask]
NoBatch == [op |-> "none", left |-> {}]
Call(op, t, quiet) == [op |-> op, on |-> t, quiet |-> quiet]

(* What the three selection effects leave selected once list, address and     *)
(* selection have settled; the effect on the address runs only when the       *)
(* address or the list changed.                                               *)
Settled(list, sel, mode, link, moved) ==
  LET kept == IF sel \in Present(list) THEN sel ELSE NoTask
      linked == IF moved /\ link \in Present(list) THEN link ELSE kept
  IN IF linked = NoTask /\ ~mode /\ Present(list) # {}
     THEN CHOOSE t \in Present(list) : TRUE
     ELSE linked

(* Variant: the confirmation outlives the inspector it was opened in.         *)
DialogKept(list, sel) == dialog

(* Inspector and viewer are unmounted, and with them an open confirmation,    *)
(* while the selected task is not in the list.                                *)
DialogAfter(list, sel) ==
  IF dialog.of \in Guarded /\ sel \notin Present(list) THEN Closed ELSE dialog

ShowTask(list, sel, mode, link, moved) ==
  /\ selected' = Settled(list, sel, mode, link, moved)
  /\ dialog' = DialogAfter(list, selected)

DeskInit ==
  /\ stored \in Lists
  /\ changes = 0 /\ started = 0
  /\ listed = Idle.answer
  /\ asking = Asked
  /\ route \in Links
  /\ selected = NoTask
  /\ selecting = FALSE
  /\ marked = {}
  /\ dialog = Closed
  /\ calls = {}
  /\ batch = NoBatch

pageVars == <<route, selected, selecting, marked, dialog, calls, batch>>

(* Another client, or a worker, changes a task. *)
OthersChange(t) ==
  /\ changes < MaxChanges
  /\ stored[t] # "gone"
  /\ changes' = changes + 1
  /\ \E s \in (Statuses \cup {"gone"}) \ {stored[t]} : stored' = [stored EXCEPT ![t] = s]
  /\ UNCHANGED <<started, listed, asking>> /\ UNCHANGED pageVars

(* Variant: it stops while no task of the list runs.                          *)
PollWhileRunning ==
  /\ asking.step = "none" /\ \E t \in Tasks : listed[t] = "running"
  /\ asking' = Asked
  /\ UNCHANGED <<stored, changes, started, listed>> /\ UNCHANGED pageVars

(* The timer of useTasksQuery: it joins a request that is under way. *)
PollList ==
  /\ asking.step = "none"
  /\ asking' = Asked
  /\ UNCHANGED <<stored, changes, started, listed>> /\ UNCHANGED pageVars

(* invalidateQueries(tasks): a request under way is dropped and asked again.  *)
RefreshList == asking' = Asked

AnswerList ==
  /\ asking.step = "asked"
  /\ asking' = [step |-> "answered", answer |-> stored]
  /\ UNCHANGED <<stored, changes, started, listed>> /\ UNCHANGED pageVars

(* The answer is cached; effects depend on the list only when it differs. *)
ListArrives ==
  /\ asking.step = "answered"
  /\ asking' = Idle
  /\ listed' = asking.answer
  /\ LET fresh == asking.answer IN
     IF fresh = listed THEN UNCHANGED <<selected, dialog>>
     ELSE /\ selected' = Settled(fresh, selected, selecting, route, TRUE)
          /\ dialog' = IF dialog.of = "batch" /\ Present(fresh) = {}
                       THEN Closed ELSE DialogAfter(fresh, selected)
  /\ UNCHANGED <<stored, changes, started, route, selecting, marked, calls, batch>>

ToggleMark(t) == IF t \in marked THEN marked \ {t} ELSE marked \cup {t}

(* A click on a row: select the task or, in selection mode, mark it. *)
ClickRow(t) ==
  /\ dialog = Closed /\ t \in Present(listed)
  /\ IF selecting
     THEN /\ marked' = ToggleMark(t)
          /\ UNCHANGED <<selected, dialog>>
     ELSE /\ ShowTask(listed, t, selecting, route, FALSE)
          /\ UNCHANGED marked
  /\ UNCHANGED <<stored, changes, started, listed, asking, route, selecting, calls, batch>>

(* The overlay of narrow windows clears the selection; the effect picks one.  *)
CloseDetail ==
  /\ dialog = Closed /\ selected # NoTask
  /\ selected' = Settled(listed, NoTask, selecting, route, FALSE)
  /\ UNCHANGED <<stored, changes, started, listed, asking, route, selecting, marked,
                 dialog, calls, batch>>

(* A link of the search or of a notice puts another task in the address. *)
FollowLink(t) ==
  /\ dialog = Closed /\ t \in Links \ {route}
  /\ route' = t
  /\ ShowTask(listed, selected, selecting, t, TRUE)
  /\ UNCHANGED <<stored, changes, started, listed, asking, selecting, marked, calls, batch>>

ToggleSelectionMode ==
  /\ dialog = Closed
  /\ selecting' = ~selecting
  /\ marked' = IF selecting THEN {} ELSE marked
  /\ ShowTask(listed, selected, ~selecting, route, FALSE)
  /\ UNCHANGED <<stored, changes, started, listed, asking, route, calls, batch>>

(* What the filters, the search, tags and collections may let through: any    *)
(* part of the list; the bar above the list is there unless that is nothing.  *)
Filterable(F) == F \subseteq Present(listed) /\ F # {}

(* All that is let through is marked or unmarked; a marked task that is       *)
(* filtered out stays marked.                                                 *)
ToggleFilteredSelection(F) ==
  /\ dialog = Closed /\ selecting /\ Filterable(F)
  /\ marked' = IF F \subseteq marked THEN marked \ F ELSE marked \cup F
  /\ UNCHANGED <<stored, changes, started, listed, asking, route, selected, selecting,
                 dialog, calls, batch>>

(* A guarded button opens its confirmation. *)
OpenDialog(op) ==
  /\ dialog = Closed /\ selected # NoTask
  /\ dialog' = [of |-> op, on |-> selected]
  /\ UNCHANGED <<stored, changes, started, listed, asking, route, selected, selecting,
                 marked, calls, batch>>

OpenBatchDialog ==
  /\ dialog = Closed /\ selecting /\ Present(listed) # {}
  /\ marked # {} /\ batch = NoBatch
  /\ dialog' = [of |-> "batch", on |-> NoTask]
  /\ UNCHANGED <<stored, changes, started, listed, asking, route, selected, selecting,
                 marked, calls, batch>>

Dismiss ==
  /\ dialog # Closed
  /\ dialog' = Closed
  /\ UNCHANGED <<stored, changes, started, listed, asking, route, selected, selecting,
                 marked, calls, batch>>

(* onConfirm of the render on the screen: the task selected now. *)
Confirm ==
  /\ dialog.of \in Guarded /\ started < MaxCalls
  /\ dialog' = Closed
  /\ calls' = calls \cup {Call(dialog.of, selected, FALSE)}
  /\ started' = started + 1
  /\ UNCHANGED <<stored, changes, listed, asking, route, selected, selecting,
                 marked, batch>>

(* The other buttons act at once, and none is disabled while a call is sent.  *)
PressDirect(op) ==
  /\ dialog = Closed /\ selected # NoTask /\ started < MaxCalls
  /\ calls' = calls \cup {Call(op, selected, FALSE)}
  /\ started' = started + 1
  /\ UNCHANGED <<stored, changes, listed, asking, route, selected, selecting,
                 marked, dialog, batch>>

(* The server carries a call out or refuses it (TaskLifecycle says when); a   *)
(* task that is gone, and all but a cancellation of a running one, are        *)
(* refused.                                                                   *)
MayServe(op, t) == stored[t] # "gone" /\ (stored[t] = "running" => op = "cancel")
Served(op, t) ==
  CASE op = "delete" -> [stored EXCEPT ![t] = "gone"]
    [] op = "cancel" /\ stored[t] = "running" -> [stored EXCEPT ![t] = "done"]
    [] op \in {"retry", "retranscribe", "retryChunks"} -> [stored EXCEPT ![t] = "running"]
    [] OTHER -> stored

(* useTaskMutation: the list is fetched again after a success only. *)
CallEnds(c) ==
  /\ c \in calls
  /\ calls' = calls \ {c}
  /\ \/ /\ MayServe(c.op, c.on)
        /\ stored' = Served(c.op, c.on)
        /\ IF c.quiet THEN UNCHANGED asking ELSE RefreshList
     \/ UNCHANGED <<stored, asking>>
  /\ UNCHANGED <<changes, started, listed, route, selected, selecting, marked,
                 dialog, batch>>

(* runBatchTaskAction: one call for every marked id; cancel and delete are    *)
(* confirmed first.                                                           *)
StartBatch(op) ==
  /\ batch = NoBatch /\ marked # {} /\ started < MaxCalls
  /\ IF op = "retry" THEN dialog = Closed /\ selecting /\ Present(listed) # {}
                     ELSE dialog.of = "batch"
  /\ dialog' = Closed
  /\ batch' = [op |-> op, left |-> marked]
  /\ started' = started + 1
  /\ UNCHANGED <<stored, changes, listed, asking, route, selected, selecting,
                 marked, calls>>

(* Promise.all: with the last success the page unmarks all and refreshes.     *)
BatchServed(t) ==
  /\ t \in batch.left /\ MayServe(batch.op, t)
  /\ stored' = Served(batch.op, t)
  /\ IF batch.left = {t}
     THEN batch' = NoBatch /\ marked' = {} /\ RefreshList
     ELSE batch' = [batch EXCEPT !.left = @ \ {t}] /\ UNCHANGED <<marked, asking>>
  /\ UNCHANGED <<changes, started, listed, route, selected, selecting, dialog, calls>>

(* The first refusal ends the batch for the page: the marks stay, nothing is  *)
(* fetched again, and the other calls go on unheeded.                         *)
BatchRefused(t) ==
  /\ t \in batch.left
  /\ batch' = NoBatch
  /\ calls' = calls \cup {Call(batch.op, u, TRUE) : u \in batch.left \ {t}}
  /\ UNCHANGED <<stored, changes, started, listed, asking, route, selected, selecting,
                 marked, dialog>>

DeskNext ==
  \/ \E t \in Tasks : OthersChange(t)
  \/ PollList
  \/ AnswerList
  \/ ListArrives
  \/ \E t \in Tasks : ClickRow(t)
  \/ CloseDetail
  \/ \E t \in Links : FollowLink(t)
  \/ ToggleSelectionMode
  \/ \E F \in SUBSET Tasks : ToggleFilteredSelection(F)
  \/ \E op \in Guarded : OpenDialog(op)
  \/ OpenBatchDialog
  \/ Dismiss
  \/ Confirm
  \/ \E op \in Direct : PressDirect(op)
  \/ \E c \in calls : CallEnds(c)
  \/ \E op \in BatchOps : StartBatch(op)
  \/ \E t \in Tasks : BatchServed(t)
  \/ \E t \in Tasks : BatchRefused(t)

(* The timer fires, requests and calls are answered; the user owes nothing.   *)
ListIsFetched == PollList \/ AnswerList \/ ListArrives
CallsAreServed == \/ \E c \in calls : CallEnds(c)
                  \/ \E t \in Tasks : BatchServed(t) \/ BatchRefused(t)
DeskFairness == WF_deskVars(ListIsFetched) /\ WF_deskVars(CallsAreServed)

DeskSpec == DeskInit /\ [][DeskNext]_deskVars /\ DeskFairness

DeskTypeOK ==
  /\ stored \in Lists /\ listed \in Lists /\ changes \in 0..MaxChanges
  /\ started \in 0..MaxCalls
  /\ asking \in [step : {"none", "asked", "answered"}, answer : Lists]
  /\ route \in Links /\ selected \in Tasks \cup {NoTask}
  /\ selecting \in BOOLEAN
  /\ marked \subseteq Tasks
  /\ dialog \in [of : Guarded \cup {"none", "batch"}, on : Tasks \cup {NoTask}]
  /\ calls \subseteq [op : Guarded \cup Direct, on : Tasks, quiet : BOOLEAN]
  /\ batch \in [op : BatchOps \cup {"none"}, left : SUBSET Tasks]

(* A confirmation acts on the task it was opened on, whatever the timer, the  *)
(* workers and other clients did to the list while it was open, on a page     *)
(* that was not opened through a link to one task.                            *)
ConfirmedIsAsked ==
  [][dialog.of \in Guarded /\ calls' # calls /\ dialog' = Closed /\ route = NoTask
       => \A c \in calls' \ calls : c.quiet \/ c.on = dialog.on]_deskVars

(* The page shows what the server holds again and again, now that changes     *)
(* come to an end: no call, event or failed batch leaves it stale for good.   *)
DeskCatchesUp == []<>(listed = stored)
=============================================================================
