------------------------------- MODULE AiDesk -------------------------------
(* The AI page (AIPage.tsx) and the ways that lead to it: which task its      *)
(* panels work on while the address, the mode and the list of tasks change,   *)
(* and how the answer to a started translation leads back to its run.  The    *)
(* address is that of router.tsx, which drops what it does not know.          *)
EXTENDS Naturals

CONSTANTS AiTasks,       \* ids of the tasks of the server
          NoAiTask,      \* no task
          MaxStamp,      \* bound: dates a list may sort by
          MaxTranslated  \* bound: translations started

ASSUME AiDeskAssumption == /\ NoAiTask \notin AiTasks
                           /\ MaxStamp \in Nat /\ MaxTranslated \in Nat

VARIABLES library,       \* the list on show: state of each task, and date it sorts by
          libraryRead,   \* tasksQuery.isSuccess
          address,       \* page, task, mode, and the task whose run is named
          sought,        \* the tasks whose name contains the query
          starting,      \* starts under way: the task, and whether its panel is still there
          translated     \* translations started so far

aiVars == <<library, libraryRead, address, sought, starting, translated>>

Modes == {"proofreading", "translation", "chat"}
(* A task that is there but not "done" is not completed or has no segments.   *)
Entries(stamps) == [state : {"absent", "there", "done"}, stamp : stamps]
AiAddress(task, mode, run) == [page |-> "ai", task |-> task, mode |-> mode, run |-> run]
OtherPage == [page |-> "other", task |-> NoAiTask, mode |-> "proofreading", run |-> NoAiTask]

(* What may be chosen: finished transcripts; for a translation also the task  *)
(* of the address, whose panel then says that it is not ready.                *)
Eligible(list, addr) ==
  {t \in AiTasks : \/ list[t].state = "done"
                   \/ list[t].state = "there" /\ addr.mode = "translation" /\ addr.task = t}

(* The first of the sorted list: newest first, and of one date any.           *)
Newest(list, addr) ==
  LET some == Eligible(list, addr)
  IN IF some = {} THEN NoAiTask
     ELSE CHOOSE t \in some : \A u \in some : list[u].stamp <= list[t].stamp

ShownTask(list, addr) ==
  IF addr.task = NoAiTask THEN Newest(list, addr)
  ELSE IF addr.task \in Eligible(list, addr) THEN addr.task ELSE NoAiTask

(* The task of the translation panel, which is keyed by it.                   *)
PanelTask(list, addr) ==
  IF addr.page = "ai" /\ addr.mode = "translation" THEN ShownTask(list, addr) ELSE NoAiTask

(* A start outlives the panel that sent it.                                   *)
Outlived(starts, list, addr) ==
  {[s EXCEPT !.here = @ /\ PanelTask(list, addr) = s.task] : s \in starts}

(* Variant: the address is left as it is, and the page shows the newest task. *)
LeftUnnamed(list, read, addr) == addr

(* The effect behind every render writes the task on show into an address     *)
(* that names none; the chat, which is of no task, is left alone.             *)
Named(list, read, addr) ==
  IF addr.page = "ai" /\ addr.mode # "chat" /\ read /\ addr.task = NoAiTask
     /\ ShownTask(list, addr) # NoAiTask
  THEN AiAddress(ShownTask(list, addr), addr.mode, NoAiTask)
  ELSE addr

(* The query is kept while the page is mounted.                               *)
GoTo(addr, starts) ==
  /\ address' = Named(library, libraryRead, addr)
  /\ starting' = Outlived(starts, library, address')
  /\ sought' = IF addr.page = "ai" /\ address.page = "ai" THEN sought ELSE AiTasks

AiInit ==
  /\ library = [t \in AiTasks |-> [state |-> "absent", stamp |-> 0]]
  /\ libraryRead = FALSE
  /\ address \in {OtherPage, AiAddress(NoAiTask, "proofreading", NoAiTask)}
  /\ sought = AiTasks
  /\ starting = {} /\ translated = 0

(* The list arrives: tasks were finished, started again, renewed, deleted.    *)
LibraryArrives ==
  /\ libraryRead' = TRUE
  /\ library' \in [AiTasks -> Entries(0..MaxStamp)]
  /\ \A t \in AiTasks : IF library'[t].state = library[t].state
                        THEN library'[t].stamp = library[t].stamp
                        ELSE library'[t].stamp >= library[t].stamp
  /\ address' = Named(library', libraryRead', address)
  /\ starting' = Outlived(starting, library', address')
  /\ UNCHANGED <<sought, translated>>

(* selectTask, of the tasks that match the query. *)
SelectAiTask ==
  /\ address.page = "ai" /\ address.mode # "chat"
  /\ \E t \in Eligible(library, address) \cap sought :
       GoTo(AiAddress(t, address.mode, NoAiTask), starting)
  /\ UNCHANGED <<library, libraryRead, translated>>

SearchAiTasks ==
  /\ address.page = "ai" /\ address.mode # "chat"
  /\ sought' \in SUBSET AiTasks
  /\ UNCHANGED <<library, libraryRead, address, starting, translated>>

(* The three links on top: those of the panels keep the task on show, the     *)
(* chat forgets it.                                                           *)
SwitchMode ==
  /\ address.page = "ai"
  /\ \E m \in Modes :
       GoTo(AiAddress(IF m = "chat" THEN NoAiTask ELSE ShownTask(library, address), m, NoAiTask),
            starting)
  /\ UNCHANGED <<library, libraryRead, translated>>

(* The side bar leads to this page with an empty address, and to others.      *)
FollowSideBar ==
  /\ \E addr \in {OtherPage, AiAddress(NoAiTask, "proofreading", NoAiTask)} :
       GoTo(addr, starting)
  /\ UNCHANGED <<library, libraryRead, translated>>

(* The inspector of the tasks page links to a finished task.                  *)
FollowTaskLink ==
  /\ address.page = "other"
  /\ \E t \in AiTasks, m \in {"proofreading", "translation"} :
       library[t].state = "done" /\ GoTo(AiAddress(t, m, NoAiTask), starting)
  /\ UNCHANGED <<library, libraryRead, translated>>

Translating == PanelTask(library, address) # NoAiTask

(* selectRun: the history of the panel's runs.                                *)
ChooseTranslation ==
  /\ Translating
  /\ LET t == ShownTask(library, address)
     IN GoTo(AiAddress(t, "translation", t), starting)
  /\ UNCHANGED <<library, libraryRead, translated>>

(* Disabled while a start of this panel is under way, and for reasons that    *)
(* TranslationDesk models.                                                    *)
StartTranslation ==
  /\ Translating /\ translated < MaxTranslated
  /\ LET t == ShownTask(library, address)
     IN /\ library[t].state = "done"
        /\ \A s \in starting : ~s.here
        /\ starting' = starting \cup {[task |-> t, here |-> TRUE]}
  /\ translated' = translated + 1
  /\ UNCHANGED <<library, libraryRead, address, sought>>

(* onSuccess: also of a panel that is not on the screen any more; or the user *)
(* is asked because of edits in the one that is, and stays.                   *)
TranslationStarted(s) ==
  /\ s \in starting
  /\ \/ GoTo(AiAddress(s.task, "translation", s.task), starting \ {s})
     \/ Translating /\ starting' = starting \ {s} /\ UNCHANGED <<address, sought>>
  /\ UNCHANGED <<library, libraryRead, translated>>

TranslationRefused(s) ==
  /\ s \in starting /\ starting' = starting \ {s}
  /\ UNCHANGED <<library, libraryRead, address, sought, translated>>

AiNext ==
  \/ LibraryArrives \/ SelectAiTask \/ SearchAiTasks \/ SwitchMode
  \/ FollowSideBar \/ FollowTaskLink
  \/ ChooseTranslation \/ StartTranslation
  \/ \E s \in starting : TranslationStarted(s)
  \/ \E s \in starting : TranslationRefused(s)

AiSpec == AiInit /\ [][AiNext]_aiVars

AiTypeOK ==
  /\ library \in [AiTasks -> Entries(0..MaxStamp)] /\ libraryRead \in BOOLEAN
  /\ address \in [page : {"ai", "other"}, task : AiTasks \cup {NoAiTask}, mode : Modes,
                  run : AiTasks \cup {NoAiTask}]
  /\ sought \subseteq AiTasks
  /\ starting \subseteq [task : AiTasks, here : BOOLEAN]
  /\ translated \in 0..MaxTranslated

(* The panels stay with the task they work on while lists arrive: a task that *)
(* is finished meanwhile never takes its place, and one that disappears       *)
(* leaves the place empty until the user chooses.                             *)
OnShow == IF address.page = "ai" /\ address.mode # "chat"
          THEN ShownTask(library, address) ELSE NoAiTask

AiTaskIsKept ==
  [][ OnShow # NoAiTask /\ library' # library => OnShow' \in {OnShow, NoAiTask} ]_aiVars

=============================================================================
