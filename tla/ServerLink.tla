----------------------------- MODULE ServerLink -----------------------------
(* How the window follows its server: the connection (serverStore.ts), the    *)
(* start of the desktop's own server (useDesktopServerControl.ts, App.tsx),   *)
(* the event stream (eventStream.ts, useAppEvents.ts) with the bus behind it  *)
(* (events.py) and the polls of the task list (queries.ts).  Events only say  *)
(* that something changed: a bounded queue drops those it has no room for, a  *)
(* stream that is down misses them, and nothing is read again when it is back.*)
EXTENDS Naturals

CONSTANTS Servers,       \* addresses
          Own,           \* the server the desktop shell starts
          QueueSize,     \* MAX_SUBSCRIBER_QUEUE_SIZE
          MaxTaskChanges,    \* bound: changes of tasks
          MaxLinkFaults      \* bound: failed requests, broken streams, stops, switches

ASSUME LinkAssumption ==
  Own \in Servers /\ QueueSize \in Nat \ {0} /\ MaxTaskChanges \in Nat /\ MaxLinkFaults \in Nat

VARIABLES server,        \* serverUrl and apiToken
          up,            \* servers that run
          serverTasks,       \* state of the tasks of each server
          stream,        \* runEventStreamLoop: server and step
          queued,        \* events in the subscriber's queue
          listQuery,     \* the list query: step, server and serverTasks it saw
          shownTasks,        \* what the window shows
          startRun,      \* desktopStartPromise: where the start is
          boot,          \* status of the startup screen
          linkFaults     \* counter for the bound

linkVars == <<server, up, serverTasks, stream, queued, listQuery, shownTasks, startRun, boot,
              linkFaults>>

NothingSeen == [server |-> Own, version |-> 0]
NoQuery == [step |-> "none", server |-> Own, version |-> 0]
Fault == linkFaults < MaxLinkFaults /\ linkFaults' = linkFaults + 1

LinkInit ==
  /\ server \in Servers /\ up \in {{Own}, Servers} \cup {Servers \ {Own}}
  /\ serverTasks = [s \in Servers |-> 0]
  /\ stream = [server |-> server, step |-> "connecting"] /\ queued = 0
  /\ listQuery = NoQuery /\ shownTasks = NothingSeen
  /\ startRun = "none" /\ boot = "idle" /\ linkFaults = 0

(***************************************************************************)
(* The server.                                                             *)
(***************************************************************************)
(* publish: the event goes to a subscriber that has room, or nowhere.         *)
Published == IF queued < QueueSize THEN queued + 1 ELSE queued

TasksChange ==
  /\ \E s \in up :
       /\ serverTasks[s] < MaxTaskChanges /\ serverTasks' = [serverTasks EXCEPT ![s] = @ + 1]
       /\ queued' = IF stream.step = "open" /\ stream.server = s THEN Published ELSE queued
  /\ UNCHANGED <<server, up, stream, listQuery, shownTasks, startRun, boot, linkFaults>>

ServerStops ==
  /\ Fault /\ \E s \in up : up' = up \ {s}
  /\ UNCHANGED <<server, serverTasks, stream, queued, listQuery, shownTasks, startRun, boot>>

(***************************************************************************)
(* The stream.                                                             *)
(***************************************************************************)
(* consumeSseResponse: the subscription begins with an empty queue.           *)
StreamOpens ==
  /\ stream.step = "connecting" /\ stream.server \in up
  /\ stream' = [stream EXCEPT !.step = "open"] /\ queued' = 0
  /\ UNCHANGED <<server, up, serverTasks, listQuery, shownTasks, startRun, boot, linkFaults>>

(* The wait before the next attempt, whose length is left out.                *)
Waits == stream' = [stream EXCEPT !.step = "waiting"] /\ queued' = 0

(* Refused, or broken while it was read.                                      *)
StreamFails ==
  /\ \/ stream.step = "connecting" /\ stream.server \notin up /\ UNCHANGED linkFaults
     \/ stream.step = "open" /\ (IF stream.server \in up THEN Fault ELSE UNCHANGED linkFaults)
  /\ Waits
  /\ UNCHANGED <<server, up, serverTasks, listQuery, shownTasks, startRun, boot>>

(* Ended by the server.                                                       *)
EventStreamEnds ==
  /\ stream.step = "open" /\ Fault /\ Waits
  /\ UNCHANGED <<server, up, serverTasks, listQuery, shownTasks, startRun, boot>>

Reconnect ==
  /\ stream.step = "waiting"
  /\ stream' = [stream EXCEPT !.step = "connecting"]
  /\ UNCHANGED <<server, up, serverTasks, queued, listQuery, shownTasks, startRun, boot,
                 linkFaults>>

(* The connection changed: the effect aborts the stream and starts another.   *)
Connected(s) == /\ server' = s
                /\ IF s = server THEN UNCHANGED <<stream, queued>>
                   ELSE /\ stream' = [server |-> s, step |-> "connecting"]
                        /\ queued' = 0

(* An invalidation drops the request under way and asks again.                *)
AskAgain == [step |-> "asked", server |-> server', version |-> 0]

(* handleEvent, on an event of a task.                                        *)
EventHeard ==
  /\ stream.step = "open" /\ queued > 0 /\ queued' = queued - 1
  /\ UNCHANGED server /\ listQuery' = AskAgain
  /\ UNCHANGED <<up, serverTasks, stream, shownTasks, startRun, boot, linkFaults>>

(***************************************************************************)
(* The polls.                                                              *)
(***************************************************************************)
(* Variant: the list is polled only while the stream is down.                 *)
PollWithoutStream ==
  /\ stream.step # "open"
  /\ listQuery.step = "none" /\ UNCHANGED server /\ listQuery' = AskAgain
  /\ UNCHANGED <<up, serverTasks, stream, queued, shownTasks, startRun, boot, linkFaults>>

PollTasks ==
  /\ listQuery.step = "none" /\ UNCHANGED server /\ listQuery' = AskAgain
  /\ UNCHANGED <<up, serverTasks, stream, queued, shownTasks, startRun, boot, linkFaults>>

ListRead ==
  /\ listQuery.step = "asked" /\ listQuery.server \in up
  /\ listQuery' = [listQuery EXCEPT !.step = "answered", !.version = serverTasks[listQuery.server]]
  /\ UNCHANGED <<server, up, serverTasks, stream, queued, shownTasks, startRun, boot, linkFaults>>

(* The key does not name the server: an answer of the last one is shown too.  *)
TaskListArrives ==
  /\ listQuery.step = "answered" /\ listQuery' = NoQuery
  /\ shownTasks' = [server |-> listQuery.server, version |-> listQuery.version]
  /\ UNCHANGED <<server, up, serverTasks, stream, queued, startRun, boot, linkFaults>>

(* retry: 1.  Then the old data stays, and the interval goes on.              *)
ListFails ==
  /\ listQuery.step \in {"asked", "answered"}
  /\ IF listQuery.server \in up THEN Fault ELSE UNCHANGED linkFaults
  /\ listQuery' = NoQuery
  /\ UNCHANGED <<server, up, serverTasks, stream, queued, shownTasks, startRun, boot>>

(***************************************************************************)
(* Connecting.                                                             *)
(***************************************************************************)
(* Save of the connection form, and an import: the token comes with it.       *)
SwitchServer ==
  /\ Fault /\ boot = "ready" /\ \E s \in Servers \ {server} : Connected(s)
  /\ UNCHANGED <<up, serverTasks, listQuery, shownTasks, startRun, boot>>

(* startDesktopServer: a start under way would be joined, but the startup     *)
(* screen and the pages with their button are never there together.           *)
Starting == startRun = "none" /\ startRun' = "shell"

(* The effect of useDesktopServerBootstrap, first or by retry.                *)
BootStarts ==
  /\ boot \in {"idle", "error"} /\ boot' = "starting" /\ Starting
  /\ UNCHANGED <<server, up, serverTasks, stream, queued, listQuery, shownTasks, linkFaults>>

(* The button of the pages.                                                   *)
StartAgain ==
  /\ boot = "ready" /\ Fault /\ Starting
  /\ UNCHANGED <<server, up, serverTasks, stream, queued, listQuery, shownTasks, boot>>

(* startServer of the shell: it runs the server, or finds it running.         *)
ShellStarted ==
  /\ startRun = "shell" /\ startRun' = "health"
  /\ up' = up \cup {Own} /\ Connected(Own)
  /\ UNCHANGED <<serverTasks, listQuery, shownTasks, boot, linkFaults>>

(* getHealth, and the invalidation of every query by the startup.             *)
StartHealthy ==
  /\ startRun = "health" /\ server \in up /\ startRun' = "none"
  /\ UNCHANGED server
  /\ IF boot = "starting" THEN boot' = "ready" /\ listQuery' = AskAgain
     ELSE UNCHANGED <<boot, listQuery>>
  /\ UNCHANGED <<up, serverTasks, stream, queued, shownTasks, linkFaults>>

StartFails ==
  /\ startRun # "none"
  /\ IF startRun = "health" /\ server \notin up THEN UNCHANGED linkFaults ELSE Fault
  /\ startRun' = "none" /\ boot' = IF boot = "starting" THEN "error" ELSE boot
  /\ UNCHANGED <<server, up, serverTasks, stream, queued, listQuery, shownTasks>>

LinkNext ==
  \/ TasksChange \/ ServerStops
  \/ StreamOpens \/ StreamFails \/ EventStreamEnds \/ Reconnect \/ EventHeard
  \/ PollTasks \/ ListRead \/ TaskListArrives \/ ListFails
  \/ SwitchServer \/ BootStarts \/ StartAgain \/ ShellStarted \/ StartHealthy \/ StartFails

(* The interval goes on, and a server that runs answers.                      *)
ListIsRead == PollTasks \/ ListRead \/ TaskListArrives \/ ListFails
LinkFairness == WF_linkVars(ListIsRead)

LinkSpec == LinkInit /\ [][LinkNext]_linkVars /\ LinkFairness

LinkTypeOK ==
  /\ server \in Servers /\ up \subseteq Servers /\ serverTasks \in [Servers -> 0..MaxTaskChanges]
  /\ stream \in [server : Servers, step : {"connecting", "open", "waiting"}]
  /\ queued \in 0..QueueSize
  /\ listQuery \in [step : {"none", "asked", "answered"}, server : Servers,
                    version : 0..MaxTaskChanges]
  /\ shownTasks \in [server : Servers, version : 0..MaxTaskChanges]
  /\ startRun \in {"none", "shell", "health"}
  /\ boot \in {"idle", "starting", "ready", "error"}
  /\ linkFaults \in 0..MaxLinkFaults

(* Whatever events were dropped or missed, and whichever server was chosen,   *)
(* the window comes to show the tasks of its server as they are, unless that  *)
(* server stays down.                                                         *)
TasksCatchUp ==
  <>[](server \in up) =>
    <>[](shownTasks.server = server /\ shownTasks.version = serverTasks[server])
=============================================================================
