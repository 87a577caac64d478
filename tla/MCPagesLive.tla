---------------------------- MODULE MCPagesLive ----------------------------
(***************************************************************************)
(* The pages whose properties speak of what must happen in the end: tasks, *)
(* chat, model downloads and the connection; and the AI page, which leads  *)
(* from one to the other.  As in MCPages a behaviour visits one page;      *)
(* fairness is that of the page visited.                                   *)
(***************************************************************************)
EXTENDS TaskDesk, ChatDesk, ModelDesk, ServerLink, AiDesk

VARIABLE page

liveVars == <<page, deskVars, chatVars, modelVars, linkVars, aiVars>>

(* Where a component may start in several states, only its own page needs  *)
(* them all.                                                               *)
LiveInit ==
  /\ page \in {"tasks", "chat", "models", "server", "ai"}
  /\ DeskInit /\ (page # "tasks" => route = NoTask /\ stored = listed)
  /\ ChatInit /\ ModelInit
  /\ LinkInit /\ (page # "server" => server = Own /\ up = Servers)
  /\ AiInit /\ (page # "ai" => address = OtherPage)

TasksPage == page = "tasks" /\ DeskNext /\ UNCHANGED <<page, chatVars, modelVars, linkVars, aiVars>>
ChatPage == page = "chat" /\ ChatNext /\ UNCHANGED <<page, deskVars, modelVars, linkVars, aiVars>>
ModelsPage == page = "models" /\ ModelNext /\ UNCHANGED <<page, deskVars, chatVars, linkVars, aiVars>>
ServerPage == page = "server" /\ LinkNext /\ UNCHANGED <<page, deskVars, chatVars, modelVars, aiVars>>
AIPage == page = "ai" /\ AiNext /\ UNCHANGED <<page, deskVars, chatVars, modelVars, linkVars>>

LiveNext == TasksPage \/ ChatPage \/ ModelsPage \/ ServerPage \/ AIPage

(* The fairness each module states, of the page visited.                   *)
LiveFairness ==
  /\ WF_deskVars(page = "tasks" /\ ListIsFetched)
  /\ WF_deskVars(page = "tasks" /\ CallsAreServed)
  /\ WF_chatVars(page = "chat" /\ \E n \in Numbers : ChatReplies(n))
  /\ WF_modelVars(page = "models" /\ Worker)
  /\ WF_modelVars(page = "models" /\ \E m \in Models : Requests(m))
  /\ WF_linkVars(page = "server" /\ ListIsRead)

LiveSpec == LiveInit /\ [][LiveNext]_liveVars /\ LiveFairness
====
