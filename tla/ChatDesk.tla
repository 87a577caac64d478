------------------------------ MODULE ChatDesk ------------------------------
(* The chat with a language model: the panel (ChatPanel.tsx), the stream of   *)
(* one answer (eventStream.ts) and the service (chat.py, routes/chat.py) with *)
(* one worker thread per question.  A question is numbered by the send it     *)
(* belongs to; providers and bound tasks only show in what may be refused.    *)
EXTENDS Naturals, Sequences, SequencesExt

CONSTANTS MaxChats,      \* bound: sessions created
          MaxSends       \* bound: questions sent

ASSUME ChatAssumption == MaxChats \in Nat /\ MaxSends \in Nat

VARIABLES opened,        \* session -> "unused", "open" or "deleted"
          messages,      \* session -> stored messages
          sends,         \* send() calls of the panel, with stream and worker
          selectedChat,  \* selectedId
          draft,         \* the send whose exchange is drawn as draft, or 0
          controller     \* the send abortRef can abort, or 0

chatVars == <<opened, messages, sends, selectedChat, draft, controller>>

Numbers == 1..MaxSends
Chats == 1..MaxChats
NoChat == 0                  \* no session is selected
Unsent == [step |-> "unused", chat |-> NoChat, here |-> TRUE,
           aborted |-> FALSE, worker |-> "none", cancel |-> FALSE, parts |-> FALSE]
Message(role, n, status) == [role |-> role, of |-> n, status |-> status]
StoredMessage(n, role) == \E c \in Chats : \E k \in DOMAIN messages[c] :
                     messages[c][k].role = role /\ messages[c][k].of = n

ChatInit ==
  /\ opened = [c \in Chats |-> "unused"] /\ messages = [c \in Chats |-> <<>>]
  /\ sends = [n \in Numbers |-> Unsent]
  /\ selectedChat = NoChat
  /\ draft = 0 /\ controller = 0

(* add_message: nothing is stored in a session that was deleted meanwhile.    *)
AddMessage(c, message) ==
  messages' = IF opened[c] = "open" THEN [messages EXCEPT ![c] = Append(@, message)]
                                    ELSE messages

(* setInput(''), a new controller, and the draft; then the request goes out.  *)
(* A panel that was left meanwhile has no box and no draft any more.          *)
BeginStream(n, c) ==
  /\ sends' = [sends EXCEPT ![n].step = "posting", ![n].chat = c]
  /\ IF sends[n].here
     THEN draft' = n /\ controller' = n
     ELSE UNCHANGED <<draft, controller>>

(* send(): guarded by the draft alone, which is set behind the calls that     *)
(* create the session or bind the provider shown to it.                       *)
SendMessage(n) ==
  /\ draft = 0
  /\ sends[n].step = "unused" /\ \A m \in Numbers : m < n => sends[m].step # "unused"
  /\ \/ /\ sends' = [sends EXCEPT ![n].step = IF selectedChat = NoChat THEN "creating"
                                              ELSE "binding",
                                  ![n].chat = selectedChat]
        /\ UNCHANGED <<draft, controller>>
     \/ /\ selectedChat # NoChat
        /\ sends' = [sends EXCEPT ![n].step = "posting", ![n].chat = selectedChat]
        /\ draft' = n /\ controller' = n
  /\ UNCHANGED <<opened, messages, selectedChat>>

SessionCreated(n, c) ==
  /\ sends[n].step = "creating"
  /\ opened[c] = "unused" /\ \A d \in 1..(c - 1) : opened[d] # "unused"
  /\ opened' = [opened EXCEPT ![c] = "open"]
  /\ selectedChat' = IF sends[n].here THEN c ELSE selectedChat
  /\ BeginStream(n, c)
  /\ UNCHANGED <<messages>>

ProviderBound(n) ==
  /\ sends[n].step = "binding" /\ opened[sends[n].chat] = "open"
  /\ BeginStream(n, sends[n].chat)
  /\ UNCHANGED <<opened, messages, selectedChat>>

(* Either call fails: a notice, and the text stays in the box.                *)
SendFails(n) ==
  /\ sends[n].step \in {"creating", "binding"}
  /\ sends' = [sends EXCEPT ![n].step = "ended"]
  /\ UNCHANGED <<opened, messages, selectedChat, draft, controller>>

(* post_message stores the question and starts a worker for the answer.       *)
PostMessage(n) ==
  /\ sends[n].step = "posting" /\ opened[sends[n].chat] = "open"
  /\ AddMessage(sends[n].chat, Message("user", n, "complete"))
  /\ sends' = [sends EXCEPT ![n].step = "streaming", ![n].worker = "running"]
  /\ UNCHANGED <<opened, selectedChat, draft, controller>>

(* The finally clause: whatever draft is shown is dropped.                    *)
Finish(n) ==
  /\ sends' = [sends EXCEPT ![n].step = "ended"]
  /\ IF sends[n].here THEN draft' = 0 /\ controller' = 0 ELSE UNCHANGED <<draft, controller>>

(* No session, no usable provider, or a context that is too long: the last is *)
(* refused behind the stored question.                                        *)
PostRefused(n) ==
  /\ sends[n].step = "posting"
  /\ Finish(n)
  /\ \/ UNCHANGED messages
     \/ AddMessage(sends[n].chat, Message("user", n, "complete"))
  /\ UNCHANGED <<opened, selectedChat>>

(* on_delta: every piece is kept by the worker before it is sent on.          *)
Delta(n) ==
  /\ sends[n].worker = "running" /\ ~sends[n].cancel /\ ~sends[n].parts
  /\ sends' = [sends EXCEPT ![n].parts = TRUE]
  /\ UNCHANGED <<opened, messages, selectedChat, draft, controller>>

(* run_reply: the whole answer, also when the cancellation came too late to   *)
(* be noticed; what there is of it when it was noticed; or an error.          *)
ReplyComplete(n) ==
  /\ sends[n].worker = "running" /\ sends[n].parts
  /\ AddMessage(sends[n].chat, Message("assistant", n, "complete"))
  /\ sends' = [sends EXCEPT ![n].worker = "done"]
  /\ UNCHANGED <<opened, selectedChat, draft, controller>>

(* Variant: what there is of a stopped answer is thrown away.                 *)
KeepUnlessStopped(n, status) ==
  IF sends[n].parts /\ status # "partial"
  THEN AddMessage(sends[n].chat, Message("assistant", n, status)) ELSE UNCHANGED messages

KeepParts(n, status) ==
  IF sends[n].parts THEN AddMessage(sends[n].chat, Message("assistant", n, status))
                    ELSE UNCHANGED messages

ReplyAborted(n) ==
  /\ sends[n].worker = "running" /\ sends[n].cancel
  /\ KeepParts(n, "partial")
  /\ sends' = [sends EXCEPT ![n].worker = "aborted"]
  /\ UNCHANGED <<opened, selectedChat, draft, controller>>

ReplyFails(n) ==
  /\ sends[n].worker = "running"
  /\ KeepParts(n, "error")
  /\ sends' = [sends EXCEPT ![n].worker = "failed"]
  /\ UNCHANGED <<opened, selectedChat, draft, controller>>

(* The write behind an answer, whole or not, fails; the handler of that       *)
(* failure writes with the session that failed, and raises again.             *)
ReplyLost(n) ==
  /\ sends[n].worker = "running"
  /\ sends' = [sends EXCEPT ![n].worker = "lost"]
  /\ UNCHANGED <<opened, messages, selectedChat, draft, controller>>

(* The server stops: what its workers hold of an answer is in memory only.    *)
ChatServerStops ==
  /\ \E n \in Numbers : sends[n].worker = "running"
  /\ sends' = [n \in Numbers |-> IF sends[n].worker = "running"
                                THEN [sends[n] EXCEPT !.worker = "lost"] ELSE sends[n]]
  /\ UNCHANGED <<opened, messages, selectedChat, draft, controller>>

(* The stream ends with a done or an error event, breaks, or was aborted.     *)
ReplyEnds(n) ==
  /\ sends[n].step = "streaming"
  /\ Finish(n)
  /\ UNCHANGED <<opened, messages, selectedChat>>

(* The server sees that nobody reads the stream any more. *)
Disconnected(n) ==
  /\ sends[n].worker = "running" /\ sends[n].step = "ended" /\ ~sends[n].cancel
  /\ sends' = [sends EXCEPT ![n].cancel = TRUE]
  /\ UNCHANGED <<opened, messages, selectedChat, draft, controller>>

Stop ==
  /\ draft # 0 /\ controller # 0 /\ ~sends[controller].aborted
  /\ sends' = [sends EXCEPT ![controller].aborted = TRUE]
  /\ UNCHANGED <<opened, messages, selectedChat, draft, controller>>

(* The panel is left and opened again: the stream abortRef knows is aborted,  *)
(* the calls before it go on without a panel.                                 *)
LeavePanel ==
  /\ \E n \in Numbers : sends[n].here /\ sends[n].step \notin {"unused", "ended"}
  /\ sends' = [n \in Numbers |->
                 IF sends[n].step \in {"unused", "ended"} THEN sends[n]
                 ELSE [sends[n] EXCEPT !.here = FALSE, !.aborted = @ \/ n = controller]]
  /\ selectedChat' = NoChat /\ draft' = 0 /\ controller' = 0
  /\ UNCHANGED <<opened, messages>>

(* Sessions are chosen and deleted while an answer streams; only the button   *)
(* for a new one is locked.                                                   *)
SelectSession(c) ==
  /\ opened[c] = "open" /\ selectedChat # c /\ selectedChat' = c
  /\ UNCHANGED <<opened, messages, sends, draft, controller>>

NewSession ==
  /\ draft = 0 /\ selectedChat # NoChat /\ selectedChat' = NoChat
  /\ UNCHANGED <<opened, messages, sends, draft, controller>>

DeleteSession(c) ==
  /\ opened[c] = "open"
  /\ opened' = [opened EXCEPT ![c] = "deleted"] /\ messages' = [messages EXCEPT ![c] = <<>>]
  /\ selectedChat' = IF selectedChat = c THEN NoChat ELSE selectedChat
  /\ UNCHANGED <<sends, draft, controller>>

ChatReplies(n) == ReplyComplete(n) \/ ReplyAborted(n) \/ ReplyFails(n) \/ ReplyLost(n)

ChatNext ==
  \/ \E n \in Numbers : SendMessage(n)
  \/ \E n \in Numbers, c \in Chats : SessionCreated(n, c)
  \/ \E n \in Numbers : ProviderBound(n)
  \/ \E n \in Numbers : SendFails(n)
  \/ \E n \in Numbers : PostMessage(n)
  \/ \E n \in Numbers : PostRefused(n)
  \/ \E n \in Numbers : Delta(n)
  \/ \E n \in Numbers : ReplyComplete(n)
  \/ \E n \in Numbers : ReplyAborted(n)
  \/ \E n \in Numbers : ReplyFails(n)
  \/ \E n \in Numbers : ReplyLost(n)
  \/ ChatServerStops
  \/ \E n \in Numbers : ReplyEnds(n)
  \/ \E n \in Numbers : Disconnected(n)
  \/ Stop
  \/ LeavePanel
  \/ \E c \in Chats : SelectSession(c)
  \/ NewSession
  \/ \E c \in Chats : DeleteSession(c)

(* A provider answers, fails or times out, and a worker that is not read is   *)
(* cancelled and stops.                                                       *)
ChatFairness == WF_chatVars(\E n \in Numbers : ChatReplies(n))

ChatSpec == ChatInit /\ [][ChatNext]_chatVars /\ ChatFairness

ChatTypeOK ==
  /\ opened \in [Chats -> {"unused", "open", "deleted"}]
  /\ \A c \in Chats : messages[c] \in
       Seq([role : {"user", "assistant"}, of : Numbers,
            status : {"complete", "partial", "error"}])
  /\ sends \in [Numbers ->
       [step : {"unused", "creating", "binding", "posting", "streaming", "ended"},
        chat : Chats \cup {NoChat}, here : BOOLEAN,
        aborted : BOOLEAN, worker : {"none", "running", "done", "aborted", "failed", "lost"},
        cancel : BOOLEAN, parts : BOOLEAN]]
  /\ selectedChat \in Chats \cup {NoChat}
  /\ draft \in 0..MaxSends /\ controller \in 0..MaxSends

(* What there is of an answer when it is stopped, breaks off or its provider  *)
(* fails is stored in the end: also when the panel is left, and when two      *)
(* questions were sent before the first draft was shown.  It is not when the  *)
(* session is deleted, nor when the write itself fails or the server stops.   *)
AnswerIsKept ==
  \A n \in Numbers :
    sends[n].parts ~> \/ StoredMessage(n, "assistant")
                      \/ \E c \in Chats : sends[n].chat = c /\ opened[c] = "deleted"
                      \/ sends[n].worker = "lost"
=============================================================================
