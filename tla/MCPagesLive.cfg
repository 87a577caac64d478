CONSTANTS
  t1 = t1
  t2 = t2
  noTask = noTask
  Tasks = {t1, t2}
  NoTask = noTask
  Links = {noTask, t1}
  Guarded = {"delete"}
  Direct = {"retry"}
  BatchOps = {"delete", "retry"}
  MaxChanges = 1
  MaxCalls = 1
  MaxChats = 2
  MaxSends = 2
  m1 = m1
  m2 = m2
  Models = {m1, m2}
  Sources = 2
  MaxAsks = 3
  MaxFaults = 1
  Servers = {"own", "other"}
  Own = "own"
  QueueSize = 1
  MaxTaskChanges = 2
  MaxLinkFaults = 2
  AiTasks = {t1, t2}
  NoAiTask = noTask
  MaxStamp = 1
  MaxTranslated = 1
SPECIFICATION LiveSpec
CHECK_DEADLOCK FALSE
INVARIANTS DownloadIsListed
PROPERTIES ConfirmedIsAsked DeskCatchesUp AnswerIsKept DownloadSettles TasksCatchUp AiTaskIsKept
