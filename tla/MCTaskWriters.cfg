CONSTANTS
  t1 = t1
  t2 = t2
  l1 = l1
  l2 = l2
  p1 = p1
  loop1 = loop1
  pool1 = pool1
  none = none
  Tasks = {t1}
  LocalWorkers = {l1}
  ProviderWorkers = {p1}
  PoolThreads = {pool1}
  EventLoop = loop1
  NoOne = none
  Requests <- NoReconcile
  MayWarn = TRUE
  RetryAfterDrain = TRUE
  MaxRequests = 5
  MaxRetried = 2
  MaxEscapes = 1
  MaxRestarts = 1
SPECIFICATION Spec
CHECK_DEADLOCK FALSE
PROPERTIES RequestsSpareWriters CompletedIsKept
INVARIANTS SingleWriter WriterIsTracked CompletedHasTranscript
