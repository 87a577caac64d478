CONSTANTS
  t1 = t1
  t2 = t2
  l1 = l1
  l2 = l2
  p1 = p1
  loop1 = loop1
  pool1 = pool1
  none = none
  Tasks = {t1}
  LocalWorkers = {l1}
  ProviderWorkers = {}
  PoolThreads = {pool1}
  EventLoop = loop1
  NoOne = none
  Requests <- CreateCancel
  MayWarn = TRUE
  RetryAfterDrain = FALSE
  MaxRequests = 2
  MaxRetried = 1
  MaxEscapes = 0
  MaxRestarts = 0
SPECIFICATION Spec
CHECK_DEADLOCK FALSE
PROPERTY CancelHolds
