CONSTANTS
  t1 = t1
  t2 = t2
  l1 = l1
  l2 = l2
  p1 = p1
  loop1 = loop1
  pool1 = pool1
  none = none
  Tasks = {t1}
  LocalWorkers = {l1}
  ProviderWorkers = {p1}
  PoolThreads = {pool1}
  EventLoop = loop1
  NoOne = none
  Requests <- NoChunks
  MayWarn = FALSE
  RetryAfterDrain = FALSE
  MaxRequests = 3
  MaxRetried = 1
  MaxEscapes = 1
  MaxRestarts = 0
SPECIFICATION FairSpec
CHECK_DEADLOCK FALSE
PROPERTIES ActiveSettles LocksAreReleased CancelHolds
