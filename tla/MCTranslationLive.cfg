CONSTANTS
  t1 = t1
  t2 = t2
  r1 = r1
  r2 = r2
  c1 = c1
  c2 = c2
  e1 = e1
  e2 = e2
  noConfig = noConfig
  noRun = noRun
  Tasks = {t1}
  Runs = {r1}
  TaskOf <- OneTask
  TotalBatches = 2
  Configs = {c1, c2}
  LocalConfigs = {}
  NoConfig = noConfig
  NoRun = noRun
  Editors = {e1, e2}
  DatabaseMayFail = FALSE
  MaxAttempts = 2
  MaxSplits = 1
  MaxRevisions = 3
  MaxExits = 1
  MaxRestarts = 1
SPECIFICATION FairSpec
CHECK_DEADLOCK FALSE
INVARIANTS ActiveRunIsServed OneConfiguration NotAskedAgain
PROPERTIES ContractHolds RunsSettle
