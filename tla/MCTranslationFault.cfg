CONSTANTS
  t1 = t1
  t2 = t2
  r1 = r1
  r2 = r2
  c1 = c1
  c2 = c2
  e1 = e1
  e2 = e2
  noConfig = noConfig
  noRun = noRun
  Tasks = {t1}
  Runs = {r1}
  TaskOf <- OneTask
  TotalBatches = 1
  Configs = {c1}
  LocalConfigs = {}
  NoConfig = noConfig
  NoRun = noRun
  Editors = {}
  DatabaseMayFail = TRUE
  MaxAttempts = 1
  MaxSplits = 0
  MaxRevisions = 1
  MaxExits = 1
  MaxRestarts = 0
SPECIFICATION Spec
CHECK_DEADLOCK FALSE
INVARIANT ActiveRunIsServed
