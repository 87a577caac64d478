CONSTANTS
  t1 = t1
  t2 = t2
  r1 = r1
  r2 = r2
  c1 = c1
  c2 = c2
  e1 = e1
  e2 = e2
  noConfig = noConfig
  noRun = noRun
  Tasks = {t1}
  Runs = {r1, r2}
  TaskOf <- OneTask
  TotalBatches = 1
  Configs = {c1}
  LocalConfigs = {}
  NoConfig = noConfig
  NoRun = noRun
  Editors = {}
  DatabaseMayFail = TRUE
  MaxAttempts = 2
  MaxSplits = 0
  MaxRevisions = 1
  MaxExits = 1
  MaxRestarts = 0
  Files = {"f", "g"}
  Roots = {"a", "b"}
  FirstRoot = "a"
  MaxChoices = 3
  MaxJobs = 2
  MaxDamage = 1
  Releases = 4
  TorchOf <- ReleaseTorch
  Untold = {4}
  MaxPresses = 3
  MaxBreaks = 1
  Folders = {"f"}
  MaxFolderEdits = 1
  MaxFolderSaves = 2
  MaxFolderFaults = 1
SPECIFICATION ServicesSpec
CHECK_DEADLOCK FALSE
SYMMETRY Symmetric
INVARIANTS ServicesTypeOK OneActiveRun QueueHasWorker ModelsAreKept KitIsVerified
PROPERTY SavesOnlyTouched
