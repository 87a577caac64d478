CONSTANTS
  Originals <- TwoTexts
  Typed <- TypedWords
  Searches <- Words
  Targets <- NewWords
  MaxSaves = 1
  MaxOthers = 1
  Segments = 2
  MaxRuns = 2
  MaxMishaps = 1
  MaxTrRuns = 2
  MaxRevisions = 2
  MaxOwnCalls = 2
  Channels = {"stable", "prerelease"}
  MaxChecks = 1
  MaxStarts = 2
  MaxCancels = 1
  MaxToggles = 1
  Length = 3
  Slack = 1
  Jump = 2
  Tracks = {"a", "b"}
  MaxTouches = 3
  MaxFetches = 4
  LocalModels = {"m"}
  Providers = {"p"}
  Fields = {"locale", "accent"}
  Lenient = {"accent"}
  MaxTypes = 2
  MaxWrites = 2
  Media = {"a"}
  Unfit = {"a"}
  ListedModels = {"m", "n"}
  FirstModel = "n"
  Compatible = {"m"}
  Detecting = {"n"}
  ListedProviders = {"p"}
  Defaults <- DetectedDefault
  MaxMoves = 3
  MaxTasks = 1
  LLMs = {"p", "q"}
  Endpoints = {"a", "b"}
  MaxUpdates = 3
  MaxProbes = 1
  AsrIds = {1, 2}
  MaxRevision = 2
  MaxClicks = 3
  Shelf = {"whisper-base", "faster-whisper-small", "mlx-whisper-turbo", "qwen3-asr-0.6b"}
  MaxBrowse = 3
SPECIFICATION PagesSpec
CHECK_DEADLOCK FALSE
INVARIANTS PagesTypeOK MarkedIsReplaced ActiveRunHasWorker TrReviewIsCurrent OneTransfer WaveformIsCurrent SavedDefaultIsKept SavedIsOwn
PROPERTIES AppliedIsReviewed CreatedFitsModel AppliedWasTested
