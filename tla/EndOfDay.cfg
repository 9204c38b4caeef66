SPECIFICATION EndOfDaySpec
CONSTANTS
  Workers = {w1, w2}
  NoWorker = NoWorker
  StepCount = 3
  StaleAfter = 1
  MaxCrashes = 2
  MaxFailures = 2
  MaxLockLosses = 0
  Equities = {"TMPV"}
  Macros = {"GOLD"}
  Retired <- Renamed
  Index = "NSEI"
  Expected = 1
  LastDay = 4
  Sessions = {1, 2, 4}
  Lookback = 4
  Overlap = 1
  FullEvery = 2
  MaxStale = 1
  MinBars = 1
  Warmup = 1
  Jobs = {j1, j2}
  MaxAttempts = 2
  Scenarios <- AllScenarios
SYMMETRY Processes
INVARIANTS
  RunIsOrderly
  IndicatorsMatchPrices
  
  CompletionIsCovered
PROPERTIES
  CheckpointsAreFinal
  FencedHeartbeatNotStolen
  PipelineSpec
CHECK_DEADLOCK FALSE
