SPECIFICATION Spec
CONSTANTS
  Workers = {w1, w2}
  NoWorker = NoWorker
  StepCount = 2
  StaleAfter = 1
  MaxCrashes = 0
  MaxFailures = 0
  MaxLockLosses = 1
  MaxTroubles = 1
PROPERTIES
  RecentHeartbeatNotStolen
