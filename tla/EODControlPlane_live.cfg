SPECIFICATION LiveSpec
CONSTANTS
  Workers = {w1, w2}
  NoWorker = NoWorker
  StepCount = 2
  StaleAfter = 1
  MaxCrashes = 1
  MaxFailures = 1
  MaxLockLosses = 1
  MaxTroubles = 2
PROPERTIES
  EventuallyCompleted
  AttemptsTerminate
