SPECIFICATION HistorySpec
CONSTANTS
  Processes = {p1, p2}
  MinSessions = 1
  K = 1
  MaxSessions = 2
  MaxRevisions = 1
  MaxJobs = 3
  MaxMishaps = 2
  Constituents = {1, 2}
  Segment <- MCSegment
  DayRows <- MCDayRows
  Window = 1
  MinUsable = 1
  MinCoverage = 80
  MinSegments = 60
  ReturnCap = 20
  Horizon = 2
  TopK = 1
  LastDay = 4
  MaxGaps = 1
  MaxChanges = 2
  NoRow = NoRow
INVARIANTS
  CacheIsSound
  AnswersFromOneCorpus
  
  
PROPERTIES
  IntactGenerationStays
  EveryJobEnds
CHECK_DEADLOCK FALSE
