SPECIFICATION UniverseSpec
CONSTANTS
  Indices = {"NIFTY50", "NIFTY_NEXT50"}
  Stocks = {1, 2, 3}
  Replacement <- Renamed
  Lists <- Fewer
  Adopted <- First
  Scenarios <- AllScenarios
  MaxDays = 2
  Ingesters = {i1, i2}
  Bank = Bank
  Oil = Oil
  Articles <- Feeds
  Tracked <- Companies
  Mentions <- NamedIn
  Environments = {TRUE, FALSE}
  MaxRuns = 2
  MaxCrashes = 1
  MaxChanges = 1
INVARIANTS
  MembershipsAreConsistent
PROPERTIES
  EvictionsAreSourced
  EverySyncEnds
  CompletedIngestIsExact
  EveryIngestEnds
CHECK_DEADLOCK FALSE
