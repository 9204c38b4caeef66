SPECIFICATION StrategiesSumSpec
CONSTANTS
  Symbols = {1, 2}
  Bars <- Days
  Executions <- Settings
  Capital = 100000
  Slippage = 5
  Cost = 5
  MaxSessions = 4
  Clients = {c1, c2, c3, c4}
  Rules = {r1, r2}
  MaxRevision = 2
  Nothing = Nothing
  Listed = {a, b}
  Industry <- OneSector
  SessionRows <- RowsOfDay
  Scores <- BadNews
  RuleSet <- NestedRules
  Lookback = 2
  LastSession = 3
  MaxArticles = 1
  Absent = Absent
SYMMETRY Alike
INVARIANTS
  LedgerIsHonest
  OrdersAreHonest
  RunsAreReproducible
  SignalsNeedData

  
CHECK_DEADLOCK FALSE
