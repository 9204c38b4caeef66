SPECIFICATION SessionsSpec
CONSTANTS
  Tabs = {t1, t2}
  Slots = {s1, s2}
  MaxSessions = 3
  Scenarios <- AllScenarios
  PromptTabs = TRUE
  Requests = {r1, r2, r3}
  Emails = {e1, e2}
  Subjects = {g1}
  Secrets = {p1, p2}
  MaxAttempts = 1
  Window = 1
  LastTick = 1
  NoOne = NoOne
SYMMETRY Alike
INVARIANTS
  RefreshesConverge
  
  AccountsAreReachable
  AttemptsWithinWindow
CHECK_DEADLOCK FALSE
