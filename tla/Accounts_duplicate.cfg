SPECIFICATION AccountsSpec
CONSTANTS
  Requests = {r1, r2}
  Emails = {e1}
  Subjects = {g1}
  Secrets = {p1}
  MaxAttempts = 1
  Window = 2
  LastTick = 0
  NoOne = NoOne
SYMMETRY Alike
INVARIANTS
  DuplicateCallbacksConverge
CHECK_DEADLOCK FALSE
