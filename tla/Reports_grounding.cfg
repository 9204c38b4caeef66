SPECIFICATION ReportsSpec
CONSTANTS
  Requests = {r1, r2, r3}
  Users = {u1, u2}
  Keys = {k1}
  NoKey = NoKey
  None = None
  Sections = {s1, s2}
  Executive = Executive
  Retries = 2
  Timeout = 2
  TotalSeconds = 3
  MaxCalls = 3
  Companies = {1, 2}
  Field <- MCField
  Boards <- MCBoards
  Analogies <- MCAnalogies
  Questions <- MCQuestions
  Belongings <- MCBelongings
  Asks = {a1, a2}
  ContextLimit = 2
  Void = Void
  MaxEvents = 2
  TopPicks = 1
INVARIANTS
  ChatFallbacksAreGrounded
CHECK_DEADLOCK FALSE
