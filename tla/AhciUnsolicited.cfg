CONSTANTS
  Coroutines = {c1}
  DispatchLimit = 2
  Slots = {0, 1}
  First = c1
  None = None
  ReadsEach = 2
  Unsolicited = 1
  UnsolicitedAtStart = TRUE
SPECIFICATION Spec
INVARIANTS
  TrueMeansRead
CHECK_DEADLOCK FALSE
