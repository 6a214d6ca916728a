CONSTANTS
  Coroutines = {c1, c2, c3}
  DispatchLimit = 1
  Slots = {0, 1}
  First = c1
  None = None
  ReadsEach = 2
  Unsolicited = 1
  UnsolicitedAtStart = FALSE
SPECIFICATION Spec
INVARIANTS
  TypeOK
  WaitingIsRegistered
  ResultFollowsExecution
  QueuedIffResult
  CompletionIsNoticed
PROPERTIES
  EveryReadReturns
  ImplementsBlockDevice
CHECK_DEADLOCK FALSE
