CONSTANTS
  InitialList <- KernelList
  InitialCapacity = 2
SPECIFICATION Spec
INVARIANTS
  BlocksStayInOrder
CHECK_DEADLOCK FALSE
