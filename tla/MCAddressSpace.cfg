CONSTANTS
  InitialList <- SmallList
  InitialCapacity = 4
SPECIFICATION Spec
INVARIANTS
  TypeOK
  BlocksTileTheSpace
  NoDoubleGrant
  NothingLeaks
PROPERTIES
  ImplementsBestFit
CHECK_DEADLOCK FALSE
