CONSTANTS
  PagesTotal = 16
  MaxOrder = 3
  BitsPerByte = 4
  LowPages = 2
  Reserved = {0, 2}
SPECIFICATION Spec
INVARIANTS
  TypeOK
  NoDoubleAllocation
  AvailableIsFreeCount
  UsedPageMarksItsBuddies
  WasteIsAtMostAQuarter
PROPERTIES
  ImplementsPageAllocator
CHECK_DEADLOCK FALSE
