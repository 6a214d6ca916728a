CONSTANTS
  PagesTotal = 12
  MaxOrder = 2
  BitsPerByte = 8
  LowPages = 2
  Reserved = {0, 2}
SPECIFICATION Spec
INVARIANTS
  AllocatedCountIsActual
CHECK_DEADLOCK FALSE
