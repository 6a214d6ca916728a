CONSTANTS
  RegionSize = 24
  HeaderSize = 6
  EntryTableCapacity = 4
  Counts = {1, 2, 4, 7}
SPECIFICATION Spec
INVARIANTS
  HonestClientsCorruptNothing
CHECK_DEADLOCK FALSE
