CONSTANTS
  Pages = {0, 2, 3, 8}
  Frames = {0, 1, 2, 3, 4, 5, 6, 7}
  DeviceFrames = {20}
  TableEntries = 2
  MaxCount = 2
SPECIFICATION TlbSpec
INVARIANTS
  HeldPagesReachTheirFrames
CHECK_DEADLOCK FALSE
