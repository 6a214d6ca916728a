CONSTANTS
  Clients = {c1, c2}
  Disk <- MCDisk
  Size <- MCSize
  Lookups <- MCLookups
  Requests <- MCRequests
  Word = 8
  Calls = 4
SPECIFICATION Spec
INVARIANTS
  TypeOK
  DirectoriesMatchTheDisk
  OpenIsListedOnce
  StatusesAreTrue
  OneNodePerFile
PROPERTIES
  EveryCallReturns
CHECK_DEADLOCK FALSE
