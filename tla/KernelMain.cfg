CONSTANTS
  Machines <- MCMachines
  DeviceCount = 2
  FunctionCount = 3
  BusWord = 4
  Null = Null
  Garbage = Garbage
  Main = main
  PortCount = 3
  Cpu <- MCCpu
  BootCpu = "cpu 0"
  GdtSize = 10
  Nobody = Nobody
  Disk <- MCDisk
  Size <- MCSize
  Word = 8
  RootFile <- MCRootFile
  ApuFile <- MCApuFile
  Calls = 9
  Sectors = 2
SPECIFICATION Spec
INVARIANTS
  PagesAreTheFunctions
  InterruptFindsTheDevice
  OneCpuAtATime
  StacksAndSegmentsAreOwn
  NoNodeDiesInUse

  
CHECK_DEADLOCK FALSE
