SPECIFICATION MCSpec
CONSTANTS
  MemoryMaps <- SmallMaps
  Available = 1
  LowEnd = 4
  KernelStart = 4
  KernelEnd = 7
  BtmLevel = 2
  Madts <- AllMadts
  Vectors = {40, 41}
  FirstVector = 32
  Lines = {0, 1, 2, 3}
  Buses <- SomeBuses
  LastSlot = 5
  DevicesPerBus = 3
  FunctionsPerDevice = 3
  Rsdps <- SomeRsdps
  Absent = Absent
  Intel = 8086
  IgfxIds = {5}
  Monitors <- AllMonitors
  NoMonitor = NoMonitor
  Chunks = 3
  MaxPlugs = 2
INVARIANT OnlyFreeRegions
CHECK_DEADLOCK FALSE
