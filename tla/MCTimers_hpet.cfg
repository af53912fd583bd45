SPECIFICATION FairSpec
CONSTANTS
  Machines <- HpetMachine
  Requests <- AllRequests
  Waits = {2}
  MaxRequests = 1
  MaxCores = 1
  TicksPerSecond = 2
  Starts <- Morning
  Formats <- Binary24
  CurrentCentury = 20
  MaxInterrupts = 3
PROPERTIES WaitEnds
CHECK_DEADLOCK FALSE
