SPECIFICATION FairSpec
CONSTANTS
  Machines <- AllMachines
  Requests <- AllRequests
  Waits = {0, 2}
  MaxRequests = 2
  MaxCores = 1
  TicksPerSecond = 2
  Starts <- Edges
  Formats <- BothFormats
  CurrentCentury = 20
  MaxInterrupts = 4
INVARIANTS RegistryFits OneShotOnce WaitNotEarly ClockRight
PROPERTIES RequestsKept ApicServes
CHECK_DEADLOCK FALSE
