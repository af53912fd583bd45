SPECIFICATION FairSpec
CONSTANTS
  bsp = bsp
  ap = ap
  h1 = h1
  h2 = h2
  NULL = NULL
  Core = {bsp, ap}
  Enabled = {bsp}
  LastVector = 5
  FirstIrq = 2
  HandlerCnt = 2
  Handler <- Handlers
  Requests <- SomeRequests
  Halting = {h2}
  Sources <- BspSources
  Faults <- PageFaults
  MaxCalls = 3
  MaxRaised = 2
INVARIANTS NoSelfDeadlock RegistrationsKept ExclusiveOnce FlagRestored
PROPERTIES StableWalk Acknowledged CallsEnd
CHECK_DEADLOCK FALSE
