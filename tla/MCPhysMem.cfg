SPECIFICATION Spec
CONSTANTS
  MaxEntries = 4
  Sz = 5
  MemoryMap <- TwoRegions
  MemorySize = 16
  BtmLevel = 2
  DmaSizes = {3, 4}
INVARIANTS CountsExact NoSharedPage NoLostPage
PROPERTY AllocFindsFit
CHECK_DEADLOCK FALSE
