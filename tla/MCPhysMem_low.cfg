SPECIFICATION Spec
CONSTANTS
  MaxEntries = 16
  Sz = 5
  MemoryMap <- EightPages
  MemorySize = 16
  BtmLevel = 2
  DmaSizes = {4}
INVARIANT OnlyManagedPages
CHECK_DEADLOCK FALSE
