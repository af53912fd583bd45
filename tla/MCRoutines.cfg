SPECIFICATION MCSpec
CONSTANTS
  Caller = {1, 2}
  AreaSize = 64
  Sizes = {1, 20}
  MaxEntries = 2
  Sz = 5
  Words = {0, 2, 3, 4, 6}
  First = {0, 2, 3}
  Length = 4
  Raised = {8, 9, 14, 40, 200}
  Thread = {0, 1}
  Devices <- SomeDevices
  Bases = {33, 36, 40}
INVARIANTS MsiRouted SortsInPlace LibraryRight FrameRestored
PROPERTIES Terminates Allocates
CHECK_DEADLOCK FALSE
