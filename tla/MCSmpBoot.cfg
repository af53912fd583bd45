SPECIFICATION FairSpec
CONSTANTS
  Lapics <- FourLapics
  Bsp = 0
  Delay = 2
INVARIANTS OwnMemory BootsAlone
PROPERTIES HandlersKept StartupDelayed Boots
