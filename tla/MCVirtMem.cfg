SPECIFICATION Spec
CONSTANTS
  c1 = c1
  c2 = c2
  Cores = {c1, c2}
  Bsp = c1
  v1 = v1
  v2 = v2
  none = none
  NoVm = none
  Vms = {v1, v2}
  Entries = 4
  PageSize <- ThreeLevels
  SizeLimit = 1024
  Large = {2, 3}
  BootMap <- PhysMap
  KernelMaps <- AllKernelMaps
  UserMaps <- AllUserMaps
  MaxTables = 5
SYMMETRY Symmetry
INVARIANTS SpacesSeparate KernelShared
PROPERTIES MapsExactly UnusedSpacesKeep
CHECK_DEADLOCK FALSE
