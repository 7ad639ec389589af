CONSTANTS
  Machines <- MCMachines
  LowPages = 1
  PageSize = 2
  CounterRange = 64
  Fanout = 4
  HeapPage = 64
  InitPages = 2
  MaxHeapPages = 12
SPECIFICATION Spec
CHECK_DEADLOCK FALSE
INVARIANTS
  TypeOK
  EachFrameHasOneUse
  SwitchIsSafe
  FailsOnlyWhenMappedUsedUp
PROPERTY
  MapsOnePage
