CONSTANTS
  HeapStart = 8
  PageUnits = 3
  InitPages = 2
  MaxPages = 6
  MaxMerges = 1
  Requests <- MCRequests
SPECIFICATION Spec
CHECK_DEADLOCK FALSE
INVARIANT
  BlocksNeverOverlap
