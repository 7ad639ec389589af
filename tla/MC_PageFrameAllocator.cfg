CONSTANTS
  MemoryMaps <- MCMemoryMaps
  ClientRanges <- MCClientRanges
  LowPages = 1
  PageSize = 2
  CounterRange = 64
SPECIFICATION Spec
INVARIANTS
  TypeOK
  CursorInv
  Ownership
  CountersMatchBitmap
  HandedFramesAreConventional
PROPERTY
  ImplementsFramePool
