CONSTANTS
  HeapStart = 8
  PageUnits = 3
  InitPages = 2
  MaxPages = 6
  MaxMerges = 2
  Requests <- MCRequests
SPECIFICATION Spec
CHECK_DEADLOCK FALSE
INVARIANTS
  TypeOK
  SoundUntilMerged
  LayoutUntilMerged
  LinksUntilMerged
  AnsweredWithinTwoExpansions
