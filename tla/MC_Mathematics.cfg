CONSTANTS
  E = 4
  H = 2
  IntBits = 6
  Far = 12
  Dividends <- Short
  Divisors <- PositiveShort
SPECIFICATION FairSpec
INVARIANTS
  TypeOK
  PartsAreExact
  ResultsAreNearest
PROPERTIES
  RemainderIsExact
  FmodReturns
