CONSTANTS
  E = 4
  H = 1
  IntBits = 6
  Far = 12
  Dividends <- NearOne
  Divisors <- NearOne
SPECIFICATION FairSpec
PROPERTIES
  FmodReturns
