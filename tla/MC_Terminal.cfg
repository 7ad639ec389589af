CONSTANTS
  Width = 2
  Height = 2
  LineSize = 1
  ScanCodes <- AllKeys
  BeyondTable <- Terminator
  Texts <- SameText
  Positions <- NoPositions
SPECIFICATION FairSpec
INVARIANTS
  TypeOK
  OneEchoPerRead
  ScreenShowsBuffer
  BottomRowIsLine
PROPERTIES
  EchoesOnlyIntoSpin
  GetcReturns
