CONSTANTS
  Width = 2
  Height = 2
  LineSize = 1
  ScanCodes <- AllKeys
  BeyondTable <- Terminator
  Texts <- SameText
  Positions <- NoPositions
SPECIFICATION Spec
INVARIANT GetcReturnsEcho
