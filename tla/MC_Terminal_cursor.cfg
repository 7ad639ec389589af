CONSTANTS
  Width = 2
  Height = 2
  LineSize = 1
  ScanCodes <- PlainKeys
  BeyondTable <- Terminator
  Texts <- OtherText
  Positions <- Home
SPECIFICATION Spec
INVARIANT OverdrawnOnlyInLastRow
