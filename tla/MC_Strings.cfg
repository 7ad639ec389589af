CONSTANTS
  Size = 6
  ByteLimit = 3
  BlockSize = 4
  Garbage <- MC_Garbage
SPECIFICATION StringsSpec
INVARIANTS
  TypeOK
  ReadsAgree
PROPERTIES
  WritesExactly
  TokensBeginRight
CHECK_DEADLOCK FALSE
