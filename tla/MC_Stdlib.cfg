SPECIFICATION Spec
CONSTANTS
  MaxMembers = 20
  LONG_MAX = 31
  INT_MAX = 31
  Bases = {0, 4, 16}
  Radixes = {1, 2, 10, 16, 36, 37}
  MaxLength = 4
  Texts <- MCTexts
INVARIANTS ReadsExactly WritesNumber FindsKey
