SPECIFICATION Spec
CONSTANTS
  BITS_PER_LONG = 12
  BITS_PER_INT = 6
  SYS_MAX_NODE = 30
  MaxNodes = {0, 1, 2, 4, 7, 12, 13, 14}
  Cases <- MCCases
INVARIANTS
  TypeOK
  NoFlake
  PassIsEarned
  MaskFits
  Released
