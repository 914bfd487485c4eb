SPECIFICATION Spec
CONSTANTS
  MREMAP_RANGE_SIZE = 2
  MREMAP_RANGE_LARGE_SIZE = 3
  SPACE = 18
  Cases <- MCCases
INVARIANTS
  TypeOK
  LayoutHolds
  NoFlake
  HandledAtProbe
  PassIsEarned
