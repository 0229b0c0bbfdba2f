SPECIFICATION Spec
CONSTANTS
  n = 2
  m = 4
  s <- TwoArrays
  Keys <- FourKeys
  USER_FRAMES = 9
  NFFMIN = 1
  ESSENTIAL_PAGES = 1
  INTS_PER_PAGE = 1
  BITS = 2
  Weight <- TwoBits
INVARIANTS
  FramesConserved
PROPERTIES
  EvictsLeastRecentlyUsed
CHECK_DEADLOCK FALSE
