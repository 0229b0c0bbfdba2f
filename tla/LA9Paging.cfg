SPECIFICATION Spec
CONSTANTS
  totalProcesses = 3
  Inputs <- SmallInputs
  USER_FRAMES = 6
  ESSENTIAL_PAGES = 2
  INTS_PER_PAGE = 1
INVARIANT FramesConserved
PROPERTY EverySearchIsMade
\* The simulation ends.
CHECK_DEADLOCK FALSE
