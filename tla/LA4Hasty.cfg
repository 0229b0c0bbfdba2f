SPECIFICATION Spec
CONSTANTS
  Puzzles <- OnePuzzle
  SolutionOf <- Completed
  Users <- HastyUser
INVARIANTS
  PlayIsConsistent
