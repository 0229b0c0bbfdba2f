SPECIFICATION Spec
CONSTANTS
  Puzzles <- OnePuzzle
  SolutionOf <- Completed
  Users <- FiveUsers
INVARIANTS
  PatientPlayIsConsistent
  BlocksIntact
  NobodyWaitsInVain
