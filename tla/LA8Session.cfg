SPECIFICATION Spec
CONSTANTS
  n = 2
  m = 2
  MaxRequests <- TwoTwo
  TOTAL <- TwoByTwoTotal
  MAX_NEED <- TwoByTwoNeed
INVARIANTS
  TypeOK
  RequestStable
  NoLostSignal
  OneRequestPerSleeper
  BooksBalance
  GrantedBeforeProceeding
  StaysSafe
  AgreesWithDefinition
  PassedOverOnlyIfUnservable
PROPERTIES
  RunsToCompletion
  ImplementsAllocator
CHECK_DEADLOCK FALSE
