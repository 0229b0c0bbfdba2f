SPECIFICATION MCSpec
CONSTANTS
  m = 2
  n = 3
  rtime <- DifferentTimes
INVARIANTS
  RidesMatchInBoth
  BarriersReadyInBoating
  CallsMatchInBoth
PROPERTIES
  TerminatesUnlessStranded
  BoatingImplementsJetty
CHECK_DEADLOCK FALSE
