SPECIFICATION Spec
CONSTANTS
  n = 3
  Files <- ThreeTasks
  Quanta <- ThreeQuanta
  PROC_LIMIT = 4
INVARIANTS
  OnePlacePerTask
  EventsInOrder
  TimesAddUp
  SimulationsAgree
