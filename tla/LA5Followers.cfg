CONSTANTS
  n = 2
  Procs = {p1, p2, p3}
  LeaderDraws = {1, 2}
  FollowerDraws = {1}
SPECIFICATION Spec
INVARIANTS FreshSums NobodyLeftBehind
PROPERTY GameEnds
CHECK_DEADLOCK FALSE
