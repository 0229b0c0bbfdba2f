CONSTANT n = 3
SPECIFICATION Spec
INVARIANTS OneRowAtATime ThrownToPlayers LastPlayerWins
PROPERTY GameGoesOn
CHECK_DEADLOCK FALSE
