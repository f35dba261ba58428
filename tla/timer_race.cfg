SPECIFICATION Spec
CONSTANTS
  Timers = {n1, n2, n3}
  Null = Null
  Fires = {0, 1, 3}
  MaxTick = 3
INVARIANTS TimersConserved
CHECK_DEADLOCK FALSE
