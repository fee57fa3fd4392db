SPECIFICATION Spec
CONSTANTS
  c = c
  Client = {c}
  MaxTimers = 2
  MaxTime = 3
  Period = {1, 2}
INVARIANTS NeverEarly KeepsPhase PassServesAll
CHECK_DEADLOCK FALSE
