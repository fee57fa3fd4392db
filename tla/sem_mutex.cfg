SPECIFICATION Spec
CONSTANTS
  NULL = NULL
  i = i
  a = a
  b = b
  c = c
  Task <- FourTasks
  Role <- Mutex
  Idle = i
  Value = 1
  Slots = 3
  CountBound = 2
  Hal = "generic"
  Preemptive = TRUE
INVARIANTS AtMostUnits NoLostWaiter NeverPanics
PROPERTIES ImplementsDijkstra
