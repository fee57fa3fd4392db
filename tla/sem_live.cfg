SPECIFICATION LiveSpec
CONSTANTS
  NULL = NULL
  i = i
  a = a
  b = b
  c = c
  Task <- FourTasks
  Role <- Mixed
  Idle = i
  Value = 0
  Slots = 2
  CountBound = 2
  Hal = "generic"
  Preemptive = TRUE
PROPERTIES EveryWaitReturns
