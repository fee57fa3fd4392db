SPECIFICATION Spec
CONSTANTS
  i = i
  a = a
  b = b
  Task <- AllTasks
  MaxTasks = 3
  Boot <- ThreeTasks
  BootLevel <- MixedLevels
  Levels = {1, 3}
  NormalLevel = 3
  Delays = {1, 2}
  IMAX = 8
  Hal = "generic"
  Preemptive = TRUE
  LateTick = FALSE
  App <- SpinApp
INVARIANTS ContextsOwned BlockedNeverRuns AppIsPreemptible
PROPERTIES ImplementsScheduling
