SPECIFICATION Spec
CONSTANTS
  i = i
  a = a
  b = b
  Task <- AllTasks
  MaxTasks = 3
  Boot <- TwoTasks
  BootLevel <- MixedLevels
  Levels = {1, 3}
  NormalLevel = 3
  Delays = {1, 2}
  IMAX = 8
  Hal = "generic"
  Preemptive = FALSE
  LateTick = FALSE
  App <- CoopApp
INVARIANTS TypeOK OneRunner ContextsOwned BlockedNeverRuns PanicOnlyWhenNoneReady
PROPERTIES DelayHonoured ImplementsScheduling
