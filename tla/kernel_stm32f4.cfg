SPECIFICATION FLiveSpec
CONSTANTS
  i = i
  a = a
  b = b
  Task <- AllTasks
  MaxTasks = 3
  Boot <- ThreeTasks
  BootLevel <- MixedLevels
  Levels = {1, 3}
  NormalLevel = 3
  Delays = {2}
  IMAX = 8
  Hal = "stm32f4"
  Preemptive = TRUE
  LateTick = FALSE
  App <- FairApp
INVARIANTS OneRunner ContextsOwned BlockedNeverRuns PanicOnlyWhenNoneReady BoundedBypass BypassBudget
PROPERTIES DelayExpires ReadyRuns
