\* The CLI recovers a run whose publisher is still alive.
SPECIFICATION Spec
CONSTANTS
  p1 = p1
  p2 = p2
  NoRun = NoRun
  Cli = Cli
  Base = Base
  Nothing = Nothing
  Foreign = Foreign
  Run = {p1, p2}
  NRecords = 2
  NIndexes = 1
  InitiallyAbsent = {}
  UncertainAt <- Answers
  CrashAt <- None
  ConcurrentRecovery = TRUE
  MaxForeign = 0
  MaxFaults = 1
PROPERTIES RestoreOwned
CHECK_DEADLOCK FALSE
