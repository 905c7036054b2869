\* A read fails while the before-images are captured.
SPECIFICATION Spec
CONSTANTS
  p1 = p1
  p2 = p2
  NoRun = NoRun
  Cli = Cli
  Base = Base
  Nothing = Nothing
  Foreign = Foreign
  Run = {p1}
  NRecords = 2
  NIndexes = 1
  InitiallyAbsent = {}
  UncertainAt <- OnlyCapture
  CrashAt <- None
  ConcurrentRecovery = FALSE
  MaxForeign = 0
  MaxFaults = 2
INVARIANTS RollbackExact
CHECK_DEADLOCK FALSE
