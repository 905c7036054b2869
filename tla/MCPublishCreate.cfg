\* A run that creates a record is killed while it writes.
SPECIFICATION FairSpec
CONSTANTS
  p1 = p1
  p2 = p2
  NoRun = NoRun
  Cli = Cli
  Base = Base
  Nothing = Nothing
  Foreign = Foreign
  Run = {p1}
  NRecords = 2
  NIndexes = 1
  InitiallyAbsent = {2}
  UncertainAt <- None
  CrashAt <- Writing
  ConcurrentRecovery = FALSE
  MaxForeign = 0
  MaxFaults = 1
PROPERTIES LeaseReturned
CHECK_DEADLOCK FALSE
