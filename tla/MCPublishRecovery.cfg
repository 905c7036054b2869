\* Stopped runs are recovered: updates only, every step up to the durable journal
\* and the boundary are answered, no crash before the journal is durable.
SPECIFICATION FairSpec
CONSTANTS
  p1 = p1
  p2 = p2
  NoRun = NoRun
  Cli = Cli
  Base = Base
  Nothing = Nothing
  Foreign = Foreign
  Run = {p1, p2}
  NRecords = 2
  NIndexes = 2
  InitiallyAbsent = {}
  UncertainAt <- CertainLease
  CrashAt <- AfterJournal
  ConcurrentRecovery = FALSE
  MaxForeign = 0
  MaxFaults = 4
INVARIANTS BoundaryAgreement
PROPERTIES LeaseReturned
CHECK_DEADLOCK FALSE
