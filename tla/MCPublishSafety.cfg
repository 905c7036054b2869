\* Two publishers, any answer lost or wrong, crashes anywhere, recovery by the CLI,
\* one write to the library by somebody else.
SPECIFICATION Spec
CONSTANTS
  p1 = p1
  p2 = p2
  NoRun = NoRun
  Cli = Cli
  Base = Base
  Nothing = Nothing
  Foreign = Foreign
  Run = {p1, p2}
  NRecords = 2
  NIndexes = 2
  InitiallyAbsent = {2}
  UncertainAt <- Answers
  CrashAt <- Anywhere
  ConcurrentRecovery = FALSE
  MaxForeign = 1
  MaxFaults = 4
SYMMETRY Runs
INVARIANTS RollbackExact
PROPERTIES PublicationAtomic CommittedIsFinal
CHECK_DEADLOCK FALSE
