\* A death, a displaced or a manual run, revisions under a running worker; and
\* every revision that stays is completed, whatever happened before.
SPECIFICATION FairSpec
CONSTANTS
  Item = {1, 2}
  MaxRev = 2
  FirstRevs = {1}
  Content <- TwoRevisions
  Size <- Sizes2
  NoCopy = NoCopy
  MaxItems = 1
  MaxBytes = 2
  MaxRuns = 2
  Misread <- Nowhere
  IngestRuns = TRUE
  MaxEdits = 1
  MaxFaults = 1
INVARIANTS
  CompletedDelivered
  BaselineNeverQueued
  NoDispatchLoop
PROPERTIES
  Drained
CHECK_DEADLOCK FALSE
