\* The stat of a receipt fails once.
SPECIFICATION Spec
CONSTANTS
  Item = {1}
  MaxRev = 2
  FirstRevs = {1, 2}
  Content <- TwoRevisions
  Size <- Sizes2
  NoCopy = NoCopy
  MaxItems = 1
  MaxBytes = 2
  MaxRuns = 2
  Misread = {"receipt"}
  IngestRuns = TRUE
  MaxEdits = 1
  MaxFaults = 1
PROPERTIES ReceiptsKept
CHECK_DEADLOCK FALSE
