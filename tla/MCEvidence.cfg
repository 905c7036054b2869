\* One legacy package, rebuilt in the same size, the workflow and the operator at once,
\* two failed calls or runs that die.
SPECIFICATION FairSpec
CONSTANTS
  p1 = p1
  p2 = p2
  Package = {p1}
  RevOf <- SameSize
  Legacy = {p1}
  MaxRuns = 2
  MaxFaults = 2
INVARIANT BoundToEvidence
PROPERTIES CandidateOnce OldKept Indexed
CHECK_DEADLOCK FALSE
