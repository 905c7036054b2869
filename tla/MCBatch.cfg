SPECIFICATION FairBatchSpec
CONSTANTS
  new = new
  old = old
  Candidate = {1, 2}
  Record <- OwnRecord
  Updates = {2}
  MaxItems = 2
  Answers = {1}
  Finalizer = {f1, f2}
  f1 = f1
  f2 = f2
  MaxRuns = 2
  MaxTrouble = 1
CONSTRAINT OneDisturbance
INVARIANTS
  NoMixedRuns
  CandidateKept
PROPERTIES
  PublishedAsAccepted
  Settles
