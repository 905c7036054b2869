\* A source that fails before another one, in one lane or in two.
SPECIFICATION FairSpec
CONSTANTS
  s1 = s1
  s2 = s2
  NoSource = NoSource
  Source = {s1, s2}
  Name <- OwnNames
  Age <- Ages
  Kinds <- Mixed
  MaxBatch <- Batches
  MaxRetries = 2
  Retention = 1
  Grace = 1
  LostAcks = {TRUE, FALSE}
  MaxDay = 2
  MaxFaults = 2
INVARIANTS MovedIsPackaged PurgedInTime
PROPERTIES RetriesEnd QueuesDrain
CHECK_DEADLOCK FALSE
