\* Two videos of one name.
SPECIFICATION Spec
CONSTANTS
  s1 = s1
  s2 = s2
  NoSource = NoSource
  Source = {s1, s2}
  Name <- SameName
  Age <- Ages
  Kinds <- GoodVideos
  MaxBatch <- Batches
  MaxRetries = 2
  Retention = 2
  Grace = 1
  LostAcks = {FALSE}
  MaxDay = 0
  MaxFaults = 0
INVARIANTS PurgedInTime
CHECK_DEADLOCK FALSE
