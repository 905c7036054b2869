\* A shortcut the parser dies of, before a spreadsheet; nothing else fails.
SPECIFICATION FairSpec
CONSTANTS
  s1 = s1
  s2 = s2
  NoSource = NoSource
  Source = {s1, s2}
  Name <- OwnNames
  Age <- Ages
  Kinds <- FatalLink
  MaxBatch <- Batches
  MaxRetries = 2
  Retention = 2
  Grace = 1
  LostAcks = {FALSE}
  MaxDay = 3
  MaxFaults = 0
PROPERTIES MalformedRejected
CHECK_DEADLOCK FALSE
