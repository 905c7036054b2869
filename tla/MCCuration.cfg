SPECIFICATION FairSpec
CONSTANTS
  p1 = p1
  p2 = p2
  Ids <- Two
  Target <- SharedPath
  MaxRev = 2
  Window = 2
  MaxHandoff = 2
  MaxState = 2
  MaxActs = 2
  MaxFaults = 1
PROPERTY HoldKept OwnerKept AnalyzedPublished Noticed
