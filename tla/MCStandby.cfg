\* Two files, markers that count for one run, four faults.
SPECIFICATION FairSpec
CONSTANTS
  x1 = x1
  x2 = x2
  Item <- Items
  MaxAge = 1
  MaxFaults = 4
INVARIANTS Kept
PROPERTIES WorkKept FailoverFresh Processed
