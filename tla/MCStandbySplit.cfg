\* One call fails while the lock is read.
SPECIFICATION Spec
CONSTANTS
  x1 = x1
  x2 = x2
  Item <- Items
  MaxAge = 1
  MaxFaults = 3
INVARIANTS LockRespected
