\* Drive backend under the Actions concurrency group: one run at a time, two of
\* the three with one identity, and a write is decided by the time its sender
\* gives up on it.
SPECIFICATION Spec
CONSTANTS
  r1 = r1
  r2 = r2
  r3 = r3
  idA = idA
  idB = idB
  NoIdentity = NoIdentity
  Client = {r1, r2, r3}
  Identity = {idA, idB}
  IdentityOf <- TwinsAndOther
  Backend = "drive"
  SerialRuns = TRUE
  LateWrites = FALSE
  MaxGeneration = 3
INVARIANTS HolderExact BoundaryExact
PROPERTIES LeaseImplemented
CHECK_DEADLOCK FALSE
