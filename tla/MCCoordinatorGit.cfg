\* Git backend, two concurrent runs under one identity, pushes that may land late.
SPECIFICATION Spec
CONSTANTS
  r1 = r1
  r2 = r2
  r3 = r3
  idA = idA
  idB = idB
  NoIdentity = NoIdentity
  Client = {r1, r2}
  Identity = {idA}
  IdentityOf <- Twins
  Backend = "git"
  SerialRuns = FALSE
  LateWrites = TRUE
  MaxGeneration = 4
CONSTRAINT FewInFlight
SYMMETRY SwapTwins
INVARIANTS HolderExact BoundaryExact
PROPERTIES LeaseImplemented
CHECK_DEADLOCK FALSE
