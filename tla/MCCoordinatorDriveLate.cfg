\* Drive backend under the Actions concurrency group: one run at a time, but a
\* write may land after its sender has given up on it.
SPECIFICATION Spec
CONSTANTS
  r1 = r1
  r2 = r2
  r3 = r3
  idA = idA
  idB = idB
  NoIdentity = NoIdentity
  Client = {r1, r2}
  Identity = {idA, idB}
  IdentityOf <- Distinct
  Backend = "drive"
  SerialRuns = TRUE
  LateWrites = TRUE
  MaxGeneration = 4
INVARIANTS HolderExact
CHECK_DEADLOCK FALSE
