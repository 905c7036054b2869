-------------------------------- MODULE Lease --------------------------------
(***************************************************************************)
(* What candidate_production_coordinator.py promises its callers: one      *)
(* exclusive lease that moves FREE -> ACTIVE -> FREE, that records whether  *)
(* its holder has crossed the canonical write boundary, and that is never   *)
(* given back as a clean pre-write abort once the holder has crossed it.    *)
(* Every step is atomic here; Coordinator splits each one into the remote   *)
(* reads, compares, pushes and readbacks of the code.                       *)
(***************************************************************************)
EXTENDS Naturals

CONSTANTS
  Identity,    \* (transaction, batch, owner, journal path) quadruples
  NoIdentity   \* the lease is free

VARIABLES
  holder,      \* the identity that owns the lease, or NoIdentity
  written,     \* the holder has crossed the canonical write boundary
  outcome,     \* how the last holder gave the lease back
  epoch        \* number of changes the lease has gone through

leaseVars == <<holder, written, outcome, epoch>>

Terminal == {"VERIFIED_COMMITTED", "VERIFIED_RECOVERED"}

Init ==
  /\ holder = NoIdentity
  /\ written = FALSE
  /\ outcome = "none"
  /\ epoch = 0

Acquire(i) ==
  /\ holder = NoIdentity
  /\ holder' = i
  /\ outcome' = "none"
  /\ epoch' = epoch + 1
  /\ UNCHANGED written

StartWriting ==
  /\ holder # NoIdentity
  /\ ~written
  /\ written' = TRUE
  /\ epoch' = epoch + 1
  /\ UNCHANGED <<holder, outcome>>

Abort ==
  /\ holder # NoIdentity
  /\ ~written
  /\ holder' = NoIdentity
  /\ outcome' = "PREWRITE_ABORT_VERIFIED"
  /\ epoch' = epoch + 1
  /\ UNCHANGED written

Finish(reason) ==
  /\ holder # NoIdentity
  /\ written
  /\ holder' = NoIdentity
  /\ written' = FALSE
  /\ outcome' = reason
  /\ epoch' = epoch + 1

Next ==
  \/ \E i \in Identity : Acquire(i)
  \/ StartWriting
  \/ Abort
  \/ \E reason \in Terminal : Finish(reason)

Spec == Init /\ [][Next]_leaseVars
=============================================================================
