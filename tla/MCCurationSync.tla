----------------------------- MODULE MCCurationSync -----------------------------
(* Instances of CurationSync for TLC.                                       *)
EXTENDS CurationSync, TLC

CONSTANTS p1, p2

Two == <<p1, p2>>

\* Both records have one path, or each its own.
SharedPath == [p \in {p1, p2} |-> "shared"]
=============================================================================
