--------------------------- MODULE MCIntakeSession ---------------------------
(* Instances of IntakeSession for TLC.                                      *)
EXTENDS IntakeSession, TLC

\* The revisions differ in their bytes.
TwoRevisions == 1 :> "x" @@ 2 :> "y"

\* One worker copies two items of the first revision, or one of the second.
Sizes2 == 1 :> 1 @@ 2 :> 2

Nowhere == {}
=============================================================================
