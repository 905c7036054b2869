---------------------------- MODULE MCCoordinator ----------------------------
(* Instances of Coordinator for TLC.                                        *)
EXTENDS Coordinator, FiniteSets, TLC

CONSTANTS r1, r2, r3, idA, idB

\* Every run has an identity of its own (candidate_controlled_publish.py).
Distinct == r1 :> idA @@ r2 :> idB

\* Both runs present one identity: a recovery run acts under the owner that the
\* journal records, and the E3 owner is a constant of the program.
Twins == r1 :> idA @@ r2 :> idA

\* Two runs of one identity and one of another.
TwinsAndOther == r1 :> idA @@ r2 :> idA @@ r3 :> idB

\* Runs that present one identity are interchangeable.
SwapTwins == Permutations({r1, r2})

\* A push and one that is late: bound on the pushes that are under way.
FewInFlight == Cardinality(inflight) <= 2

=============================================================================
