----------------------------- MODULE MCCandidateBatch -----------------------------
(* Instances of CandidateBatch for TLC.                                     *)
EXTENDS CandidateBatch, TLC

CONSTANTS new, old, f1, f2

\* Candidate 1 proposes a new record; candidate 2 updates one there is.
OwnRecord == 1 :> new @@ 2 :> old

\* Two runs overlap or one thing fails.  Neither has to happen, so no behaviour that
\* must go on is cut off.
OneDisturbance == overlapped = {} \/ trouble = 0
=============================================================================
