--------------------------- MODULE MCStandbyStorage ---------------------------
(* Instances of StandbyStorage for TLC.                                     *)
EXTENDS StandbyStorage, TLC

CONSTANTS x1, x2
Items == {x1, x2}
=============================================================================
