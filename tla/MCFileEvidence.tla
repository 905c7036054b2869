--------------------------- MODULE MCFileEvidence ---------------------------
(* Instances of FileEvidence for TLC.                                       *)
EXTENDS FileEvidence, TLC

CONSTANTS p1, p2

\* p1 is rebuilt in the same size, or in another; p2 is not rebuilt.
SameSize == p1 :> <<1, 1>>
OtherSize == p1 :> <<1, 2>>
Two == SameSize @@ p2 :> <<1>>
=============================================================================
