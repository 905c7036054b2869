----------------------------- MODULE MCCloudCycle -----------------------------
(* Instances of CloudCycle for TLC.                                         *)
EXTENDS CloudCycle, TLC

\* E3 accepts what E2 has accepted.
Accepted == {"write", "nowrite"}
Anything == {"write", "nowrite", "unfit", "broken"}
=============================================================================
