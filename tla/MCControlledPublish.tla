------------------------- MODULE MCControlledPublish -------------------------
(* Instances of ControlledPublish for TLC.                                  *)
EXTENDS ControlledPublish, TLC

CONSTANTS p1, p2

\* Every step whose answer may be lost or wrong, except the failed read during
\* the capture of before-images.
Answers ==
  {"acquire", "revalidate", "arm", "journal", "mark", "write", "verify", "receipt",
   "release", "release_unarmed", "restore"}

\* Without the answers after which a run may leave a lease that no recovery
\* returns: those before the journal is durable, and the boundary.
CertainLease == Answers \ {"acquire", "arm", "release_unarmed", "mark"}

OnlyMark == {"mark"}
OnlyCapture == {"capture", "verify"}
None == {}

Anywhere == Point

\* From the durable journal on.
AfterJournal ==
  Point \ {"acquire", "owned", "revalidated", "captured", "abort", "release_abort"}
BeforeJournal == {"owned", "revalidated", "captured"}
Writing == {"writing"}

Runs == Permutations({p1, p2})
=============================================================================
