-------------------------- MODULE MCCandidateCycle --------------------------
(* Instances of CandidateCycle for TLC.                                     *)
EXTENDS CandidateCycle, TLC

\* A good new record, a broad one, and one without a source.
Good == [decision |-> "VALIDATED_NEW", evidence |-> "HIGH", probed |-> 1, sources |-> 1,
         match |-> FALSE, subjects |-> 1]
Broad == [Good EXCEPT !.subjects = 2]
Unread == [Good EXCEPT !.sources = 0]

\* The owner's file 1 is broad (1) or narrow (2); 1 is split into 3 and 4.
BroadOrNarrow == {<<1, 1>>, <<1, 2>>}
TwoChildren == 1 :> {<<2, 3>>, <<3, 4>>}
SomeAnswers == 1 :> {Broad, Good} @@ 2 :> {Good} @@ 3 :> {Unread} @@ 4 :> {Good}
SameTextTwice == {<<1, 2>>, <<2, 2>>}
Nothing == {}
LastOne == {4}
=============================================================================
