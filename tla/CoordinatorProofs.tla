-------------------------- MODULE CoordinatorProofs --------------------------
(***************************************************************************)
(* Theorems about Coordinator, for any number of runs and identities and    *)
(* any bound on the generation.                                             *)
(***************************************************************************)
EXTENDS Coordinator, TLAPS

\* An operation that has passed its read: the version it started from admits
\* it, and what it pushes is the successor of that version.
Legal(op, base, new, i) ==
  /\ base \in Version /\ WellFormed(base)
  /\ Admits(op, base, i)
  /\ new = Successor(op, base, i)

Writing == {"prepare", "push", "answer", "acked", "rejected"}

CallsLegal ==
  \A c \in Client :
    /\ pc[c] \in Busy => call[c].op \in done[c]
    /\ pc[c] \in Writing =>
         Legal(call[c].op, call[c].base, call[c].next, IdentityOf[c])

PushLegal(m) ==
  /\ m.cas = (Backend = "git")
  /\ \/ m.op = "seed" /\ m.base = Absent /\ m.new = Seed
     \/ m.op \in done[m.from] /\ Legal(m.op, m.base, m.new, IdentityOf[m.from])

IInv == TypeOK /\ CallsLegal /\ \A m \in inflight : PushLegal(m)

-----------------------------------------------------------------------------
(* Lemmas about documents.                                                  *)

LEMMA SeedTypes ==
  /\ Absent \in Version /\ WellFormed(Absent)
  /\ Seed \in Version /\ WellFormed(Seed)
  BY DEF Absent, Seed, Free, Version, WellFormed, Reason

LEMMA SuccessorType ==
  ASSUME NEW op \in Op, NEW v \in Version, NEW i \in Identity
  PROVE  Successor(op, v, i) \in Version /\ WellFormed(Successor(op, v, i))
  <1>1. CASE op = "acquire"
    BY <1>1, CoordinatorAssumption
       DEF CoordinatorAssumption, Successor, Active, Version, WellFormed, Reason, Release
  <1>2. CASE op = "mark_canonical_write_started"
    BY <1>2, CoordinatorAssumption
       DEF CoordinatorAssumption, Successor, Active, Version, WellFormed, Reason, Release
  <1>3. CASE op \in Release
    <2>1. ReasonOf(op) \in Reason
      BY <1>3 DEF ReasonOf, Reason, Release
    <2>2. Successor(op, v, i) = Free(v.generation + 1, ReasonOf(op), i)
      BY <1>3 DEF Successor, Release
    <2>3. QED
      BY <2>1, <2>2 DEF Free, Version, WellFormed
  <1>4. QED
    BY <1>1, <1>2, <1>3 DEF Op

LEMMA LegalType ==
  ASSUME NEW op \in Op, NEW base, NEW new, NEW i \in Identity, Legal(op, base, new, i)
  PROVE  base \in Version /\ new \in Version /\ WellFormed(new)
  BY SuccessorType DEF Legal

LEMMA InitInv == Init => IInv
  <1> SUFFICES ASSUME Init PROVE IInv
    OBVIOUS
  <1>1. TypeOK
    BY SeedTypes DEF Init, TypeOK, NoCall
  <1>2. CallsLegal
    BY DEF Init, CallsLegal, Busy, Writing
  <1>3. QED
    BY <1>1, <1>2 DEF Init, IInv

-----------------------------------------------------------------------------
(* The invariant is preserved: first the steps of a run that leave the       *)
(* document and the pushes alone, then those that send a push, then the      *)
(* steps of the remote.                                                      *)

LEMMA CallInv ==
  ASSUME IInv, NEW c \in Client, NEW op \in Op, Call(c, op)
  PROVE  IInv'
  <1>1. TypeOK'
    <2>1. [op |-> op, base |-> Absent, next |-> Absent]
            \in [op : Op \cup {"none"}, base : Version, next : Version]
      BY SeedTypes
    <2>2. QED
      BY <2>1 DEF IInv, TypeOK, Call, Busy
  <1>2. CallsLegal'
    BY DEF IInv, TypeOK, CallsLegal, Call, Busy, Writing
  <1>3. (\A m \in inflight : PushLegal(m))'
    BY DEF IInv, TypeOK, Push, PushLegal, Call
  <1>4. QED
    BY <1>1, <1>2, <1>3 DEF IInv

\* Return, whatever it does to the run's beliefs.
LEMMA ReturnInv ==
  ASSUME IInv, NEW c \in Client, Return(c), UNCHANGED <<ref, inflight, done>>,
         holds' \in [Client -> BOOLEAN], marked' \in [Client -> BOOLEAN]
  PROVE  IInv'
  <1>1. TypeOK'
    BY SeedTypes DEF IInv, TypeOK, Return, NoCall, Busy
  <1>2. CallsLegal'
    BY DEF IInv, TypeOK, CallsLegal, Return, Busy, Writing
  <1>3. (\A m \in inflight : PushLegal(m))'
    BY DEF IInv, PushLegal
  <1>4. QED
    BY <1>1, <1>2, <1>3 DEF IInv

LEMMA ReturnOkInv ==
  ASSUME IInv, NEW c \in Client, ReturnOk(c)
  PROVE  IInv'
  BY ReturnInv DEF ReturnOk, IInv, TypeOK

LEMMA ReturnErrorInv ==
  ASSUME IInv, NEW c \in Client, ReturnError(c)
  PROVE  IInv'
  BY ReturnInv DEF ReturnError, IInv, TypeOK

LEMMA SeedInv ==
  ASSUME IInv, NEW c \in Client, SeedDocument(c)
  PROVE  IInv'
  <1> DEFINE m0 == [from |-> c, op |-> "seed", base |-> Absent, new |-> Seed,
                    cas |-> Backend = "git"]
  <1>1. m0 \in Push
    BY SeedTypes DEF Push
  <1>2. TypeOK'
    BY <1>1 DEF IInv, TypeOK, SeedDocument, Busy
  <1>3. CallsLegal'
    BY DEF IInv, TypeOK, CallsLegal, SeedDocument, Busy, Writing
  <1>4. PushLegal(m0)'
    BY DEF PushLegal
  <1>5. (\A m \in inflight : PushLegal(m))'
    BY <1>4 DEF IInv, PushLegal, SeedDocument
  <1>6. QED
    BY <1>2, <1>3, <1>5 DEF IInv

LEMMA ReadAdmittedInv ==
  ASSUME IInv, NEW c \in Client, ReadAdmitted(c)
  PROVE  IInv'
  <1> DEFINE op == call[c].op
             i == IdentityOf[c]
  <1>1. op \in Op /\ op \in done[c]
    BY DEF IInv, TypeOK, CallsLegal, ReadAdmitted, Busy
  <1>2. i \in Identity
    BY CoordinatorAssumption DEF CoordinatorAssumption
  <1>3. Legal(op, ref, Successor(op, ref, i), i) /\ Successor(op, ref, i) \in Version
    BY <1>1, <1>2, SuccessorType DEF Legal, IInv, TypeOK, ReadAdmitted
  <1>4. call' = [call EXCEPT ![c] = [op |-> op, base |-> ref, next |-> Successor(op, ref, i)]]
    BY DEF ReadAdmitted, IInv, TypeOK
  <1>5. TypeOK'
    BY <1>1, <1>3, <1>4 DEF IInv, TypeOK, ReadAdmitted, Busy
  <1>6. CallsLegal'
    BY <1>1, <1>3, <1>4 DEF IInv, TypeOK, CallsLegal, ReadAdmitted, Busy, Writing
  <1>7. (\A m \in inflight : PushLegal(m))'
    BY DEF IInv, PushLegal, ReadAdmitted
  <1>8. QED
    BY <1>5, <1>6, <1>7 DEF IInv

LEMMA PrepareInv ==
  ASSUME IInv, NEW c \in Client, Prepare(c)
  PROVE  IInv'
  <1>1. TypeOK'
    BY DEF IInv, TypeOK, Prepare, Busy
  <1>2. CallsLegal'
    BY DEF IInv, TypeOK, CallsLegal, Prepare, Busy, Writing
  <1>3. (\A m \in inflight : PushLegal(m))'
    BY DEF IInv, PushLegal, Prepare
  <1>4. QED
    BY <1>1, <1>2, <1>3 DEF IInv

LEMMA SendPushInv ==
  ASSUME IInv, NEW c \in Client, SendPush(c)
  PROVE  IInv'
  <1> DEFINE m0 == [from |-> c, op |-> call[c].op, base |-> call[c].base,
                    new |-> call[c].next, cas |-> Backend = "git"]
  <1>1. call[c].op \in done[c] /\ Legal(call[c].op, call[c].base, call[c].next, IdentityOf[c])
    BY DEF IInv, CallsLegal, SendPush, Busy, Writing
  <1>2. m0 \in Push
    BY <1>1 DEF IInv, TypeOK, Push
  <1>3. PushLegal(m0)'
    BY <1>1 DEF PushLegal, SendPush
  <1>4. TypeOK'
    BY <1>2 DEF IInv, TypeOK, SendPush, Busy
  <1>5. CallsLegal'
    BY DEF IInv, TypeOK, CallsLegal, SendPush, Busy, Writing
  <1>6. (\A m \in inflight : PushLegal(m))'
    BY <1>3 DEF IInv, PushLegal, SendPush
  <1>7. QED
    BY <1>4, <1>5, <1>6 DEF IInv

LEMMA EndInv ==
  ASSUME IInv, NEW c \in Client, End(c)
  PROVE  IInv'
  <1>1. TypeOK'
    BY SeedTypes DEF IInv, TypeOK, End, NoCall
  <1>2. CallsLegal'
    BY DEF IInv, TypeOK, CallsLegal, End, Busy, Writing
  <1>3. (\A m \in inflight : PushLegal(m))'
    BY DEF IInv, PushLegal, End
  <1>4. QED
    BY <1>1, <1>2, <1>3 DEF IInv

\* A push in flight is well typed and so is the document it carries.
LEMMA PushType ==
  ASSUME IInv, NEW m \in inflight
  PROVE  m \in Push /\ m.new \in Version /\ WellFormed(m.new)
  <1>1. m \in Push /\ PushLegal(m)
    BY DEF IInv, TypeOK
  <1>2. IdentityOf[m.from] \in Identity /\ done[m.from] \subseteq Op
    BY <1>1, CoordinatorAssumption DEF Push, CoordinatorAssumption, IInv, TypeOK
  <1>3. QED
    BY <1>1, <1>2, LegalType, SeedTypes DEF PushLegal

\* The remote only moves the sender from waiting for an answer to having one.
LEMMA AnsweredInv ==
  ASSUME IInv, NEW m \in inflight, NEW answer \in {"acked", "rejected"},
         pc' = Answered(m, answer), inflight' \subseteq inflight,
         UNCHANGED <<call, done, holds, marked>>,
         ref' \in Version, WellFormed(ref')
  PROVE  IInv'
  <1>1. m \in Push
    BY PushType
  <1>2. TypeOK'
    BY <1>1 DEF IInv, TypeOK, Answered, Busy, Push, WellFormed
  <1>3. CallsLegal'
    BY <1>1 DEF IInv, TypeOK, CallsLegal, Answered, Busy, Writing, Push
  <1>4. (\A n \in inflight : PushLegal(n))'
    BY DEF IInv, PushLegal
  <1>5. QED
    BY <1>2, <1>3, <1>4 DEF IInv

LEMMA ApplyInv ==
  ASSUME IInv, NEW m \in inflight, Apply(m)
  PROVE  IInv'
  BY PushType, AnsweredInv DEF Apply

LEMMA RejectInv ==
  ASSUME IInv, NEW m \in inflight, Reject(m)
  PROVE  IInv'
  BY AnsweredInv DEF Reject, IInv, TypeOK

LEMMA LoseInv ==
  ASSUME IInv, NEW m \in inflight, Lose(m)
  PROVE  IInv'
  BY DEF Lose, IInv, TypeOK, CallsLegal, PushLegal

LEMMA NextInv == IInv /\ [Next]_vars => IInv'
  <1> SUFFICES ASSUME IInv, [Next]_vars PROVE IInv'
    OBVIOUS
  <1>1. CASE \E c \in Client : \E op \in Op : Call(c, op)
    BY <1>1, CallInv
  <1>2. CASE \E c \in Client : SeedDocument(c)
    BY <1>2, SeedInv
  <1>3. CASE \E c \in Client : ReadRefused(c) \/ Fail(c)
    BY <1>3, ReturnErrorInv DEF ReadRefused, Fail
  <1>4. CASE \E c \in Client : ReadResumed(c) \/ Verified(c)
    BY <1>4, ReturnOkInv DEF ReadResumed, Verified
  <1>5. CASE \E c \in Client : ReadAdmitted(c)
    BY <1>5, ReadAdmittedInv
  <1>6. CASE \E c \in Client : Prepare(c)
    BY <1>6, PrepareInv
  <1>7. CASE \E c \in Client : SendPush(c)
    BY <1>7, SendPushInv
  <1>8. CASE \E c \in Client : End(c)
    BY <1>8, EndInv
  <1>9. CASE \E m \in inflight : Apply(m)
    BY <1>9, ApplyInv
  <1>10. CASE \E m \in inflight : Reject(m) \/ Lose(m)
    BY <1>10, RejectInv, LoseInv
  <1>11. CASE UNCHANGED vars
    BY <1>11 DEF vars, IInv, TypeOK, CallsLegal, PushLegal
  <1>12. QED
    BY <1>1, <1>2, <1>3, <1>4, <1>5, <1>6, <1>7, <1>8, <1>9, <1>10, <1>11 DEF Next

\* The inductive invariant: every call and every push in flight starts from a
\* well-formed version that admits it.  True of both backends.
THEOREM Inductive == Spec => []IInv
  BY InitInv, NextInv, PTL DEF Spec

\* Every variable keeps its type and the document stays well formed, whatever
\* the interleaving of runs, pushes and losses.
THEOREM TypeCorrect == Spec => []TypeOK
  <1>1. IInv => TypeOK
    BY DEF IInv
  <1>2. QED
    BY Inductive, <1>1, PTL
-----------------------------------------------------------------------------
(* What keeps a push from landing on a version it was not computed from: the *)
(* Git backend compares at the server, and over Drive the runs are serial    *)
(* and a push is decided by the time its sender gives up on it.              *)

Fenced == Backend = "git" \/ (SerialRuns /\ ~LateWrites)

\* Over Drive the pushes in flight are those of the one run that is live, and the
\* document has not changed since it compared: a seed is of a missing document, and
\* the sender of any other push still waits for its answer.
Ordered ==
  Backend = "drive" =>
    /\ \A c, d \in Client : Live(c) /\ Live(d) => c = d
    /\ \A m \in inflight :
         /\ Live(m.from) /\ m.base = ref
         /\ m.op # "seed" =>
              /\ pc[m.from] = "answer"
              /\ call[m.from] = [op |-> m.op, base |-> m.base, next |-> m.new]

\* There is one missing document.
AbsentOnce == ref.state = "ABSENT" => ref = Absent

FencedInv == IInv /\ AbsentOnce /\ Ordered

\* Whatever admits an operation is not a missing document.
LEMMA AdmittedThere ==
  ASSUME NEW op \in Op, NEW v, NEW i, Admits(op, v, i)
  PROVE  v.state # "ABSENT"
  BY DEF Admits, HeldBy, Op, Release

\* A push of a missing document is its seed.
LEMMA SeedOrNot ==
  ASSUME IInv, NEW m \in inflight
  PROVE  /\ m \in Push /\ PushLegal(m)
         /\ m.op # "seed" =>
              m.op \in Op /\ m.base.state # "ABSENT"
         /\ m.op = "seed" => m.base = Absent /\ m.new = Seed /\ m.base.state = "ABSENT"
  <1>1. m \in Push /\ PushLegal(m)
    BY PushType DEF IInv
  <1>2. CASE m.op = "seed" /\ m.base = Absent /\ m.new = Seed
    BY <1>1, <1>2 DEF Absent, Free
  <1>3. CASE m.op \in done[m.from] /\ Legal(m.op, m.base, m.new, IdentityOf[m.from])
    <2>1. m.op \in Op
      BY <1>1, <1>3 DEF IInv, TypeOK, Push
    <2>2. m.base.state # "ABSENT"
      BY <1>3, <2>1, AdmittedThere DEF Legal
    <2>3. QED
      BY <1>1, <2>1, <2>2 DEF Op, Release
  <1>4. QED
    BY <1>1, <1>2, <1>3 DEF PushLegal

\* Only one push is in flight over Drive.
LEMMA OnePush ==
  ASSUME FencedInv, Backend = "drive", NEW m \in inflight, NEW n \in inflight
  PROVE  m = n
  <1>1. /\ m \in Push /\ n \in Push
        /\ m.cas = n.cas
    BY SeedOrNot DEF FencedInv, PushLegal
  <1>2. m.from = n.from /\ m.base = n.base
    BY <1>1 DEF FencedInv, Ordered, Push
  <1>3. CASE m.op = "seed"
    <2>1. n.op = "seed" /\ n.new = m.new
      BY <1>2, <1>3, SeedOrNot DEF FencedInv
    <2>2. QED
      BY <1>1, <1>2, <1>3, <2>1 DEF Push
  <1>4. CASE m.op # "seed"
    <2>1. n.op # "seed"
      BY <1>2, <1>4, SeedOrNot DEF FencedInv
    <2>2. /\ call[m.from] = [op |-> m.op, base |-> m.base, next |-> m.new]
          /\ call[n.from] = [op |-> n.op, base |-> n.base, next |-> n.new]
      BY <1>4, <2>1 DEF FencedInv, Ordered
    <2>3. m.op = n.op /\ m.new = n.new
      BY <1>2, <2>2
    <2>4. QED
      BY <1>1, <1>2, <2>3 DEF Push
  <1>5. QED
    BY <1>3, <1>4

\* What a run that is at work has called, and the operation of its call.
LEMMA AtWork ==
  ASSUME IInv, NEW c \in Client, pc[c] \in Busy
  PROVE  Live(c) /\ done[c] # {} /\ call[c].op \in Op /\ call[c].op \in done[c]
  BY DEF IInv, TypeOK, CallsLegal, Live, Busy

\* A step of the live run that sends nothing and leaves the document alone.
LEMMA OrderedQuiet ==
  ASSUME FencedInv, NEW c \in Client, Live(c), UNCHANGED <<ref, inflight, done>>,
         \A d \in Client \ {c} : pc'[d] = pc[d] /\ call'[d] = call[d],
         \/ pc[c] # "answer" /\ pc'[c] # "ended"
         \/ \A m \in inflight : m.from # c
  PROVE  Ordered'
  <1> SUFFICES ASSUME Backend = "drive" PROVE Ordered'
    BY DEF Ordered
  <1>1. ASSUME NEW d \in Client, Live(d)' PROVE d = c
    <2>1. d # c => Live(d)
      BY <1>1 DEF Live
    <2>2. QED
      BY <2>1 DEF FencedInv, Ordered
  <1>2. ASSUME NEW m \in inflight
        PROVE  /\ Live(m.from)' /\ m.base = ref'
               /\ m.op # "seed" =>
                    /\ pc'[m.from] = "answer"
                    /\ call'[m.from] = [op |-> m.op, base |-> m.base, next |-> m.new]
    <2>1. m \in Push /\ m.from \in Client
      BY SeedOrNot DEF FencedInv, Push
    <2>2. m.from = c /\ m.base = ref
      BY <2>1 DEF FencedInv, Ordered
    <2>3. pc[c] # "answer" /\ pc'[c] # "ended"
      BY <2>2
    <2>4. m.op = "seed"
      BY <2>2, <2>3 DEF FencedInv, Ordered
    <2>5. done[c] # {}
      BY AtWork DEF FencedInv, IInv, TypeOK, Live
    <2>6. QED
      BY <2>2, <2>3, <2>4, <2>5 DEF Live
  <1>3. QED
    BY <1>1, <1>2 DEF Ordered

\* An operation starts when no other run is live and nothing of one is in flight.
LEMMA OrderedCall ==
  ASSUME FencedInv, Fenced, NEW c \in Client, NEW op \in Op, Call(c, op)
  PROVE  Ordered'
  <1> SUFFICES ASSUME Backend = "drive" PROVE Ordered'
    BY DEF Ordered
  <1>1. /\ \A d \in Client \ {c} : ~Live(d)
        /\ \A m \in inflight : m.from = c \/ m.from \notin Client
    BY DEF Fenced, Call, Alone
  <1>2. /\ pc' = [pc EXCEPT ![c] = "read"] /\ done'[c] # {} /\ pc[c] = "idle"
        /\ \A d \in Client \ {c} : done'[d] = done[d]
    BY DEF Call, FencedInv, IInv, TypeOK
  <1>3. Live(c)' /\ \A d \in Client \ {c} : ~Live(d)'
    BY <1>1, <1>2 DEF FencedInv, IInv, TypeOK, Live
  <1>4. ASSUME NEW m \in inflight
        PROVE  m.from = c /\ m.base = ref /\ m.op = "seed"
    <2>1. m.from \in Client
      BY SeedOrNot DEF FencedInv, Push
    <2>2. QED
      BY <1>1, <1>2, <2>1 DEF FencedInv, Ordered
  <1>5. UNCHANGED <<ref, inflight>>
    BY DEF Call
  <1>6. QED
    BY <1>3, <1>4, <1>5 DEF Ordered

\* The live run sends a push: nothing else is in flight, unless it is the same seed.
LEMMA OrderedSend ==
  ASSUME FencedInv, Fenced, NEW c \in Client, SeedDocument(c) \/ SendPush(c)
  PROVE  Ordered'
  <1> SUFFICES ASSUME Backend = "drive" PROVE Ordered'
    BY DEF Ordered
  <1>1. pc[c] \in Busy /\ pc[c] # "answer"
    BY DEF SeedDocument, SendPush, Busy
  <1>2. Live(c) /\ done[c] # {}
    BY <1>1, AtWork DEF FencedInv
  <1>3. \A d \in Client \ {c} : ~Live(d)
    BY <1>2 DEF FencedInv, Ordered
  <1>4. /\ \A d \in Client \ {c} : pc'[d] = pc[d]
        /\ UNCHANGED <<ref, done, call>>
        /\ pc'[c] \in {"seeded", "answer"}
    BY DEF SeedDocument, SendPush, FencedInv, IInv, TypeOK
  <1>5. Live(c)' /\ \A d \in Client \ {c} : ~Live(d)'
    BY <1>2, <1>3, <1>4 DEF Live
  <1>6. ASSUME NEW n \in inflight
        PROVE  n.from = c /\ n.base = ref /\ n.op = "seed" /\ ref.state = "ABSENT"
    <2>1. n.from \in Client
      BY SeedOrNot DEF FencedInv, Push
    <2>2. n.from = c /\ n.base = ref
      BY <1>3, <2>1 DEF FencedInv, Ordered
    <2>3. n.op = "seed"
      BY <1>1, <2>2 DEF FencedInv, Ordered
    <2>4. QED
      BY <2>2, <2>3, SeedOrNot DEF FencedInv
  <1>7. CASE SeedDocument(c)
    <2>1. ref = Absent
      BY <1>7 DEF SeedDocument, FencedInv, AbsentOnce
    <2>2. \A n \in inflight' : n.from = c /\ n.base = ref' /\ n.op = "seed"
      BY <1>4, <1>6, <1>7, <2>1 DEF SeedDocument
    <2>3. QED
      BY <1>5, <2>2 DEF Ordered
  <1>8. CASE SendPush(c)
    <2>1. ref = call[c].base /\ pc[c] = "push"
      BY <1>8 DEF SendPush
    <2>2. call[c].op \in Op /\ Legal(call[c].op, call[c].base, call[c].next, IdentityOf[c])
      BY <2>1, AtWork DEF FencedInv, IInv, CallsLegal, Busy, Writing
    <2>3. ref.state # "ABSENT"
      BY <2>1, <2>2, AdmittedThere DEF Legal
    <2>4. inflight = {}
      BY <1>6, <2>3
    <2>5. /\ call[c] = [op |-> call[c].op, base |-> call[c].base, next |-> call[c].next]
          /\ pc'[c] = "answer"
      BY <1>8 DEF SendPush, FencedInv, IInv, TypeOK
    <2>6. \A n \in inflight' :
            /\ n.from = c /\ n.base = ref'
            /\ call'[c] = [op |-> n.op, base |-> n.base, next |-> n.new]
      BY <1>4, <1>8, <2>1, <2>4, <2>5 DEF SendPush
    <2>7. QED
      BY <1>5, <2>5, <2>6 DEF Ordered
  <1>9. QED
    BY <1>7, <1>8

\* The remote decides a push: over Drive no other is left.
LEMMA OrderedRemote ==
  ASSUME FencedInv, NEW m \in inflight, Apply(m) \/ Reject(m) \/ Lose(m)
  PROVE  Ordered'
  <1> SUFFICES ASSUME Backend = "drive" PROVE Ordered'
    BY DEF Ordered
  <1>1. inflight' = {}
    BY OnePush DEF Apply, Reject, Lose
  <1>2. \A d \in Client : Live(d)' => Live(d)
    BY SeedOrNot DEF Apply, Reject, Lose, Answered, Live, FencedInv, IInv, TypeOK, Push
  <1>3. QED
    BY <1>1, <1>2 DEF FencedInv, Ordered

\* Every step keeps the pushes of serial runs in order.
LEMMA OrderedInv ==
  ASSUME FencedInv, Fenced, [Next]_vars
  PROVE  Ordered'
  <1>1. CASE \E c \in Client : \E op \in Op : Call(c, op)
    BY <1>1, OrderedCall
  <1>2. CASE \E c \in Client : SeedDocument(c) \/ SendPush(c)
    BY <1>2, OrderedSend
  <1>3. CASE \E c \in Client : ReadRefused(c) \/ ReadResumed(c) \/ ReadAdmitted(c)
                               \/ Prepare(c) \/ Verified(c)
    <2>1. PICK c \in Client : ReadRefused(c) \/ ReadResumed(c) \/ ReadAdmitted(c)
                              \/ Prepare(c) \/ Verified(c)
      BY <1>3
    <2>2. pc[c] \in Busy /\ pc[c] # "answer"
      BY <2>1 DEF ReadRefused, ReadResumed, ReadAdmitted, Prepare, Verified, Busy
    <2>3. /\ UNCHANGED <<ref, inflight, done>> /\ pc'[c] # "ended"
          /\ \A d \in Client \ {c} : pc'[d] = pc[d] /\ call'[d] = call[d]
      BY <2>1 DEF ReadRefused, ReadResumed, ReadAdmitted, Prepare, Verified, ReturnOk,
                  ReturnError, Return, FencedInv, IInv, TypeOK
    <2>4. QED
      BY <2>2, <2>3, AtWork, OrderedQuiet DEF FencedInv
  <1>4. CASE \E c \in Client : Fail(c) \/ End(c)
    <2>1. PICK c \in Client : Fail(c) \/ End(c)
      BY <1>4
    <2>2. /\ UNCHANGED <<ref, inflight, done>>
          /\ \A d \in Client \ {c} : pc'[d] = pc[d] /\ call'[d] = call[d]
      BY <2>1 DEF Fail, End, ReturnError, Return, FencedInv, IInv, TypeOK
    <2>3. Live(c)
      BY <2>1, AtWork DEF Fail, End, FencedInv
    <2>4. CASE Backend = "drive"
      <3>1. \A m \in inflight : m.from # c
        BY <2>1, <2>4 DEF Fail, End, Fenced
      <3>2. QED
        BY <2>2, <2>3, <3>1, OrderedQuiet
    <2>5. QED
      BY <2>4 DEF Ordered
  <1>5. CASE \E m \in inflight : Apply(m) \/ Reject(m) \/ Lose(m)
    BY <1>5, OrderedRemote
  <1>6. CASE UNCHANGED vars
    BY <1>6 DEF vars, FencedInv, Ordered, Live
  <1>7. QED
    BY <1>1, <1>2, <1>3, <1>4, <1>5, <1>6 DEF Next

\* The document changes only by an admitted push from the very version it replaces.
LEMMA RefStep ==
  ASSUME FencedInv, [Next]_vars, ref' # ref
  PROVE  \E m \in inflight :
           /\ m \in Push /\ PushLegal(m)
           /\ m.base = ref /\ m.new = ref'
           /\ UNCHANGED <<done, holds, marked>>
  <1>1. PICK m \in inflight : Apply(m)
    BY DEF Next, vars, Call, SeedDocument, ReadRefused, ReadResumed, ReadAdmitted,
           Prepare, SendPush, Verified, Fail, End, Reject, Lose, ReturnOk, ReturnError
  <1>2. PushLegal(m) /\ m \in Push
    BY SeedOrNot DEF FencedInv
  <1>3. Backend = "git" \/ Backend = "drive"
    BY CoordinatorAssumption DEF CoordinatorAssumption
  <1>4. m.base = ref /\ m.new = ref'
    BY <1>1, <1>2, <1>3 DEF Apply, PushLegal, FencedInv, Ordered
  <1>5. QED
    BY <1>1, <1>2, <1>4 DEF Apply

\* No push makes the document disappear.
LEMMA AbsentOnceInv ==
  ASSUME FencedInv, [Next]_vars
  PROVE  AbsentOnce'
  <1>1. CASE ref' = ref
    BY <1>1 DEF FencedInv, AbsentOnce
  <1>2. CASE ref' # ref
    <2>1. PICK m \in inflight : m \in Push /\ PushLegal(m) /\ m.base = ref /\ m.new = ref'
      BY <1>2, RefStep
    <2>2. CASE m.new = Seed
      BY <2>1, <2>2 DEF Seed, Free, AbsentOnce
    <2>3. CASE m.op \in done[m.from] /\ Legal(m.op, m.base, m.new, IdentityOf[m.from])
      <3>1. m.op \in Op
        BY <2>1, <2>3 DEF FencedInv, IInv, TypeOK, Push
      <3>2. m.new.state # "ABSENT"
        BY <2>3, <3>1 DEF Legal, Successor, Active, Free, Op, Release
      <3>3. QED
        BY <2>1, <3>2 DEF AbsentOnce
    <2>4. QED
      BY <2>1, <2>2, <2>3 DEF PushLegal
  <1>3. QED
    BY <1>1, <1>2

\* Initially no run is live and nothing is in flight.
LEMMA FencedInit == Init => FencedInv
  BY InitInv DEF Init, FencedInv, AbsentOnce, Ordered, Live

LEMMA FencedNext ==
  ASSUME Fenced, FencedInv, [Next]_vars
  PROVE  FencedInv'
  BY NextInv, OrderedInv, AbsentOnceInv DEF FencedInv

\* The invariant that both backends share: with the fence, no push in flight is stale
\* when it lands.
THEOREM FencedInductive ==
  ASSUME Fenced
  PROVE  Spec => []FencedInv
  <1>1. FencedInv /\ [Next]_vars => FencedInv'
    BY FencedNext
  <1>2. QED
    BY FencedInit, <1>1, PTL DEF Spec

\* A write lands only on the version it was computed from.
THEOREM StaleWritesAreFenced ==
  ASSUME Fenced
  PROVE  Spec => StaleWriteFenced
  <1>1. FencedInv /\ [Next]_vars =>
          [ref' # ref => \E m \in inflight : m.base = ref /\ m.new = ref']_vars
    BY RefStep
  <1>2. QED
    BY <1>1, FencedInductive, PTL DEF Spec, StaleWriteFenced

\* What an admitted operation does to the lease that the document stands for.
LEMMA LegalStep ==
  ASSUME NEW op \in Op, NEW i \in Identity, IInv, Legal(op, ref, ref', i)
  PROVE  LeaseOfRef!Next
  <1>1. ref \in Version /\ WellFormed(ref) /\ i # NoIdentity
    BY CoordinatorAssumption DEF CoordinatorAssumption, Legal
  <1>2. CASE op = "acquire"
    <2>1. ref.state = "FREE" /\ ref' = Active(i, ref.generation + 1, FALSE)
      BY <1>2 DEF Legal, Admits, Successor, Release
    <2>2. ref.id = NoIdentity /\ ref.canonical_write_performed = FALSE
      BY <1>1, <2>1 DEF WellFormed, Version
    <2>3. LeaseOfRef!Acquire(i)
      BY <2>1, <2>2 DEF LeaseOfRef!Acquire, Active
    <2>4. QED
      BY <2>3 DEF LeaseOfRef!Next
  <1>3. CASE op = "mark_canonical_write_started"
    <2>1. /\ HeldBy(ref, i) /\ ref.canonical_write_performed = FALSE
          /\ ref' = Active(i, ref.generation + 1, TRUE)
      BY <1>1, <1>3 DEF Legal, Admits, Successor, Release, Version
    <2>2. LeaseOfRef!StartWriting
      BY <1>1, <2>1 DEF LeaseOfRef!StartWriting, Active, HeldBy, WellFormed
    <2>3. QED
      BY <2>2 DEF LeaseOfRef!Next
  <1>4. CASE op = "release_prewrite_abort"
    <2>1. /\ HeldBy(ref, i) /\ ref.canonical_write_performed = FALSE
          /\ ref' = Free(ref.generation + 1, "PREWRITE_ABORT_VERIFIED", i)
      BY <1>1, <1>4 DEF Legal, Admits, Successor, ReasonOf, Release, Version
    <2>2. LeaseOfRef!Abort
      BY <1>1, <2>1 DEF LeaseOfRef!Abort, Free, HeldBy
    <2>3. QED
      BY <2>2 DEF LeaseOfRef!Next
  <1>5. CASE op \in {"release_committed", "release_recovered"}
    <2>1. /\ HeldBy(ref, i) /\ ref.canonical_write_performed
          /\ ref' = Free(ref.generation + 1, ReasonOf(op), i)
      BY <1>5 DEF Legal, Admits, Successor, Release
    <2>2. ReasonOf(op) \in LeaseOfRef!Terminal
      BY <1>5 DEF ReasonOf, LeaseOfRef!Terminal
    <2>3. LeaseOfRef!Finish(ReasonOf(op))
      BY <1>1, <2>1 DEF LeaseOfRef!Finish, Free, HeldBy
    <2>4. QED
      BY <2>2, <2>3 DEF LeaseOfRef!Next
  <1>6. QED
    BY <1>2, <1>3, <1>4, <1>5 DEF Op, Release

\* The reads, compares, pushes and readbacks of any number of runs implement
\* the atomic lease.
THEOREM LeaseIsImplemented ==
  ASSUME Fenced
  PROVE  Spec => LeaseImplemented
  <1>1. Init => LeaseOfRef!Init
    BY DEF Init, LeaseOfRef!Init, Absent, Free
  <1>2. FencedInv /\ [Next]_vars => [LeaseOfRef!Next]_(LeaseOfRef!leaseVars)
    <2> SUFFICES ASSUME FencedInv, [Next]_vars
                 PROVE  [LeaseOfRef!Next]_(LeaseOfRef!leaseVars)
      OBVIOUS
    <2>1. CASE ref' = ref
      BY <2>1 DEF LeaseOfRef!leaseVars
    <2>2. CASE ref' # ref
      <3>1. PICK m \in inflight : m \in Push /\ PushLegal(m) /\ m.base = ref /\ m.new = ref'
        BY <2>2, RefStep
      <3>2. CASE m.op = "seed" /\ m.base = Absent /\ m.new = Seed
        BY <3>1, <3>2 DEF Absent, Seed, Free, LeaseOfRef!leaseVars
      <3>3. CASE m.op \in done[m.from] /\ Legal(m.op, m.base, m.new, IdentityOf[m.from])
        <4>1. m.op \in Op /\ IdentityOf[m.from] \in Identity
          BY <3>1, <3>3, CoordinatorAssumption DEF CoordinatorAssumption, Push, FencedInv,
             IInv, TypeOK
        <4>2. QED
          BY <3>1, <3>3, <4>1, LegalStep DEF FencedInv
      <3>4. QED
        BY <3>1, <3>2, <3>3 DEF PushLegal
    <2>3. QED
      BY <2>1, <2>2
  <1>3. QED
    BY <1>1, <1>2, FencedInductive, PTL DEF Spec, LeaseImplemented, LeaseOfRef!Spec
-----------------------------------------------------------------------------
(* A run believes it holds the lease only between the operation that told it *)
(* so and its first attempt to release.                                      *)

Claims ==
  \A c \in Client :
    /\ pc[c] \in Busy /\ call[c].op \notin Release => done[c] \cap Release = {}
    /\ holds[c] \/ marked[c] => done[c] \cap Release = {}

\* A run gives up its claims when it calls a release.
LEMMA ClaimsCall ==
  ASSUME IInv, Claims, NEW c \in Client, NEW op \in Op, Call(c, op)
  PROVE  Claims'
  <1> SUFFICES ASSUME NEW d \in Client
               PROVE  /\ pc'[d] \in Busy /\ call'[d].op \notin Release => done'[d] \cap Release = {}
                      /\ holds'[d] \/ marked'[d] => done'[d] \cap Release = {}
    BY DEF Claims
  <1>1. CASE d # c
    BY <1>1 DEF IInv, TypeOK, Claims, Call
  <1>2. CASE d = c
    <2>1. call'[c].op = op /\ done'[c] = done[c] \cup {op}
      BY DEF IInv, TypeOK, Call
    <2>2. op \notin Release => done'[c] \cap Release = {}
      BY <2>1 DEF Call
    <2>3. (holds'[c] => holds[c] /\ op \notin Release) /\ (marked'[c] => marked[c] /\ op \notin Release)
      BY DEF IInv, TypeOK, Call
    <2>4. QED
      BY <1>2, <2>1, <2>2, <2>3
  <1>3. QED
    BY <1>1, <1>2

\* A run claims what it was just told, by an operation that is no release.
LEMMA ClaimsReturnOk ==
  ASSUME IInv, Claims, NEW c \in Client, pc[c] \in Busy, ReturnOk(c)
  PROVE  Claims'
  <1> SUFFICES ASSUME NEW d \in Client
               PROVE  /\ pc'[d] \in Busy /\ call'[d].op \notin Release => done'[d] \cap Release = {}
                      /\ holds'[d] \/ marked'[d] => done'[d] \cap Release = {}
    BY DEF Claims
  <1>1. CASE d # c
    BY <1>1 DEF IInv, TypeOK, Claims, ReturnOk, Return
  <1>2. CASE d = c
    <2>1. pc'[c] \notin Busy
      BY DEF IInv, TypeOK, ReturnOk, Return, Busy
    <2>2. holds'[c] \/ marked'[c] => holds[c] \/ marked[c] \/ call[c].op \notin Release
      BY DEF IInv, TypeOK, ReturnOk, Release
    <2>3. done'[c] = done[c]
      BY DEF ReturnOk
    <2>4. QED
      BY <1>2, <2>1, <2>2, <2>3 DEF Claims
  <1>3. QED
    BY <1>1, <1>2

\* Any step that keeps the operation and the beliefs of every run that is busy
\* after it.
LEMMA ClaimsKept ==
  ASSUME Claims, UNCHANGED done,
         \A c \in Client : /\ holds'[c] => holds[c]
                           /\ marked'[c] => marked[c]
                           /\ pc'[c] \in Busy => pc[c] \in Busy /\ call'[c].op = call[c].op
  PROVE  Claims'
  BY DEF Claims

LEMMA ClaimsInv ==
  ASSUME IInv, Claims, [Next]_vars
  PROVE  Claims'
  <1>1. CASE \E c \in Client : \E op \in Op : Call(c, op)
    BY <1>1, ClaimsCall
  <1>2. CASE \E c \in Client : ReadResumed(c) \/ Verified(c)
    BY <1>2, ClaimsReturnOk DEF ReadResumed, Verified, Busy
  <1>3. CASE \E c \in Client : SeedDocument(c) \/ Prepare(c) \/ SendPush(c)
    BY <1>3, ClaimsKept DEF IInv, TypeOK, SeedDocument, Prepare, SendPush, Busy
  <1>4. CASE \E c \in Client : ReadAdmitted(c)
    BY <1>4, ClaimsKept DEF IInv, TypeOK, ReadAdmitted, Busy
  <1>5. CASE \E c \in Client : ReadRefused(c) \/ Fail(c)
    BY <1>5, ClaimsKept DEF IInv, TypeOK, ReadRefused, Fail, ReturnError, Return, Busy
  <1>6. CASE \E c \in Client : End(c)
    BY <1>6, ClaimsKept DEF IInv, TypeOK, End, Busy
  <1>7. CASE \E m \in inflight : Apply(m) \/ Reject(m)
    BY <1>7, ClaimsKept DEF IInv, TypeOK, Apply, Reject, Answered, Push, Busy
  <1>8. CASE \E m \in inflight : Lose(m)
    BY <1>8, ClaimsKept DEF Lose
  <1>9. CASE UNCHANGED vars
    BY <1>9, ClaimsKept DEF vars
  <1>10. QED
    BY <1>1, <1>2, <1>3, <1>4, <1>5, <1>6, <1>7, <1>8, <1>9 DEF Next
-----------------------------------------------------------------------------
(* What a run was told stays true of the document.                           *)

SafeInv == FencedInv /\ Claims /\ HolderExact /\ BoundaryExact

\* A run learns that it holds the lease, or has crossed the boundary, only
\* while the document says so.
LEMMA Learns ==
  ASSUME IInv, [Next]_vars, NEW c \in Client
  PROVE  /\ holds'[c] /\ ~holds[c] => ref' = ref /\ HeldBy(ref, IdentityOf[c])
         /\ marked'[c] /\ ~marked[c] =>
              ref' = ref /\ HeldBy(ref, IdentityOf[c]) /\ ref.canonical_write_performed
  <1>1. CASE \E d \in Client : ReadResumed(d) \/ Verified(d)
    <2>1. PICK d \in Client : ReadResumed(d) \/ Verified(d)
      BY <1>1
    <2>2. ref' = ref /\ ReturnOk(d)
      BY <2>1 DEF ReadResumed, Verified, ReturnOk
    <2>3. CASE d # c
      BY <2>2, <2>3 DEF ReturnOk, IInv, TypeOK
    <2>4. CASE d = c /\ ReadResumed(d)
      <3>1. AlreadyDone(call[c].op, ref, IdentityOf[c])
        BY <2>4 DEF ReadResumed
      <3>2. /\ holds'[c] /\ ~holds[c] => call[c].op = "acquire"
            /\ marked'[c] /\ ~marked[c] => call[c].op = "mark_canonical_write_started"
        BY <2>2, <2>4 DEF ReturnOk, IInv, TypeOK
      <3>3. QED
        BY <2>2, <3>1, <3>2 DEF AlreadyDone
    <2>5. CASE d = c /\ Verified(d)
      <3>1. Legal(call[c].op, call[c].base, ref, IdentityOf[c])
        BY <2>5 DEF Verified, IInv, CallsLegal, Writing
      <3>2. /\ holds'[c] /\ ~holds[c] => call[c].op = "acquire"
            /\ marked'[c] /\ ~marked[c] => call[c].op = "mark_canonical_write_started"
        BY <2>2, <2>5 DEF ReturnOk, IInv, TypeOK
      <3>3. call[c].op = "acquire" => HeldBy(ref, IdentityOf[c])
        BY <3>1 DEF Legal, Successor, Active, HeldBy, Release
      <3>4. call[c].op = "mark_canonical_write_started" =>
              HeldBy(ref, IdentityOf[c]) /\ ref.canonical_write_performed
        BY <3>1 DEF Legal, Successor, Active, HeldBy, Release
      <3>5. QED
        BY <2>2, <3>2, <3>3, <3>4
    <2>6. QED
      BY <2>1, <2>3, <2>4, <2>5
  <1>2. CASE ~\E d \in Client : ReadResumed(d) \/ Verified(d)
    <2>1. (holds'[c] => holds[c]) /\ (marked'[c] => marked[c])
      BY <1>2 DEF IInv, TypeOK, Next, vars, Call, SeedDocument, ReadRefused, ReadAdmitted,
                  Prepare, SendPush, Fail, End, Apply, Reject, Lose, ReturnError
    <2>2. QED
      BY <2>1
  <1>3. QED
    BY <1>1, <1>2

\* What a run has called it has called for good.
LEMMA DoneGrows ==
  ASSUME IInv, [Next]_vars, NEW c \in Client
  PROVE  done[c] \subseteq done'[c]
  BY DEF IInv, TypeOK, Next, vars, Call, SeedDocument, ReadRefused, ReadResumed, ReadAdmitted,
         Prepare, SendPush, Verified, Fail, End, Apply, Reject, Lose, ReturnOk, ReturnError

LEMMA TwinStays ==
  ASSUME IInv, [Next]_vars, NEW c \in Client, NEW ops, ReleasedByTwin(c, ops)
  PROVE  \E d \in Client \ {c} : IdentityOf[d] = IdentityOf[c] /\ done'[d] \cap ops # {}
  BY DoneGrows DEF ReleasedByTwin

\* The document leaves the hands of identity i only through a release that a
\* run acting under i asked for, and through a terminal one once i has crossed
\* the boundary.
LEMMA LosesOnlyByRelease ==
  ASSUME FencedInv, [Next]_vars, NEW i \in Identity, HeldBy(ref, i)
  PROVE  /\ ~HeldBy(ref', i) =>
              \E d \in Client : IdentityOf[d] = i /\ done[d] \cap Release # {}
         /\ ref.canonical_write_performed
              /\ ~(HeldBy(ref', i) /\ ref'.canonical_write_performed) =>
              \E d \in Client : /\ IdentityOf[d] = i
                                /\ done[d] \cap {"release_committed", "release_recovered"} # {}
  <1>1. CASE ref' = ref
    BY <1>1
  <1>2. CASE ref' # ref
    <2>1. PICK m \in inflight : m \in Push /\ PushLegal(m) /\ m.base = ref /\ m.new = ref'
      BY <1>2, RefStep
    <2>2. m.base # Absent
      BY <2>1 DEF HeldBy, Absent, Free
    <2>3. /\ m.from \in Client /\ m.op \in done[m.from] /\ m.op \in Op
          /\ Legal(m.op, ref, ref', IdentityOf[m.from])
      BY <2>1, <2>2 DEF PushLegal, FencedInv, IInv, TypeOK, Push
    <2>4. m.op # "acquire"
      BY <2>3 DEF Legal, Admits, HeldBy, Release
    <2>5. IdentityOf[m.from] = i
      BY <2>3, <2>4 DEF Legal, Admits, HeldBy, Op, Release
    <2>6. CASE m.op = "mark_canonical_write_started"
      BY <2>3, <2>5, <2>6 DEF Legal, Admits, Successor, Active, HeldBy, Release
    <2>7. CASE m.op = "release_prewrite_abort"
      <3>1. ~ref.canonical_write_performed
        BY <2>3, <2>7 DEF Legal, Admits, Release
      <3>2. QED
        BY <2>3, <2>5, <2>7, <3>1 DEF Release
    <2>8. CASE m.op \in {"release_committed", "release_recovered"}
      BY <2>3, <2>5, <2>8 DEF Release
    <2>9. QED
      BY <2>3, <2>4, <2>6, <2>7, <2>8 DEF Op, Release
  <1>3. QED
    BY <1>1, <1>2
\* What a run was told of the lease stays true of the document.
LEMMA HolderStep ==
  ASSUME SafeInv, [Next]_vars
  PROVE  HolderExact'
  <1> SUFFICES ASSUME NEW c \in Client, holds'[c]
               PROVE  \/ HeldBy(ref', IdentityOf[c])
                      \/ \E d \in Client \ {c} : /\ IdentityOf[d] = IdentityOf[c]
                                                 /\ done'[d] \cap Release # {}
    BY DEF HolderExact, ReleasedByTwin
  <1>1. CASE ~holds[c]
    BY <1>1, Learns DEF SafeInv, FencedInv
  <1>2. CASE holds[c] /\ ReleasedByTwin(c, Release)
    BY <1>2, TwinStays DEF SafeInv, FencedInv
  <1>3. CASE holds[c] /\ HeldBy(ref, IdentityOf[c])
    <2>1. IdentityOf[c] \in Identity
      BY CoordinatorAssumption DEF CoordinatorAssumption
    <2>2. done[c] \cap Release = {}
      BY <1>3 DEF SafeInv, Claims
    <2>3. CASE HeldBy(ref', IdentityOf[c])
      BY <2>3
    <2>4. CASE ~HeldBy(ref', IdentityOf[c])
      <3>1. PICK d \in Client : IdentityOf[d] = IdentityOf[c] /\ done[d] \cap Release # {}
        BY <1>3, <2>1, <2>4, LosesOnlyByRelease DEF SafeInv
      <3>2. done[d] \subseteq done'[d]
        BY DoneGrows DEF SafeInv, FencedInv
      <3>3. QED
        BY <2>2, <3>1, <3>2
    <2>5. QED
      BY <2>3, <2>4
  <1>4. QED
    BY <1>1, <1>2, <1>3 DEF SafeInv, HolderExact

\* What a run was told of the boundary stays true of the document.
LEMMA BoundaryStep ==
  ASSUME SafeInv, [Next]_vars
  PROVE  BoundaryExact'
  <1> DEFINE Final == {"release_committed", "release_recovered"}
  <1> SUFFICES ASSUME NEW c \in Client, marked'[c]
               PROVE  \/ HeldBy(ref', IdentityOf[c]) /\ ref'.canonical_write_performed
                      \/ \E d \in Client \ {c} : /\ IdentityOf[d] = IdentityOf[c]
                                                 /\ done'[d] \cap Final # {}
    BY DEF BoundaryExact, ReleasedByTwin
  <1>1. CASE ~marked[c]
    BY <1>1, Learns DEF SafeInv, FencedInv
  <1>2. CASE marked[c] /\ ReleasedByTwin(c, Final)
    BY <1>2, TwinStays DEF SafeInv, FencedInv
  <1>3. CASE marked[c] /\ HeldBy(ref, IdentityOf[c]) /\ ref.canonical_write_performed
    <2>1. IdentityOf[c] \in Identity
      BY CoordinatorAssumption DEF CoordinatorAssumption
    <2>2. done[c] \cap Final = {}
      BY <1>3 DEF SafeInv, Claims, Release
    <2>3. CASE HeldBy(ref', IdentityOf[c]) /\ ref'.canonical_write_performed
      BY <2>3
    <2>4. CASE ~(HeldBy(ref', IdentityOf[c]) /\ ref'.canonical_write_performed)
      <3>1. PICK d \in Client : IdentityOf[d] = IdentityOf[c] /\ done[d] \cap Final # {}
        BY <1>3, <2>1, <2>4, LosesOnlyByRelease DEF SafeInv
      <3>2. done[d] \subseteq done'[d]
        BY DoneGrows DEF SafeInv, FencedInv
      <3>3. QED
        BY <2>2, <3>1, <3>2
    <2>5. QED
      BY <2>3, <2>4
  <1>4. QED
    BY <1>1, <1>2, <1>3 DEF SafeInv, BoundaryExact

\* The invariant with the two statements about callers.
LEMMA Safe ==
  ASSUME Fenced
  PROVE  Spec => []SafeInv
  <1>1. Init => SafeInv
    BY FencedInit DEF Init, SafeInv, Claims, HolderExact, BoundaryExact, Busy
  <1>2. SafeInv /\ [Next]_vars => SafeInv'
    <2> SUFFICES ASSUME SafeInv, [Next]_vars PROVE SafeInv'
      OBVIOUS
    <2>1. FencedInv' /\ Claims'
      BY FencedNext, ClaimsInv DEF SafeInv, FencedInv
    <2>2. HolderExact' /\ BoundaryExact'
      BY HolderStep, BoundaryStep
    <2>3. QED
      BY <2>1, <2>2 DEF SafeInv
  <1>3. QED
    BY <1>1, <1>2, PTL DEF Spec

\* A run that was told it owns the lease owns it until it, or a run acting under
\* the same identity, asks to release it.
THEOREM HolderIsExact ==
  ASSUME Fenced
  PROVE  Spec => []HolderExact
  <1>1. SafeInv => HolderExact
    BY DEF SafeInv
  <1>2. QED
    BY Safe, <1>1, PTL

\* A run that was told it crossed the write boundary is never given back as a
\* pre-write abort.
THEOREM BoundaryIsExact ==
  ASSUME Fenced
  PROVE  Spec => []BoundaryExact
  <1>1. SafeInv => BoundaryExact
    BY DEF SafeInv
  <1>2. QED
    BY Safe, <1>1, PTL
=============================================================================
