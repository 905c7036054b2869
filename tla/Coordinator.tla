----------------------------- MODULE Coordinator -----------------------------
(***************************************************************************)
(* candidate_production_coordinator.py: a tiny state document that several *)
(* runs change through acquire, mark_canonical_write_started and the three  *)
(* releases.  Every operation is the same sequence of remote calls:         *)
(*                                                                          *)
(*   read the version -> check it -> re-read it and build the successor     *)
(*   -> push against the observed version -> read the result back           *)
(*                                                                          *)
(* and any other step of any run may come between two of them.  A push is a *)
(* message: it can be applied, rejected or lost, its acknowledgement can be *)
(* lost, and it can land after its sender stopped waiting for it.           *)
(*                                                                          *)
(* The version token (a commit id, or the SHA-256 of the document) is the   *)
(* document itself: generations only grow, so equal documents of one        *)
(* history are the same version.                                            *)
(***************************************************************************)
EXTENDS Naturals

CONSTANTS
  Client,         \* runs of the programs that use the coordinator
  Identity,       \* (transaction_id, batch_id, owner, journal_path)
  NoIdentity,     \* the null identity of a FREE document
  IdentityOf,     \* the identity each run presents; runs may share one
  Backend,        \* "git" (force-with-lease push) or "drive" (compare, then write)
  SerialRuns,     \* the Actions concurrency group lets one run live at a time
  LateWrites,     \* a push may land after its sender has given up on it
  MaxGeneration   \* bound on the generation a run may push

ASSUME CoordinatorAssumption ==
  /\ NoIdentity \notin Identity
  /\ IdentityOf \in [Client -> Identity]
  /\ Backend \in {"git", "drive"}
  /\ SerialRuns \in BOOLEAN
  /\ LateWrites \in BOOLEAN
  /\ MaxGeneration \in Nat

VARIABLES
  ref,        \* the remote document
  inflight,   \* pushes sent and neither applied, rejected nor lost
  pc,         \* where each run is inside its current operation
  call,       \* the operation in progress of each run, with its versions
  done,       \* operations each run has called
  holds,      \* the run saw acquire succeed and has not tried to release
  marked      \* the run saw mark_canonical_write_started succeed, likewise

vars == <<ref, inflight, pc, call, done, holds, marked>>

-----------------------------------------------------------------------------
(* The document and its successors.                                         *)

Release == {"release_prewrite_abort", "release_committed", "release_recovered"}
Op == {"acquire", "mark_canonical_write_started"} \cup Release
Reason == {"none", "PREWRITE_ABORT_VERIFIED", "VERIFIED_COMMITTED", "VERIFIED_RECOVERED"}

Version ==
  [state : {"ABSENT", "FREE", "ACTIVE"}, id : Identity \cup {NoIdentity},
   generation : Nat, canonical_write_performed : BOOLEAN,
   release_reason : Reason, released_by : Identity \cup {NoIdentity}]

Free(generation, reason, by) ==
  [state |-> "FREE", id |-> NoIdentity, generation |-> generation,
   canonical_write_performed |-> FALSE, release_reason |-> reason, released_by |-> by]

Active(i, generation, written) ==
  [state |-> "ACTIVE", id |-> i, generation |-> generation,
   canonical_write_performed |-> written, release_reason |-> "none",
   released_by |-> NoIdentity]

Absent == [Free(0, "none", NoIdentity) EXCEPT !.state = "ABSENT"]
Seed == Free(0, "none", NoIdentity)

HeldBy(v, i) == v.state = "ACTIVE" /\ v.id = i

\* A free or missing document names no owner and no write in progress, an
\* active one names its owner and no release.
WellFormed(v) ==
  IF v.state = "ACTIVE"
  THEN v.id # NoIdentity /\ v.release_reason = "none"
  ELSE v.id = NoIdentity /\ ~v.canonical_write_performed

\* Mutant of Admits: the pre-write abort forgets the write flag.
AdmitsAbortAfterBoundary(op, v, i) ==
  CASE op = "acquire" -> v.state = "FREE"
    [] op = "mark_canonical_write_started" -> HeldBy(v, i) /\ ~v.canonical_write_performed
    [] op = "release_prewrite_abort" -> HeldBy(v, i)
    [] op \in {"release_committed", "release_recovered"} ->
         HeldBy(v, i) /\ v.canonical_write_performed

\* The conditions under which each operation goes on to write.
Admits(op, v, i) ==
  CASE op = "acquire" -> v.state = "FREE"
    [] op \in {"mark_canonical_write_started", "release_prewrite_abort"} ->
         HeldBy(v, i) /\ ~v.canonical_write_performed
    [] op \in {"release_committed", "release_recovered"} ->
         HeldBy(v, i) /\ v.canonical_write_performed

\* acquire by the recorded owner and a repeated mark succeed without a write.
AlreadyDone(op, v, i) ==
  \/ op = "acquire" /\ HeldBy(v, i)
  \/ op = "mark_canonical_write_started" /\ HeldBy(v, i) /\ v.canonical_write_performed

ReasonOf(op) ==
  CASE op = "release_prewrite_abort" -> "PREWRITE_ABORT_VERIFIED"
    [] op = "release_committed" -> "VERIFIED_COMMITTED"
    [] op = "release_recovered" -> "VERIFIED_RECOVERED"

Successor(op, v, i) ==
  CASE op = "acquire" -> Active(i, v.generation + 1, FALSE)
    [] op = "mark_canonical_write_started" -> Active(i, v.generation + 1, TRUE)
    [] op \in Release -> Free(v.generation + 1, ReasonOf(op), i)

-----------------------------------------------------------------------------
(* Runs.                                                                    *)

Busy == {"read", "seeded", "prepare", "push", "answer", "acked", "rejected"}
NoCall == [op |-> "none", base |-> Absent, next |-> Absent]

Push == [from : Client, op : Op \cup {"seed"}, base : Version, new : Version, cas : BOOLEAN]

Live(c) == pc[c] # "ended" /\ (done[c] # {} \/ pc[c] # "idle")
Alone(c) == \A d \in Client \ {c} : ~Live(d) /\ \A m \in inflight : m.from = d => LateWrites

Init ==
  /\ ref = Absent
  /\ inflight = {}
  /\ pc = [c \in Client |-> "idle"]
  /\ call = [c \in Client |-> NoCall]
  /\ done = [c \in Client |-> {}]
  /\ holds = [c \in Client |-> FALSE]
  /\ marked = [c \in Client |-> FALSE]

\* The order in which the callers use the operations: each at most once,
\* acquire first or not at all, nothing but releases after a release.  A run
\* gives up its claim to the lease when it starts to release it; a process that
\* acquires again after a verified release is another run here.
Call(c, op) ==
  /\ pc[c] = "idle"
  /\ op \notin done[c]
  /\ op = "acquire" => done[c] = {}
  /\ op \notin Release => done[c] \cap Release = {}
  /\ SerialRuns => Alone(c)
  /\ done' = [done EXCEPT ![c] = @ \cup {op}]
  /\ call' = [call EXCEPT ![c] = [op |-> op, base |-> Absent, next |-> Absent]]
  /\ pc' = [pc EXCEPT ![c] = "read"]
  /\ holds' = [holds EXCEPT ![c] = @ /\ op \notin Release]
  /\ marked' = [marked EXCEPT ![c] = @ /\ op \notin Release]
  /\ UNCHANGED <<ref, inflight>>

Return(c) ==
  /\ pc' = [pc EXCEPT ![c] = "idle"]
  /\ call' = [call EXCEPT ![c] = NoCall]

ReturnOk(c) ==
  /\ Return(c)
  /\ holds' = [holds EXCEPT ![c] = @ \/ call[c].op = "acquire"]
  /\ marked' = [marked EXCEPT ![c] = @ \/ call[c].op = "mark_canonical_write_started"]
  /\ UNCHANGED <<ref, inflight, done>>

ReturnError(c) ==
  /\ Return(c)
  /\ UNCHANGED <<ref, inflight, done, holds, marked>>

\* Mutant of SeedDocument: the seed replaces whatever it finds.
SeedDocumentForced(c) ==
  /\ pc[c] = "read"
  /\ ref.state = "ABSENT"
  /\ call[c].op = "acquire"
  /\ inflight' = inflight \cup
       {[from |-> c, op |-> "seed", base |-> Absent, new |-> Seed, cas |-> FALSE]}
  /\ pc' = [pc EXCEPT ![c] = "seeded"]
  /\ UNCHANGED <<ref, call, done, holds, marked>>

\* ensure_initialized: acquire seeds a missing document and reads it again
\* whatever the answer to the seed write.  Git refuses to replace a ref that
\* appeared meanwhile, the Drive write does not look.
SeedDocument(c) ==
  /\ pc[c] = "read"
  /\ ref.state = "ABSENT"
  /\ call[c].op = "acquire"
  /\ inflight' = inflight \cup
       {[from |-> c, op |-> "seed", base |-> Absent, new |-> Seed, cas |-> Backend = "git"]}
  /\ pc' = [pc EXCEPT ![c] = "seeded"]
  /\ UNCHANGED <<ref, call, done, holds, marked>>

\* A rejected or acknowledged operation, an unexpected version and a missing
\* document that this operation does not create all end in an error code.
ReadRefused(c) ==
  /\ pc[c] \in {"read", "seeded"}
  /\ pc[c] = "read" => ~(ref.state = "ABSENT" /\ call[c].op = "acquire")
  /\ ~AlreadyDone(call[c].op, ref, IdentityOf[c])
  /\ ~Admits(call[c].op, ref, IdentityOf[c])
  /\ ReturnError(c)

ReadResumed(c) ==
  /\ pc[c] \in {"read", "seeded"}
  /\ AlreadyDone(call[c].op, ref, IdentityOf[c])
  /\ ReturnOk(c)

ReadAdmitted(c) ==
  /\ pc[c] \in {"read", "seeded"}
  /\ Admits(call[c].op, ref, IdentityOf[c])
  /\ ref.generation < MaxGeneration
  /\ call' = [call EXCEPT ![c] =
       [op |-> call[c].op, base |-> ref,
        next |-> Successor(call[c].op, ref, IdentityOf[c])]]
  /\ pc' = [pc EXCEPT ![c] = "prepare"]
  /\ UNCHANGED <<ref, inflight, done, holds, marked>>

\* _prepare_transition re-reads the version and refuses a changed base.
Prepare(c) ==
  /\ pc[c] = "prepare"
  /\ ref = call[c].base
  /\ pc' = [pc EXCEPT ![c] = "push"]
  /\ UNCHANGED <<ref, inflight, call, done, holds, marked>>

\* Mutant of SendPush: a Git push without --force-with-lease.
SendPushForced(c) ==
  /\ pc[c] = "push"
  /\ inflight' = inflight \cup
       {[from |-> c, op |-> call[c].op, base |-> call[c].base,
         new |-> call[c].next, cas |-> FALSE]}
  /\ pc' = [pc EXCEPT ![c] = "answer"]
  /\ UNCHANGED <<ref, call, done, holds, marked>>

\* _push_expected: Git compares at the server when the push is applied, the
\* Drive backend compares here and writes without a condition.
SendPush(c) ==
  /\ pc[c] = "push"
  /\ Backend = "drive" => ref = call[c].base
  /\ inflight' = inflight \cup
       {[from |-> c, op |-> call[c].op, base |-> call[c].base,
         new |-> call[c].next, cas |-> Backend = "git"]}
  /\ pc' = [pc EXCEPT ![c] = "answer"]
  /\ UNCHANGED <<ref, call, done, holds, marked>>

Verified(c) ==
  /\ pc[c] = "acked"
  /\ ref = call[c].next
  /\ ReturnOk(c)

\* A changed base, a rejected push, a readback that differs, an unreachable
\* remote, a timeout and a lost acknowledgement are one error to the caller.
\* Without late writes a push is decided by the time its sender gives up.
Fail(c) ==
  /\ pc[c] \in Busy
  /\ LateWrites \/ \A m \in inflight : m.from # c
  /\ ReturnError(c)

\* The run stops for good: it finishes, crashes or is cancelled.
End(c) ==
  /\ pc[c] # "ended"
  /\ Live(c)
  /\ LateWrites \/ \A m \in inflight : m.from # c
  /\ pc' = [pc EXCEPT ![c] = "ended"]
  /\ call' = [call EXCEPT ![c] = NoCall]
  /\ holds' = [holds EXCEPT ![c] = FALSE]
  /\ marked' = [marked EXCEPT ![c] = FALSE]
  /\ UNCHANGED <<ref, inflight, done>>

-----------------------------------------------------------------------------
(* The remote.                                                              *)

Answered(m, answer) ==
  IF pc[m.from] = "answer" /\ call[m.from].op = m.op
  THEN [pc EXCEPT ![m.from] = answer]
  ELSE pc

Apply(m) ==
  /\ m.cas => ref = m.base
  /\ ref' = m.new
  /\ inflight' = inflight \ {m}
  /\ pc' = Answered(m, "acked")
  /\ UNCHANGED <<call, done, holds, marked>>

Reject(m) ==
  /\ m.cas
  /\ ref # m.base
  /\ inflight' = inflight \ {m}
  /\ pc' = Answered(m, "rejected")
  /\ UNCHANGED <<ref, call, done, holds, marked>>

Lose(m) ==
  /\ inflight' = inflight \ {m}
  /\ UNCHANGED <<ref, pc, call, done, holds, marked>>

Next ==
  \/ \E c \in Client :
       \/ \E op \in Op : Call(c, op)
       \/ SeedDocument(c)
       \/ ReadRefused(c) \/ ReadResumed(c) \/ ReadAdmitted(c)
       \/ Prepare(c) \/ SendPush(c) \/ Verified(c)
       \/ Fail(c) \/ End(c)
  \/ \E m \in inflight : Apply(m) \/ Reject(m) \/ Lose(m)

Spec == Init /\ [][Next]_vars

-----------------------------------------------------------------------------
(* Properties.                                                              *)

\* Every variable keeps its type, and the document that runs read names an owner
\* exactly while it is ACTIVE (validate_state checks the fields one by one).
TypeOK ==
  /\ ref \in Version
  /\ WellFormed(ref)
  /\ inflight \subseteq Push
  /\ pc \in [Client -> Busy \cup {"idle", "ended"}]
  /\ call \in [Client -> [op : Op \cup {"none"}, base : Version, next : Version]]
  /\ done \in [Client -> SUBSET Op]
  /\ holds \in [Client -> BOOLEAN]
  /\ marked \in [Client -> BOOLEAN]

\* A run that asked to release the lease under identity i, other than c.
ReleasedByTwin(c, ops) ==
  \E d \in Client \ {c} : IdentityOf[d] = IdentityOf[c] /\ done[d] \cap ops # {}

\* A run that was told it owns the lease really owns it, until it or a run
\* acting under the very same identity asks to release it: no lost
\* acknowledgement, late push or competing run takes it away.
HolderExact ==
  \A c \in Client :
    holds[c] => HeldBy(ref, IdentityOf[c]) \/ ReleasedByTwin(c, Release)

\* A run that was told it has crossed the write boundary is never released as
\* a clean pre-write abort, not even by a twin whose abort push was under way.
BoundaryExact ==
  \A c \in Client :
    marked[c] =>
      \/ HeldBy(ref, IdentityOf[c]) /\ ref.canonical_write_performed
      \/ ReleasedByTwin(c, {"release_committed", "release_recovered"})

\* A write lands only on the version it was computed from: a stale run cannot
\* replace a later state of the lease.
StaleWriteFenced ==
  [][ref' # ref => \E m \in inflight : m.base = ref /\ m.new = ref']_vars

\* The document behaves like the atomic lease.
LeaseOfRef == INSTANCE Lease WITH
  holder <- ref.id,
  written <- ref.canonical_write_performed,
  outcome <- ref.release_reason,
  epoch <- ref.generation

LeaseImplemented == LeaseOfRef!Spec
=============================================================================
