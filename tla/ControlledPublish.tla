-------------------------- MODULE ControlledPublish --------------------------
(***************************************************************************)
(* candidate_controlled_publish.py and the modules it drives: a publication *)
(* run takes the coordinator lease, saves the bytes it is about to replace,  *)
(* crosses the write boundary, writes records and then indexes one by one,   *)
(* verifies, stores a receipt and a COMMITTED journal, and gives the lease   *)
(* back; on a deterministic failure it rolls back.  A run that stops half    *)
(* way is finished by candidate_production_recover.py or                     *)
(* candidate_committed_reconciliation.py in a process of its own.            *)
(*                                                                          *)
(* The lease is the atomic one of Lease, which Coordinator implements; the  *)
(* answer of a step that changes it may still be lost.  Files are numbered   *)
(* in the order in which they are written, the master index last.            *)
(***************************************************************************)
EXTENDS Naturals

CONSTANTS
  Run,              \* publication runs, each an owner with a journal of its own
  NoRun,            \* the lease is free
  Cli,              \* the process that recovers or reconciles a stopped run
  Base, Nothing, Foreign,  \* initial bytes, no file, bytes of somebody else
  NRecords,         \* records a transaction writes
  NIndexes,         \* generated indexes it rewrites, MASTER_INDEX among them
  InitiallyAbsent,  \* records that the first publication creates
  UncertainAt,      \* steps whose answer may be lost or wrong
  CrashAt,          \* program points at which a process may be killed
  ConcurrentRecovery, \* the CLI may run while a publisher is still alive
  MaxForeign,       \* bound on writes to the library by others
  MaxFaults         \* bound on lost answers, failures and crashes

ASSUME ControlledPublishAssumption ==
  /\ NoRun \notin Run /\ Cli \notin Run /\ Base \notin Run
  /\ NRecords \in Nat \ {0} /\ NIndexes \in Nat \ {0}
  /\ InitiallyAbsent \subseteq 1..NRecords
  /\ ConcurrentRecovery \in BOOLEAN
  /\ MaxForeign \in Nat /\ MaxFaults \in Nat

VARIABLES
  canon,     \* bytes of every file of 00_LIBRARY a transaction touches
  journal,   \* state of each run's durable recovery journal, or "none"
  before,    \* before-images each run captured for its journal and snapshots
  receipt,   \* the run's receipt is durable
  origin,    \* the library each run planned against
  content,   \* the run whose COMMITTED journal was stored last
  holder, written, outcome, epoch,   \* the lease
  pc,        \* where each process is
  at,        \* files it has written or restored so far
  patient,   \* the stopped run the CLI is looking after
  faults, foreign  \* how much of the two bounds is used up

durable == <<canon, journal, before, receipt, content>>
lease == <<holder, written, outcome, epoch>>
local == <<origin, patient>>
vars == <<durable, lease, local, pc, at, faults, foreign>>

L == INSTANCE Lease WITH Identity <- Run, NoIdentity <- NoRun

Process == Run \cup {Cli}
NFiles == NRecords + NIndexes
File == 1..NFiles
Master == NFiles
Image(v) ==
  [f \in File |-> IF v = Base /\ f \in InitiallyAbsent THEN Nothing ELSE v]

JournalState ==
  {"none", "PREPARED", "WRITING_RECORDS", "REBUILDING_INDEXES", "VERIFYING",
   "COMMITTED_PENDING_RECEIPT", "COMMITTED", "RECOVERY_REQUIRED", "RECOVERED",
   "ABORTED_PREWRITE"}

\* Mutant of Recoverable: a COMMITTED journal is offered for rollback.
RecoverableWithCommitted ==
  {"WRITING_RECORDS", "REBUILDING_INDEXES", "VERIFYING",
   "COMMITTED_PENDING_RECEIPT", "RECOVERY_REQUIRED", "COMMITTED"}

\* Journals whose canonical_write_performed is true and that may be rolled back.
Recoverable ==
  {"WRITING_RECORDS", "REBUILDING_INDEXES", "VERIFYING",
   "COMMITTED_PENDING_RECEIPT", "RECOVERY_REQUIRED"}

\* A process that ends: a run for good, the CLI until it is started again.
Resting == {"idle", "stopped"}
Over(p) == IF p = Cli THEN "idle" ELSE "stopped"
Subject(p) == IF p = Cli THEN patient ELSE p

Init ==
  /\ canon = Image(Base)
  /\ journal = [r \in Run |-> "none"]
  /\ before = [r \in Run |-> Image(Base)]
  /\ receipt = [r \in Run |-> FALSE]
  /\ origin = [r \in Run |-> Image(Base)]
  /\ content = Base
  /\ L!Init
  /\ pc = [p \in Process |-> "idle"]
  /\ at = [p \in Process |-> 0]
  /\ patient = NoRun
  /\ faults = 0
  /\ foreign = 0

-----------------------------------------------------------------------------
(* Building blocks: where a process goes, and a remote step whose answer is *)
(* either right or missing.                                                 *)

Goto(p, to) == pc' = [pc EXCEPT ![p] = to]

Fault ==
  /\ faults < MaxFaults
  /\ faults' = faults + 1

\* The step takes effect and the process sees it, or the answer is lost: then
\* the process cannot tell whether it took effect and goes on at `otherwise`.
Remote(p, step, effect, none, to, otherwise) ==
  \/ effect /\ Goto(p, to) /\ UNCHANGED faults
  \/ step \in UncertainAt /\ Fault /\ (effect \/ none) /\ Goto(p, otherwise)

\* A check or a read fails before anything is written.
Refuse(p, step, to) ==
  /\ step \in UncertainAt
  /\ Fault
  /\ Goto(p, to)
  /\ UNCHANGED <<durable, lease, at>>

StoreJournal(r, state) ==
  /\ journal' = [journal EXCEPT ![r] = state]
  /\ UNCHANGED <<canon, before, receipt, content>>

PutFile(f, v) ==
  /\ canon' = [canon EXCEPT ![f] = v]
  /\ UNCHANGED <<journal, before, receipt, content>>

\* A journal write that raises RemoteUncertainExit when it is not confirmed.
Journal(p, from, state, to) ==
  /\ pc[p] = from
  /\ Remote(p, "journal", StoreJournal(Subject(p), state), UNCHANGED durable, to, Over(p))
  /\ UNCHANGED <<lease, local, at, foreign>>

-----------------------------------------------------------------------------
(* The publisher.                                                           *)

\* Read-only preflight against a FREE coordinator.
Preflight(r) ==
  /\ pc[r] = "idle"
  /\ holder = NoRun
  /\ origin' = [origin EXCEPT ![r] = canon]
  /\ Goto(r, "acquire")
  /\ UNCHANGED <<durable, lease, patient, at, faults, foreign>>

\* An acquisition whose answer is lost counts as not acquired: the run ends.
Acquire(r) ==
  /\ pc[r] = "acquire"
  /\ Remote(r, "acquire", L!Acquire(r), UNCHANGED lease, "owned", "stopped")
  /\ UNCHANGED <<durable, local, at, foreign>>

Busy(r) ==
  /\ pc[r] = "acquire"
  /\ holder # NoRun
  /\ Goto(r, "stopped")
  /\ UNCHANGED <<durable, lease, local, at, faults, foreign>>

\* Second live revalidation, under ownership: the library must still be the one
\* the preflight saw.  A run without a journal releases straight away.
Revalidate(r) ==
  /\ pc[r] = "owned"
  /\ \/ canon = origin[r] /\ Goto(r, "revalidated") /\ UNCHANGED faults
     \/ canon # origin[r] /\ Goto(r, "release_abort") /\ UNCHANGED faults
     \/ Refuse(r, "revalidate", "release_abort")
  /\ UNCHANGED <<durable, lease, local, at, foreign>>

\* capture_canonical_state: rclone cat returns no bytes for a missing file and
\* for a failed read alike.
Capture(r) ==
  /\ pc[r] = "revalidated"
  /\ \/ before' = [before EXCEPT ![r] = canon] /\ UNCHANGED faults
     \/ /\ "capture" \in UncertainAt
        /\ Fault
        /\ \E f \in File : before' = [before EXCEPT ![r] = [canon EXCEPT ![f] = Nothing]]
  /\ Goto(r, "captured")
  /\ UNCHANGED <<canon, journal, receipt, content, lease, local, at, foreign>>

\* Snapshots, then the PREPARED journal, both read back; an error is returned,
\* not raised, and leads to the pre-write abort.
ArmRecovery(r) ==
  /\ pc[r] = "captured"
  /\ Remote(r, "arm", StoreJournal(r, "PREPARED"), UNCHANGED durable, "armed", "abort")
  /\ UNCHANGED <<lease, local, at, foreign>>

\* Mutant of OpenJournal: the journal does not record that writing may start.
OpenJournalUnmarked(r) == Journal(r, "armed", "PREPARED", "boundary")

OpenJournal(r) == Journal(r, "armed", "WRITING_RECORDS", "boundary")

\* Any error code of mark_canonical_write_started leads to the pre-write abort.
MarkStarted(r) ==
  /\ pc[r] = "boundary"
  /\ Remote(r, "mark", holder = r /\ L!StartWriting, UNCHANGED lease, "writing", "abort")
  /\ UNCHANGED <<durable, local, at, foreign>>

\* Records are rechecked against the plan right before each write, indexes are
\* simply rewritten.  An unconfirmed write stops the run; a failed recheck or a
\* confirmed mismatch is a deterministic failure.
Rechecked(r, f) == f \in 1..NRecords => canon[f] = origin[r][f]

WriteFile(r) ==
  LET f == at[r] + 1 IN
  /\ pc[r] = "writing"
  /\ f \in File
  /\ f = NRecords + 1 => journal[r] = "REBUILDING_INDEXES"
  /\ \/ /\ Rechecked(r, f)
        /\ Remote(r, "write", PutFile(f, r), UNCHANGED durable, "writing", "stopped")
     \/ ~Rechecked(r, f) /\ Goto(r, "rollback") /\ UNCHANGED <<durable, faults>>
     \/ /\ "verify" \in UncertainAt
        /\ Fault
        /\ PutFile(f, r)
        /\ Goto(r, "rollback")
  /\ at' = [at EXCEPT ![r] = f]
  /\ UNCHANGED <<lease, local, foreign>>

\* The first index write is preceded by the journal of the index phase.
EnterIndexPhase(r) ==
  /\ at[r] = NRecords
  /\ journal[r] = "WRITING_RECORDS"
  /\ Journal(r, "writing", "REBUILDING_INDEXES", "writing")

VerifyCanonical(r) ==
  /\ pc[r] = "writing"
  /\ at[r] = NFiles
  /\ IF canon = Image(r)
     THEN Goto(r, "verifying") /\ UNCHANGED faults
     ELSE Goto(r, "rollback") /\ UNCHANGED faults
  /\ UNCHANGED <<durable, lease, local, at, foreign>>

StoreVerifying(r) == Journal(r, "verifying", "VERIFYING", "verified")

\* build_receipt reads every target once more before the receipt is stored.
StoreReceipt(r) ==
  /\ pc[r] = "verified"
  /\ \/ /\ canon = Image(r)
        /\ Remote(r, "receipt",
                  /\ receipt' = [receipt EXCEPT ![r] = TRUE]
                  /\ UNCHANGED <<canon, journal, before, content>>,
                  UNCHANGED durable, "receipted", "stopped")
     \/ canon # Image(r) /\ Goto(r, "rollback") /\ UNCHANGED <<durable, faults>>
  /\ UNCHANGED <<lease, local, at, foreign>>

StorePending(r) == Journal(r, "receipted", "COMMITTED_PENDING_RECEIPT", "pending")

Commit(r) ==
  /\ pc[r] = "pending"
  /\ Remote(r, "journal",
            /\ journal' = [journal EXCEPT ![r] = "COMMITTED"]
            /\ content' = r
            /\ UNCHANGED <<canon, before, receipt>>,
            UNCHANGED durable, "release_committed", "stopped")
  /\ UNCHANGED <<lease, local, at, foreign>>

-----------------------------------------------------------------------------
(* Steps that a publisher and the CLI share.                                *)

Held(p) == holder = Subject(p) /\ written

\* An error of release_committed never starts a rollback.
ReleaseCommitted(p) ==
  /\ pc[p] = "release_committed"
  /\ \/ Held(p) /\ Remote(p, "release", L!Finish("VERIFIED_COMMITTED"),
                          UNCHANGED lease, Over(p), Over(p))
     \/ ~Held(p) /\ Goto(p, Over(p)) /\ UNCHANGED <<lease, faults>>
  /\ UNCHANGED <<durable, local, at, foreign>>

\* mark_aborted_prewrite returns its errors: the lease is then not released.
StoreAborted(p) == Journal(p, "abort", "ABORTED_PREWRITE", "release_abort")

ReleaseAbort(p) ==
  LET step == IF journal[Subject(p)] = "none" THEN "release_unarmed" ELSE "release" IN
  /\ pc[p] = "release_abort"
  /\ \/ /\ holder = Subject(p) /\ ~written
        /\ Remote(p, step, L!Abort, UNCHANGED lease, Over(p), Over(p))
     \/ /\ ~(holder = Subject(p) /\ ~written)
        /\ Goto(p, Over(p)) /\ UNCHANGED <<lease, faults>>
  /\ UNCHANGED <<durable, local, at, foreign>>

\* Mutant of RestoreFile: files that the run created are left in place.
RestoreFileKeepsCreated(p) ==
  LET f == at[p] + 1
      old == before[Subject(p)][f] IN
  /\ pc[p] = "restoring"
  /\ f \in File
  /\ IF old = Nothing THEN UNCHANGED durable ELSE PutFile(f, old)
  /\ at' = [at EXCEPT ![p] = f]
  /\ UNCHANGED <<lease, local, pc, faults, foreign>>

\* execute_recovery, one file: bytes that existed are written back, a file that
\* did not exist is deleted, and deletefile of a missing file is an error that
\* raises RemoteUncertainExit.
RestoreFile(p) ==
  LET f == at[p] + 1
      old == before[Subject(p)][f] IN
  /\ pc[p] = "restoring"
  /\ f \in File
  /\ \/ /\ old = Nothing => canon[f] # Nothing
        /\ Remote(p, "restore", PutFile(f, old), UNCHANGED durable, "restoring", Over(p))
     \/ old = Nothing /\ canon[f] = Nothing /\ Goto(p, Over(p)) /\ UNCHANGED <<durable, faults>>
  /\ at' = [at EXCEPT ![p] = f]
  /\ UNCHANGED <<lease, local, foreign>>

\* Mutant of StoreRecovered: RECOVERED is stored before every file is restored.
StoreRecoveredEarly(p) ==
  Journal(p, "restoring", "RECOVERED", "release_recovered")

\* The rollback ends with the check of the master index hash of the plan.
StoreRecovered(p) ==
  /\ at[p] = NFiles
  /\ IF canon[Master] = origin[Subject(p)][Master]
     THEN Journal(p, "restoring", "RECOVERED", "release_recovered")
     ELSE /\ pc[p] = "restoring" /\ Goto(p, Over(p))
          /\ UNCHANGED <<durable, lease, local, at, faults, foreign>>

\* verify_recovered_state, before the CLI releases or aborts.
Restored(r) == canon = before[r] /\ canon[Master] = origin[r][Master]

ReleaseRecovered(p) ==
  /\ pc[p] = "release_recovered"
  /\ LET allowed == Held(p) /\ (p = Cli => Restored(Subject(p))) IN
     \/ allowed /\ Remote(p, "release", L!Finish("VERIFIED_RECOVERED"),
                          UNCHANGED lease, Over(p), Over(p))
     \/ ~allowed /\ Goto(p, Over(p)) /\ UNCHANGED <<lease, faults>>
  /\ UNCHANGED <<durable, local, at, foreign>>

-----------------------------------------------------------------------------
(* The publisher's own rollback: ownership is read once, then the journal is *)
(* stored, then every file must hold bytes from before or after the run.     *)

CheckOwner(r) ==
  /\ pc[r] = "rollback"
  /\ Goto(r, IF holder = r /\ written THEN "require_recovery" ELSE "stopped")
  /\ UNCHANGED <<durable, lease, local, at, faults, foreign>>

RequireRecovery(r) == Journal(r, "require_recovery", "RECOVERY_REQUIRED", "checking")

CheckBeforeRestore(r) ==
  /\ pc[r] = "checking"
  /\ Goto(r, IF \A f \in File : canon[f] \in {before[r][f], r} THEN "restoring" ELSE "stopped")
  /\ at' = [at EXCEPT ![r] = 0]
  /\ UNCHANGED <<durable, lease, local, faults, foreign>>

-----------------------------------------------------------------------------
(* The recovery CLI and the committed-release reconciliation.               *)

\* Mutant of Restart: a RECOVERED journal is not released.
RestartForgetsRecovered(r) ==
  CASE ~written /\ journal[r] \in {"PREPARED", "WRITING_RECORDS"} /\ Restored(r) -> "abort"
    [] ~written /\ journal[r] = "ABORTED_PREWRITE" -> "release_abort"
    [] written /\ journal[r] \in Recoverable -> "restoring"
    [] written /\ journal[r] = "COMMITTED" /\ receipt[r] /\ canon = Image(r) ->
         "release_committed"
    [] OTHER -> "idle"

\* classify_restart_action: what the state of lease and journal calls for.
Restart(r) ==
  CASE ~written /\ journal[r] \in {"PREPARED", "WRITING_RECORDS"} /\ Restored(r) -> "abort"
    [] ~written /\ journal[r] = "ABORTED_PREWRITE" -> "release_abort"
    [] written /\ journal[r] = "RECOVERED" -> "release_recovered"
    [] written /\ journal[r] \in Recoverable -> "restoring"
    [] written /\ journal[r] = "COMMITTED" /\ receipt[r] /\ canon = Image(r) ->
         "release_committed"
    [] OTHER -> "idle"

StartRestart ==
  /\ pc[Cli] = "idle"
  /\ holder # NoRun
  /\ ConcurrentRecovery \/ \A r \in Run : pc[r] \in Resting
  /\ Restart(holder) # "idle"
  /\ patient' = holder
  /\ Goto(Cli, Restart(holder))
  /\ at' = [at EXCEPT ![Cli] = 0]
  /\ UNCHANGED <<durable, lease, origin, faults, foreign>>

-----------------------------------------------------------------------------
(* The environment.                                                         *)

\* A run that is killed is over, the CLI can be started again.
Crash(p) ==
  /\ pc[p] \in CrashAt \ Resting
  /\ Fault
  /\ Goto(p, Over(p))
  /\ UNCHANGED <<durable, lease, local, at, foreign>>

\* Somebody else replaces a file of the library.
ForeignWrite(f) ==
  /\ foreign < MaxForeign
  /\ foreign' = foreign + 1
  /\ PutFile(f, Foreign)
  /\ UNCHANGED <<lease, local, pc, at, faults>>

Publish(r) ==
  \/ Acquire(r) \/ Busy(r) \/ Revalidate(r) \/ Capture(r) \/ ArmRecovery(r)
  \/ OpenJournal(r) \/ MarkStarted(r) \/ WriteFile(r) \/ EnterIndexPhase(r)
  \/ VerifyCanonical(r) \/ StoreVerifying(r) \/ StoreReceipt(r) \/ StorePending(r)
  \/ Commit(r) \/ CheckOwner(r) \/ RequireRecovery(r) \/ CheckBeforeRestore(r)

Finalize(p) ==
  \/ ReleaseCommitted(p) \/ StoreAborted(p) \/ ReleaseAbort(p)
  \/ RestoreFile(p) \/ StoreRecovered(p) \/ ReleaseRecovered(p)

Next ==
  \/ \E r \in Run : Preflight(r) \/ Publish(r)
  \/ StartRestart
  \/ \E p \in Process : Finalize(p) \/ Crash(p)
  \/ \E f \in File : ForeignWrite(f)

Spec == Init /\ [][Next]_vars

\* A running process goes on, and somebody starts the recovery of a stopped run.
Fairness ==
  /\ \A r \in Run : WF_vars(Publish(r))
  /\ \A p \in Process : WF_vars(Finalize(p))
  /\ WF_vars(StartRestart)

FairSpec == Spec /\ Fairness

-----------------------------------------------------------------------------
(* Properties.                                                              *)

Point ==
  {"idle", "acquire", "owned", "revalidated", "captured", "armed", "boundary",
   "writing", "verifying", "verified", "receipted", "pending", "release_committed",
   "abort", "release_abort", "rollback", "require_recovery", "checking",
   "restoring", "release_recovered", "stopped"}

Bytes == Run \cup {Base, Nothing, Foreign}

TypeOK ==
  /\ canon \in [File -> Bytes]
  /\ journal \in [Run -> JournalState]
  /\ before \in [Run -> [File -> Bytes]]
  /\ origin \in [Run -> [File -> Bytes]]
  /\ receipt \in [Run -> BOOLEAN]
  /\ content \in Run \cup {Base}
  /\ holder \in Run \cup {NoRun}
  /\ written \in BOOLEAN
  /\ outcome \in L!Terminal \cup {"none", "PREWRITE_ABORT_VERIFIED"}
  /\ epoch \in Nat
  /\ pc \in [Process -> Point]
  /\ at \in [Process -> 0..NFiles]
  /\ patient \in Run \cup {NoRun}
  /\ faults \in 0..MaxFaults
  /\ foreign \in 0..MaxForeign

\* Readers see atomic publications: with the lease free, the library is the
\* complete result of the last committed run and of no other, until somebody
\* else writes to it.
Publication == INSTANCE AtomicPublication WITH
  Image <- Image,
  open <- holder,
  content <- content,
  shown <- IF holder # NoRun THEN NoRun
           ELSE IF foreign = 0 THEN canon ELSE Image(content)

PublicationAtomic == Publication!Spec

\* A COMMITTED journal is final: neither the run that wrote it nor a recovery
\* rolls it back, whatever became of the answer to the release.
CommittedIsFinal ==
  [][\A r \in Run :
       journal[r] = "COMMITTED" =>
         /\ journal'[r] = "COMMITTED"
         /\ holder = r /\ foreign' = foreign => canon' = canon]_vars

\* A lease released as recovered leaves the bytes of the last committed run, if
\* nobody else has written to the library.
RollbackExact ==
  holder = NoRun /\ outcome = "VERIFIED_RECOVERED" /\ foreign = 0 => canon = Image(content)

\* The coordinator and the journal agree about the write boundary, so that a
\* fresh process can tell what to do with a stopped run.
BoundaryAgreement ==
  \A r \in Run :
    holder = r /\ written => journal[r] \in Recoverable \cup {"COMMITTED", "RECOVERED"}

\* A run that ends while it owns the lease leaves a recovery journal behind.
OwnerLeavesJournal ==
  \A r \in Run : holder = r /\ pc[r] \in Resting => journal[r] # "none"

\* A publisher whose lease went to another transaction no longer restores files.
RestoreOwned ==
  [][\A r \in Run :
       pc[r] = "restoring" /\ at'[r] # at[r] /\ canon' # canon => holder \in {r, NoRun}]_vars

\* Every lease is given back in the end, by its run or by a recovery.
LeaseReturned == \A r \in Run : holder = r ~> holder # r
=============================================================================
