-------------------------- MODULE PublicationProofs --------------------------
(***************************************************************************)
(* Theorems about the two components that publish candidates, for every     *)
(* value of their constants.                                                *)
(*                                                                          *)
(* First ControlledPublish, which writes one transaction: any runs, any      *)
(* records and indexes, any number of lost answers, failed checks, crashes   *)
(* and foreign writes.  Then CandidateBatch, which makes the transaction out  *)
(* of what the finalizer sealed and settles it: any candidates, any answers  *)
(* of the model, any number of runs and failures.                            *)
(***************************************************************************)
EXTENDS ControlledPublish, CandidateBatch, TLAPS, FiniteSetTheorems


CliPoint ==
  {"idle", "abort", "release_abort", "restoring", "release_recovered", "release_committed"}

\* A process that works for the owner of the lease.
Working(p) == pc[p] \notin {"idle", "acquire", "stopped"}

\* One process works at a time, a run or the CLI, for the owner of the lease.
Owners ==
  /\ holder = NoRun => ~written
  /\ \A p \in Process : Working(p) => holder = Subject(p) /\ Subject(p) \in Run
  /\ \A p, q \in Process : Working(p) /\ Working(q) => p = q
  /\ \A r \in Run : pc[r] \in {"idle", "acquire"} => holder # r /\ journal[r] = "none"
  /\ pc[Cli] \in CliPoint

\* The journal that a process at `point` finds, and the boundary.
Fits(point, state) ==
  /\ point \in {"owned", "revalidated", "captured"} => state = "none"
  /\ point = "armed" => state = "PREPARED"
  /\ point = "boundary" => state = "WRITING_RECORDS"
  /\ point \in {"writing", "verifying", "verified", "receipted", "pending", "rollback",
                "require_recovery", "checking", "restoring"} => state \in Recoverable
  /\ point = "release_committed" => state = "COMMITTED"
  /\ point = "abort" => state \in {"none", "PREPARED", "WRITING_RECORDS"}
  /\ point = "release_abort" => state \in {"none", "ABORTED_PREWRITE"}
  /\ point = "release_recovered" => state = "RECOVERED"

Placed(point, boundary) ==
  /\ point \in {"owned", "revalidated", "captured", "armed", "boundary"} => ~boundary
  /\ point \in {"writing", "verifying", "verified", "receipted", "pending", "rollback",
                "release_committed", "require_recovery", "checking", "restoring",
                "release_recovered"} => boundary
  /\ "mark" \notin UncertainAt => (point \in {"abort", "release_abort"} => ~boundary)

Stages ==
  /\ \A p \in Process : Working(p) => Fits(pc[p], journal[Subject(p)]) /\ Placed(pc[p], written)
  /\ "mark" \notin UncertainAt => BoundaryAgreement

\* The run that is published last is the one whose journal is COMMITTED.
Contents ==
  /\ \A r \in Run : content = r => journal[r] = "COMMITTED"
  /\ \A r \in Run : holder = r /\ journal[r] = "COMMITTED" => content = r

\* The bytes of the library and of the before-images, until somebody else
\* writes: by the lease and its journal, and by the place of a process.
Saved ==
  /\ ~written => canon = Image(content)
  /\ \A r \in Run : holder = r =>
       /\ journal[r] \in Recoverable \cup {"PREPARED"} => before[r] = Image(content)
       /\ journal[r] \in {"COMMITTED", "RECOVERED"} => canon = Image(content)

Seen(p) ==
  /\ pc[p] = "captured" => before[Subject(p)] = Image(content)
  /\ pc[p] \in {"verifying", "verified", "receipted", "pending"} => canon = Image(Subject(p))
  /\ pc[p] = "restoring" => \A f \in 1..at[p] : canon[f] = before[Subject(p)][f]

Exact == Saved /\ \A p \in Process : Seen(p)

Undisturbed == foreign = 0 /\ "capture" \notin UncertainAt

IInv == TypeOK /\ Owners /\ Stages /\ Contents /\ (Undisturbed => Exact)

-----------------------------------------------------------------------------
(* Types.                                                                   *)

LEMMA Constants ==
  /\ NoRun \notin Run /\ Cli \notin Run /\ Base \notin Run /\ Cli \in Process /\ Run \subseteq Process
  /\ NFiles \in Nat /\ File = 1..NFiles /\ NRecords \in Nat /\ NRecords < NFiles
  /\ MaxFaults \in Nat /\ MaxForeign \in Nat
  BY ControlledPublishAssumption DEF Process, NFiles, File

LEMMA Images == Image(Base) \in [File -> Bytes] /\ \A r \in Run : Image(r) \in [File -> Bytes]
  BY DEF Image, Bytes

\* The variables other than those of the lease and of the processes.
LEMMA SubjectTyped ==
  ASSUME TypeOK, NEW p \in Process PROVE Subject(p) \in Run \cup {NoRun}
  BY Constants DEF TypeOK, Subject, Process

LEMMA FaultTyped == ASSUME TypeOK, Fault \/ UNCHANGED faults PROVE faults' \in 0..MaxFaults
  BY Constants DEF TypeOK, Fault

LEMMA GotoTyped ==
  ASSUME TypeOK, NEW p \in Process, NEW to \in Point, Goto(p, to)
  PROVE  pc' \in [Process -> Point] /\ pc'[p] = to /\ \A q \in Process \ {p} : pc'[q] = pc[q]
  BY DEF TypeOK, Goto

LEMMA DurableTyped ==
  ASSUME TypeOK, \/ UNCHANGED durable
                 \/ \E r \in Run, s \in JournalState : StoreJournal(r, s)
                 \/ \E f \in File, v \in Bytes : PutFile(f, v)
  PROVE  /\ canon' \in [File -> Bytes] /\ journal' \in [Run -> JournalState]
         /\ before' \in [Run -> [File -> Bytes]] /\ receipt' \in [Run -> BOOLEAN]
         /\ content' \in Run \cup {Base}
  BY DEF TypeOK, durable, StoreJournal, PutFile

-----------------------------------------------------------------------------
(* A step of the process that works: what it has to establish.              *)

LEMMA Alone ==
  ASSUME IInv, NEW p \in Process, Working(p)
  PROVE  /\ Subject(p) = holder /\ holder \in Run /\ pc[p] \in Point
         /\ Fits(pc[p], journal[holder]) /\ Placed(pc[p], written)
         /\ p = Cli => pc[p] \in CliPoint
         /\ \A q \in Process \ {p} : ~Working(q)
  BY DEF IInv, TypeOK, Owners, Stages

LEMMA OwnerStep ==
  ASSUME IInv, NEW p \in Process, Working(p), TypeOK', NEW to \in Point, Goto(p, to),
         to \notin {"idle", "acquire", "stopped"} \/ to = Over(p),
         p = Cli => to \in CliPoint,
         patient' = patient,
         \A q \in Run \ {holder} : journal'[q] = journal[q],
         \/ holder' = holder
         \/ holder' = NoRun /\ ~written' /\ to = Over(p),
         to # Over(p) => Fits(to, journal'[holder]) /\ Placed(to, written'),
         "mark" \notin UncertainAt => BoundaryAgreement',
         Contents',
         Undisturbed' => Saved' /\ (to # Over(p) => Seen(p)')
  PROVE  IInv'
  <1>1. /\ Subject(p) = holder /\ holder \in Run
        /\ \A q \in Process \ {p} : ~Working(q)
    BY Alone
  <1>2. pc'[p] = to /\ \A q \in Process \ {p} : pc'[q] = pc[q]
    BY GotoTyped DEF IInv
  <1>3. \A q \in Process \ {p} : ~Working(q)'
    BY <1>1, <1>2 DEF Working
  <1>4. Working(p)' => to # Over(p)
    BY <1>2 DEF Working, Over
  <1>5. \A q \in Process : Subject(q)' = Subject(q)
    BY DEF Subject
  <1>6. Owners'
    <2>1. holder' = NoRun => ~written'
      BY <1>1, Constants
    <2>2. \A q \in Process : Working(q)' => holder' = Subject(q)' /\ Subject(q)' \in Run
      BY <1>1, <1>3, <1>4, <1>5
    <2>3. \A q1, q2 \in Process : Working(q1)' /\ Working(q2)' => q1 = q2
      BY <1>3
    <2>4. \A r \in Run : pc'[r] \in {"idle", "acquire"} => holder' # r /\ journal'[r] = "none"
      <3> SUFFICES ASSUME NEW r \in Run, pc'[r] \in {"idle", "acquire"}
                   PROVE  holder' # r /\ journal'[r] = "none"
        OBVIOUS
      <3>1. r # p /\ r \in Process
        BY <1>2, Constants DEF Over
      <3>2. holder # r /\ journal[r] = "none"
        BY <1>2, <3>1 DEF IInv, Owners
      <3>3. QED
        BY <3>2, Constants
    <2>5. pc'[Cli] \in CliPoint
      BY <1>2, Constants DEF IInv, Owners
    <2>6. QED
      BY <2>1, <2>2, <2>3, <2>4, <2>5 DEF Owners
  <1>7. Stages'
    BY <1>1, <1>2, <1>3, <1>4, <1>5 DEF Stages
  <1>8. Undisturbed' => Exact'
    <2> SUFFICES ASSUME Undisturbed' PROVE Exact'
      OBVIOUS
    <2>1. \A q \in Process : ~Working(q)' => Seen(q)'
      BY DEF Working, Seen
    <2>2. Seen(p)'
      BY <1>4, <2>1
    <2>3. QED
      BY <1>3, <2>1, <2>2 DEF Exact
  <1>9. QED
    BY <1>6, <1>7, <1>8 DEF IInv

\* Where a process ends.
LEMMA Ends ==
  ASSUME NEW p \in Process
  PROVE  Over(p) \in Point /\ (p = Cli => Over(p) \in CliPoint) /\ (p # Cli => Over(p) = "stopped")
  BY DEF Over, Point, CliPoint

\* Nothing is written: only the place of the process changes.
LEMMA MoveStep ==
  ASSUME IInv, NEW p \in Process, Working(p), NEW to \in Point, Goto(p, to),
         to \notin {"idle", "acquire", "stopped"} \/ to = Over(p),
         p = Cli => to \in CliPoint,
         Fault \/ UNCHANGED faults,
         UNCHANGED <<durable, lease, local, foreign>>,
         at' \in [Process -> 0..NFiles],
         to # Over(p) => Fits(to, journal[holder]) /\ Placed(to, written),
         to # Over(p) /\ Undisturbed => Seen(p)'
  PROVE  IInv'
  <1>1. TypeOK'
    BY GotoTyped, FaultTyped DEF IInv, TypeOK, durable, lease, local
  <1>2. Contents' /\ ("mark" \notin UncertainAt => BoundaryAgreement')
    BY DEF IInv, Contents, Stages, BoundaryAgreement, durable, lease
  <1>3. Undisturbed' => Undisturbed /\ Saved'
    BY DEF IInv, Undisturbed, Exact, Saved, durable, lease
  <1>4. QED
    BY <1>1, <1>2, <1>3, OwnerStep DEF durable, lease, local

-----------------------------------------------------------------------------
(* Steps that only read.                                                    *)

LEMMA RevalidateStep ==
  ASSUME IInv, NEW r \in Run, Revalidate(r)
  PROVE  IInv'
  <1>1. r \in Process /\ r # Cli /\ pc[r] = "owned" /\ Working(r)
    BY Constants DEF Revalidate, Working
  <1>2. Fits("owned", journal[holder]) /\ Placed("owned", written)
    BY <1>1, Alone
  <1>3. /\ Fault \/ UNCHANGED faults
        /\ UNCHANGED <<durable, lease, local, at, foreign>>
    BY DEF Revalidate, Refuse
  <1>4. PICK to \in {"revalidated", "release_abort"} : Goto(r, to)
    BY DEF Revalidate, Refuse
  <1>5. Fits(to, journal[holder]) /\ Placed(to, written) /\ to \in Point
    BY <1>2, <1>4 DEF Fits, Placed, Point
  <1>6. Seen(r)'
    BY <1>1, <1>4, GotoTyped, <1>5 DEF Seen, IInv
  <1>7. at' \in [Process -> 0..NFiles]
    BY <1>3 DEF IInv, TypeOK
  <1>8. QED
    BY <1>1, <1>3, <1>4, <1>5, <1>6, <1>7, MoveStep

LEMMA VerifyStep ==
  ASSUME IInv, NEW r \in Run, VerifyCanonical(r)
  PROVE  IInv'
  <1>1. r \in Process /\ r # Cli /\ pc[r] = "writing" /\ Working(r)
    BY Constants DEF VerifyCanonical, Working
  <1>2. Fits("writing", journal[holder]) /\ Placed("writing", written)
    BY <1>1, Alone
  <1>3. UNCHANGED <<durable, lease, local, at, foreign, faults>>
    BY DEF VerifyCanonical
  <1>4. PICK to \in {"verifying", "rollback"} : Goto(r, to) /\ (to = "verifying" => canon = Image(r))
    BY DEF VerifyCanonical
  <1>5. Fits(to, journal[holder]) /\ Placed(to, written) /\ to \in Point
    BY <1>2, <1>4 DEF Fits, Placed, Point
  <1>6. Seen(r)'
    BY <1>1, <1>3, <1>4, <1>5, GotoTyped DEF Seen, IInv, Subject, durable
  <1>7. at' \in [Process -> 0..NFiles]
    BY <1>3 DEF IInv, TypeOK
  <1>8. QED
    BY <1>1, <1>3, <1>4, <1>5, <1>6, <1>7, MoveStep

LEMMA CheckSteps ==
  ASSUME IInv, NEW r \in Run, CheckOwner(r) \/ CheckBeforeRestore(r)
  PROVE  IInv'
  <1>1. r \in Process /\ r # Cli /\ pc[r] \in {"rollback", "checking"} /\ Working(r)
    BY Constants DEF CheckOwner, CheckBeforeRestore, Working
  <1>2. Fits(pc[r], journal[holder]) /\ Placed(pc[r], written)
    BY <1>1, Alone
  <1>3. UNCHANGED <<durable, lease, local, foreign, faults>>
    BY DEF CheckOwner, CheckBeforeRestore
  <1>4. PICK to \in {"require_recovery", "restoring", "stopped"} :
          Goto(r, to) /\ (to = "restoring" => at' = [at EXCEPT ![r] = 0])
    BY DEF CheckOwner, CheckBeforeRestore
  <1>5. Fits(to, journal[holder]) /\ Placed(to, written) /\ to \in Point
    BY <1>1, <1>2, <1>4 DEF Fits, Placed, Point
  <1>6. at' \in [Process -> 0..NFiles]
    <2>1. at \in [Process -> 0..NFiles] /\ 0 \in 0..NFiles
      BY Constants DEF IInv, TypeOK
    <2>2. at' = at \/ at' = [at EXCEPT ![r] = 0]
      BY DEF CheckOwner, CheckBeforeRestore
    <2>3. QED
      BY <2>1, <2>2
  <1>7. pc'[r] = to
    BY <1>1, <1>4, <1>5, GotoTyped DEF IInv
  <1>8. to = "restoring" => at'[r] = 0
    BY <1>1, <1>4 DEF IInv, TypeOK
  <1>9. Seen(r)'
    BY <1>4, <1>7, <1>8 DEF Seen
  <1>10. QED
    BY <1>1, <1>3, <1>4, <1>5, <1>6, <1>9, Ends, MoveStep

LEMMA CrashStep ==
  ASSUME IInv, NEW p \in Process, Working(p), Crash(p)
  PROVE  IInv'
  <1>1. Goto(p, Over(p)) /\ Fault /\ UNCHANGED <<durable, lease, local, at, foreign>>
    BY DEF Crash
  <1>2. at' \in [Process -> 0..NFiles]
    BY <1>1 DEF IInv, TypeOK
  <1>3. QED
    BY <1>1, <1>2, Ends, MoveStep

-----------------------------------------------------------------------------
(* Steps that store the journal.                                            *)

\* The journal goes from state to state as its process goes from point to point.
Transitions ==
  {<<"armed", "WRITING_RECORDS", "boundary">>,
   <<"writing", "REBUILDING_INDEXES", "writing">>,
   <<"verifying", "VERIFYING", "verified">>,
   <<"receipted", "COMMITTED_PENDING_RECEIPT", "pending">>,
   <<"abort", "ABORTED_PREWRITE", "release_abort">>,
   <<"require_recovery", "RECOVERY_REQUIRED", "checking">>,
   <<"restoring", "RECOVERED", "release_recovered">>}

LEMMA JournalStep ==
  ASSUME IInv, NEW p \in Process, NEW from, NEW state, NEW to,
         <<from, state, to>> \in Transitions, Journal(p, from, state, to),
         state = "RECOVERED" /\ Undisturbed => canon = Image(content)
  PROVE  IInv'
  <1>1. /\ pc[p] = from /\ Working(p) /\ to \in Point /\ state \in JournalState
        /\ to \notin {"idle", "acquire", "stopped"}
    BY DEF Journal, Working, Transitions, Point, JournalState
  <1>2. /\ Subject(p) = holder /\ holder \in Run
        /\ Fits(from, journal[holder]) /\ Placed(from, written)
        /\ p = Cli => from \in {"abort", "restoring"}
    BY <1>1, Alone DEF Transitions, CliPoint
  <1>3. PICK next \in {to, Over(p)} :
          /\ Goto(p, next) /\ (Fault \/ UNCHANGED faults)
          /\ StoreJournal(holder, state) \/ (UNCHANGED durable /\ next = Over(p))
    BY <1>2 DEF Journal, Remote
  <1>4. UNCHANGED <<lease, local, at, foreign>> /\ UNCHANGED <<canon, before, receipt, content>>
    BY <1>3 DEF Journal, StoreJournal, durable
  <1>5. next \in Point /\ (p = Cli => next \in CliPoint) /\ (next = to \/ next = Over(p))
    BY <1>1, <1>2, <1>3, Ends DEF Transitions, CliPoint
  <1>6. journal' \in [Run -> JournalState] /\ \A q \in Run \ {holder} : journal'[q] = journal[q]
    BY <1>1, <1>2, <1>3 DEF StoreJournal, durable, IInv, TypeOK
  <1>7. journal'[holder] = state \/ (journal'[holder] = journal[holder] /\ next = Over(p))
    BY <1>1, <1>2, <1>3 DEF StoreJournal, durable, IInv, TypeOK
  <1>8. TypeOK'
    BY <1>3, <1>4, <1>5, <1>6, GotoTyped, FaultTyped DEF IInv, TypeOK, lease, local
  <1>9. next # Over(p) => Fits(next, journal'[holder]) /\ Placed(next, written')
    BY <1>2, <1>4, <1>5, <1>7 DEF Transitions, Fits, Placed, Recoverable, lease
  <1>10. "mark" \notin UncertainAt => BoundaryAgreement'
    BY <1>2, <1>4, <1>6, <1>7
       DEF IInv, Stages, BoundaryAgreement, Transitions, Fits, Placed, Recoverable, lease
  <1>11. Contents'
    BY <1>2, <1>4, <1>6, <1>7 DEF IInv, Contents, Transitions, Fits, Recoverable, lease
  <1>12. ASSUME Undisturbed' PROVE Saved' /\ (next # Over(p) => Seen(p)')
    <2>1. Undisturbed /\ Saved /\ Seen(p)
      BY <1>4, <1>12 DEF IInv, Undisturbed, Exact
    <2>2. Saved'
      BY <1>2, <1>4, <1>6, <1>7, <2>1 DEF Saved, Transitions, Fits, Recoverable, lease
    <2>3. ASSUME next # Over(p) PROVE Seen(p)'
      <3>1. pc'[p] = to /\ Subject(p)' = Subject(p)
        BY <1>1, <1>3, <1>4, <1>5, <2>3, GotoTyped DEF IInv, Subject, local
      <3>2. QED
        BY <1>1, <1>4, <2>1, <3>1 DEF Seen, Transitions
    <2>4. QED
      BY <2>2, <2>3
  <1>13. QED
    BY <1>1, <1>3, <1>4, <1>5, <1>6, <1>8, <1>9, <1>10, <1>11, <1>12, OwnerStep DEF lease, local

LEMMA JournalSteps ==
  ASSUME IInv, NEW r \in Run,
         \/ OpenJournal(r) \/ EnterIndexPhase(r) \/ StoreVerifying(r) \/ StorePending(r)
         \/ RequireRecovery(r)
  PROVE  IInv'
  <1>1. r \in Process
    BY Constants
  <1>2. PICK t \in Transitions : t[2] # "RECOVERED" /\ Journal(r, t[1], t[2], t[3])
    BY DEF OpenJournal, EnterIndexPhase, StoreVerifying, StorePending, RequireRecovery, Transitions
  <1>3. t = <<t[1], t[2], t[3]>>
    BY DEF Transitions
  <1>4. QED
    BY <1>1, <1>2, <1>3, JournalStep

LEMMA StoreAbortedStep ==
  ASSUME IInv, NEW p \in Process, StoreAborted(p)
  PROVE  IInv'
  <1>1. <<"abort", "ABORTED_PREWRITE", "release_abort">> \in Transitions
    BY DEF Transitions
  <1>2. QED
    BY <1>1, JournalStep DEF StoreAborted

\* All files are restored when RECOVERED is stored.
LEMMA StoreRecoveredStep ==
  ASSUME IInv, NEW p \in Process, StoreRecovered(p)
  PROVE  IInv'
  <1>1. pc[p] = "restoring" /\ at[p] = NFiles
    BY DEF StoreRecovered, Journal
  <1>2. Working(p)
    BY <1>1 DEF Working
  <1>3. CASE Journal(p, "restoring", "RECOVERED", "release_recovered")
    <2>1. ASSUME Undisturbed PROVE canon = Image(content)
      <3>1. Saved /\ Seen(p)
        BY <2>1 DEF IInv, Exact
      <3>2. Subject(p) = holder /\ holder \in Run /\ journal[holder] \in Recoverable
        BY <1>1, <1>2, Alone DEF Fits
      <3>3. before[holder] = Image(content)
        BY <3>1, <3>2 DEF Saved
      <3>4. \A f \in File : canon[f] = before[holder][f]
        BY <1>1, <3>1, <3>2, Constants DEF Seen
      <3>5. canon \in [File -> Bytes] /\ before[holder] \in [File -> Bytes]
        BY <3>2 DEF IInv, TypeOK
      <3>6. canon = before[holder]
        BY <3>4, <3>5
      <3>7. QED
        BY <3>3, <3>6
    <2>2. <<"restoring", "RECOVERED", "release_recovered">> \in Transitions
      BY DEF Transitions
    <2>3. QED
      BY <1>3, <2>1, <2>2, JournalStep
  <1>4. CASE ~Journal(p, "restoring", "RECOVERED", "release_recovered")
    <2>1. Goto(p, Over(p)) /\ UNCHANGED <<durable, lease, local, at, faults, foreign>>
      BY <1>4 DEF StoreRecovered
    <2>2. at' \in [Process -> 0..NFiles]
      BY <2>1 DEF IInv, TypeOK
    <2>3. QED
      BY <1>2, <2>1, <2>2, Ends, MoveStep
  <1>5. QED
    BY <1>3, <1>4

\* The journal is stored PREPARED or the run goes to its abort.
LEMMA ArmStep ==
  ASSUME IInv, NEW r \in Run, ArmRecovery(r)
  PROVE  IInv'
  <1>1. r \in Process /\ r # Cli /\ pc[r] = "captured" /\ Working(r)
    BY Constants DEF ArmRecovery, Working
  <1>2. /\ Subject(r) = r /\ holder = r /\ Fits("captured", journal[r]) /\ Placed("captured", written)
    BY <1>1, Alone DEF Subject
  <1>3. PICK to \in {"armed", "abort"} :
          /\ Goto(r, to) /\ (Fault \/ UNCHANGED faults)
          /\ StoreJournal(r, "PREPARED") \/ (UNCHANGED durable /\ to = "abort")
    BY DEF ArmRecovery, Remote
  <1>4. UNCHANGED <<lease, local, at, foreign>> /\ UNCHANGED <<canon, before, receipt, content>>
    BY <1>3 DEF ArmRecovery, StoreJournal, durable
  <1>5. journal' \in [Run -> JournalState] /\ \A q \in Run \ {r} : journal'[q] = journal[q]
    BY <1>3 DEF StoreJournal, durable, IInv, TypeOK, JournalState
  <1>6. journal'[r] = "PREPARED" \/ (journal'[r] = "none" /\ to = "abort")
    BY <1>2, <1>3 DEF StoreJournal, durable, IInv, TypeOK, Fits
  <1>7. TypeOK' /\ to \in Point
    BY <1>1, <1>3, <1>4, <1>5, GotoTyped, FaultTyped DEF IInv, TypeOK, lease, local, Point
  <1>8. Fits(to, journal'[holder]) /\ Placed(to, written')
    BY <1>2, <1>3, <1>4, <1>6 DEF Fits, Placed, lease
  <1>9. BoundaryAgreement'
    BY <1>2, <1>4 DEF Placed, BoundaryAgreement, lease
  <1>10. Contents'
    BY <1>2, <1>4, <1>5, <1>6 DEF IInv, Contents, Fits, lease
  <1>11. ASSUME Undisturbed' PROVE Saved' /\ Seen(r)'
    <2>1. Undisturbed /\ Saved /\ Seen(r)
      BY <1>1, <1>4, <1>11 DEF IInv, Undisturbed, Exact
    <2>2. before[r] = Image(content)
      BY <1>1, <1>2, <2>1 DEF Seen
    <2>3. Saved'
      BY <1>2, <1>4, <1>6, <2>1, <2>2 DEF Saved, Recoverable, Placed, lease
    <2>4. Seen(r)'
      BY <1>1, <1>3, <1>7, GotoTyped DEF IInv, Seen
    <2>5. QED
      BY <2>3, <2>4
  <1>12. QED
    BY <1>1, <1>2, <1>3, <1>4, <1>5, <1>7, <1>8, <1>9, <1>10, <1>11, OwnerStep DEF lease, local

-----------------------------------------------------------------------------
(* The before-images and the boundary.                                      *)

LEMMA CaptureStep ==
  ASSUME IInv, NEW r \in Run, Capture(r)
  PROVE  IInv'
  <1>1. r \in Process /\ r # Cli /\ pc[r] = "revalidated" /\ Working(r)
    BY Constants DEF Capture, Working
  <1>2. Subject(r) = r /\ holder = r /\ Fits("revalidated", journal[r]) /\ Placed("revalidated", written)
    BY <1>1, Alone DEF Subject
  <1>3. /\ Goto(r, "captured") /\ (Fault \/ UNCHANGED faults)
        /\ UNCHANGED <<canon, journal, receipt, content, lease, local, at, foreign>>
    BY DEF Capture
  <1>4. PICK image \in [File -> Bytes] :
          /\ before' = [before EXCEPT ![r] = image]
          /\ "capture" \notin UncertainAt => image = canon
    BY DEF Capture, IInv, TypeOK, Bytes
  <1>5. "captured" \in Point
    BY DEF Point
  <1>6. TypeOK'
    BY <1>1, <1>3, <1>4, <1>5, GotoTyped, FaultTyped DEF IInv, TypeOK, lease, local
  <1>7. before'[r] = image
    BY <1>4 DEF IInv, TypeOK
  <1>8. Fits("captured", journal'[holder]) /\ Placed("captured", written')
    BY <1>2, <1>3 DEF Fits, Placed, lease
  <1>9. BoundaryAgreement' /\ Contents'
    BY <1>2, <1>3 DEF IInv, Placed, BoundaryAgreement, Contents, lease
  <1>10. ASSUME Undisturbed' PROVE Saved' /\ Seen(r)'
    <2>1. Undisturbed /\ Saved
      BY <1>3, <1>10 DEF IInv, Undisturbed, Exact
    <2>2. before'[r] = Image(content)
      BY <1>2, <1>4, <1>7, <2>1 DEF Saved, Undisturbed, Placed
    <2>3. Saved'
      BY <1>2, <1>3, <2>1, <2>2 DEF Saved, Fits, Placed, Recoverable, lease
    <2>4. Seen(r)'
      BY <1>1, <1>3, <1>5, <2>2, GotoTyped DEF IInv, Seen, Subject
    <2>5. QED
      BY <2>3, <2>4
  <1>11. QED
    BY <1>1, <1>3, <1>5, <1>6, <1>8, <1>9, <1>10, OwnerStep, Ends DEF lease, local

LEMMA MarkStep ==
  ASSUME IInv, NEW r \in Run, MarkStarted(r)
  PROVE  IInv'
  <1>1. r \in Process /\ r # Cli /\ pc[r] = "boundary" /\ Working(r)
    BY Constants DEF MarkStarted, Working
  <1>2. Subject(r) = r /\ holder = r /\ journal[r] = "WRITING_RECORDS" /\ ~written
    BY <1>1, Alone DEF Subject, Fits, Placed
  <1>3. PICK to \in {"writing", "abort"} :
          /\ Goto(r, to) /\ (Fault \/ UNCHANGED faults)
          /\ L!StartWriting \/ (UNCHANGED lease /\ to = "abort")
          /\ to = "abort" => "mark" \in UncertainAt
    BY DEF MarkStarted, Remote
  <1>4. UNCHANGED <<durable, local, at, foreign>> /\ holder' = holder /\ to \in Point
    BY <1>3 DEF MarkStarted, L!StartWriting, lease, Point
  <1>5. written' \in BOOLEAN /\ (to = "writing" => written') /\ outcome' = outcome /\ epoch' \in Nat
    <2>1. written \in BOOLEAN /\ epoch \in Nat
      BY DEF IInv, TypeOK
    <2>2. CASE L!StartWriting
      BY <2>1, <2>2 DEF L!StartWriting
    <2>3. CASE UNCHANGED lease /\ to = "abort"
      BY <2>1, <2>3 DEF lease
    <2>4. QED
      BY <1>3, <2>2, <2>3
  <1>6. TypeOK'
    BY <1>1, <1>3, <1>4, <1>5, GotoTyped, FaultTyped DEF IInv, TypeOK, durable, local
  <1>7. Fits(to, journal'[holder]) /\ Placed(to, written')
    BY <1>2, <1>3, <1>4, <1>5 DEF Fits, Placed, Recoverable, durable
  <1>8. BoundaryAgreement' /\ Contents'
    BY <1>2, <1>4 DEF IInv, BoundaryAgreement, Contents, Recoverable, durable
  <1>9. ASSUME Undisturbed' PROVE Saved' /\ Seen(r)'
    <2>1. Undisturbed /\ Saved
      BY <1>4, <1>9 DEF IInv, Undisturbed, Exact
    <2>2. Saved'
      BY <1>2, <1>4, <2>1 DEF Saved, durable
    <2>3. Seen(r)'
      BY <1>1, <1>3, <1>4, GotoTyped DEF IInv, Seen
    <2>4. QED
      BY <2>2, <2>3
  <1>10. QED
    BY <1>1, <1>3, <1>4, <1>6, <1>7, <1>8, <1>9, OwnerStep, Ends DEF durable, local

-----------------------------------------------------------------------------
(* Writing, and the receipt and the journal of the commit.                  *)

LEMMA WriteStep ==
  ASSUME IInv, NEW r \in Run, WriteFile(r)
  PROVE  IInv'
  <1>1. r \in Process /\ r # Cli /\ pc[r] = "writing" /\ Working(r)
    BY Constants DEF WriteFile, Working
  <1>2. Subject(r) = r /\ holder = r /\ journal[r] \in Recoverable /\ written
    BY <1>1, Alone DEF Subject, Fits, Placed
  <1>3. PICK to \in {"writing", "rollback", "stopped"} :
          Goto(r, to) /\ (Fault \/ UNCHANGED faults)
    BY DEF WriteFile, Remote
  <1>4. PICK f \in File : at' = [at EXCEPT ![r] = f] /\ (PutFile(f, r) \/ UNCHANGED durable)
    BY DEF WriteFile, Remote
  <1>5. UNCHANGED <<lease, local, foreign, journal, before, receipt, content>>
    BY <1>4 DEF WriteFile, PutFile, durable
  <1>6. to \in Point /\ r \in Bytes
    BY DEF Point, Bytes
  <1>7. at' \in [Process -> 0..NFiles]
    <2>1. f \in 0..NFiles /\ at \in [Process -> 0..NFiles]
      BY Constants DEF IInv, TypeOK
    <2>2. QED
      BY <1>4, <2>1
  <1>8. TypeOK'
    BY <1>1, <1>3, <1>4, <1>5, <1>6, <1>7, GotoTyped, FaultTyped, DurableTyped
       DEF IInv, TypeOK, lease, local
  <1>9. Fits(to, journal'[holder]) /\ Placed(to, written')
    BY <1>2, <1>3, <1>5 DEF Fits, Placed, lease
  <1>10. BoundaryAgreement' /\ Contents'
    BY <1>2, <1>5 DEF IInv, BoundaryAgreement, Contents, lease
  <1>11. ASSUME Undisturbed' PROVE Saved' /\ Seen(r)'
    <2>1. Undisturbed /\ Saved
      BY <1>5, <1>11 DEF IInv, Undisturbed, Exact
    <2>2. Saved'
      BY <1>2, <1>5, <2>1 DEF Saved, Recoverable, lease
    <2>3. Seen(r)'
      BY <1>1, <1>3, <1>6, GotoTyped DEF IInv, Seen
    <2>4. QED
      BY <2>2, <2>3
  <1>12. QED
    BY <1>1, <1>2, <1>3, <1>5, <1>6, <1>8, <1>9, <1>10, <1>11, OwnerStep, Ends DEF lease, local

LEMMA ReceiptStep ==
  ASSUME IInv, NEW r \in Run, StoreReceipt(r)
  PROVE  IInv'
  <1>1. r \in Process /\ r # Cli /\ pc[r] = "verified" /\ Working(r)
    BY Constants DEF StoreReceipt, Working
  <1>2. Subject(r) = r /\ holder = r /\ Fits("verified", journal[r]) /\ Placed("verified", written)
    BY <1>1, Alone DEF Subject
  <1>3. PICK to \in {"receipted", "rollback", "stopped"} :
          /\ Goto(r, to) /\ (Fault \/ UNCHANGED faults)
          /\ receipt' = [receipt EXCEPT ![r] = TRUE] \/ receipt' = receipt
          /\ UNCHANGED <<canon, journal, before, content, lease, local, at, foreign>>
          /\ to = "receipted" => canon = Image(r)
    BY DEF StoreReceipt, Remote, durable
  <1>4. to \in Point
    BY DEF Point
  <1>5. receipt' \in [Run -> BOOLEAN]
    BY <1>3 DEF IInv, TypeOK
  <1>6. TypeOK'
    BY <1>1, <1>3, <1>4, <1>5, GotoTyped, FaultTyped DEF IInv, TypeOK, lease, local
  <1>7. Fits(to, journal'[holder]) /\ Placed(to, written')
    BY <1>2, <1>3 DEF Fits, Placed, lease
  <1>8. BoundaryAgreement' /\ Contents'
    BY <1>2, <1>3 DEF IInv, BoundaryAgreement, Contents, Fits, Recoverable, lease
  <1>9. ASSUME Undisturbed' PROVE Saved' /\ Seen(r)'
    <2>1. Undisturbed /\ Saved
      BY <1>3, <1>9 DEF IInv, Undisturbed, Exact
    <2>2. Saved'
      BY <1>3, <2>1 DEF Saved, lease
    <2>3. Seen(r)'
      BY <1>1, <1>3, <1>4, GotoTyped DEF IInv, Seen, Subject
    <2>4. QED
      BY <2>2, <2>3
  <1>10. QED
    BY <1>1, <1>2, <1>3, <1>4, <1>6, <1>7, <1>8, <1>9, OwnerStep, Ends DEF lease, local

LEMMA CommitStep ==
  ASSUME IInv, NEW r \in Run, Commit(r)
  PROVE  IInv'
  <1>1. r \in Process /\ r # Cli /\ pc[r] = "pending" /\ Working(r)
    BY Constants DEF Commit, Working
  <1>2. Subject(r) = r /\ holder = r /\ Fits("pending", journal[r]) /\ Placed("pending", written)
    BY <1>1, Alone DEF Subject
  <1>3. PICK to \in {"release_committed", "stopped"} :
          /\ Goto(r, to) /\ (Fault \/ UNCHANGED faults)
          /\ \/ journal' = [journal EXCEPT ![r] = "COMMITTED"] /\ content' = r
             \/ UNCHANGED <<journal, content>> /\ to = "stopped"
          /\ UNCHANGED <<canon, before, receipt, lease, local, at, foreign>>
    BY DEF Commit, Remote, durable
  <1>4. to \in Point
    BY DEF Point
  <1>5. journal' \in [Run -> JournalState] /\ \A q \in Run \ {r} : journal'[q] = journal[q]
    BY <1>3 DEF IInv, TypeOK, JournalState
  <1>6. \/ journal'[r] = "COMMITTED" /\ content' = r
        \/ journal'[r] = journal[r] /\ content' = content /\ to = "stopped"
    BY <1>3 DEF IInv, TypeOK
  <1>7. TypeOK'
    BY <1>1, <1>3, <1>4, <1>5, GotoTyped, FaultTyped DEF IInv, TypeOK, lease, local
  <1>8. Fits(to, journal'[holder]) /\ Placed(to, written')
    BY <1>2, <1>3, <1>6 DEF Fits, Placed, lease
  <1>9. BoundaryAgreement'
    BY <1>2, <1>3, <1>6 DEF BoundaryAgreement, Fits, Recoverable, lease
  <1>10. Contents'
    BY <1>2, <1>3, <1>5, <1>6 DEF IInv, Contents, Fits, lease
  <1>11. ASSUME Undisturbed' PROVE Saved' /\ Seen(r)'
    <2>1. Undisturbed /\ Saved /\ Seen(r)
      BY <1>1, <1>3, <1>11 DEF IInv, Undisturbed, Exact
    <2>2. canon = Image(r)
      BY <1>1, <1>2, <2>1 DEF Seen
    <2>3. Saved'
      BY <1>2, <1>3, <1>6, <2>1, <2>2 DEF Saved, Fits, Placed, Recoverable, lease
    <2>4. Seen(r)'
      BY <1>1, <1>3, <1>4, GotoTyped DEF IInv, Seen
    <2>5. QED
      BY <2>3, <2>4
  <1>12. QED
    BY <1>1, <1>2, <1>3, <1>4, <1>5, <1>7, <1>8, <1>9, <1>10, <1>11, OwnerStep, Ends DEF lease,
       local

-----------------------------------------------------------------------------
(* The steps a publisher and the CLI share.                                 *)

LEMMA RestoreStep ==
  ASSUME IInv, NEW p \in Process, RestoreFile(p)
  PROVE  IInv'
  <1> DEFINE f == at[p] + 1
             old == before[Subject(p)][f]
  <1>1. pc[p] = "restoring" /\ Working(p) /\ f \in File
    BY DEF RestoreFile, Working
  <1>2. Subject(p) = holder /\ holder \in Run /\ journal[holder] \in Recoverable /\ written
    BY <1>1, Alone DEF Fits, Placed
  <1>3. PICK to \in {"restoring", Over(p)} :
          /\ Goto(p, to) /\ (Fault \/ UNCHANGED faults)
          /\ PutFile(f, old) \/ (UNCHANGED durable /\ to = Over(p))
    BY DEF RestoreFile, Remote
  <1>4. /\ at' = [at EXCEPT ![p] = f]
        /\ UNCHANGED <<lease, local, foreign, journal, before, receipt, content>>
    BY <1>3 DEF RestoreFile, PutFile, durable
  <1>5. to \in Point /\ old \in Bytes /\ (p = Cli => to \in CliPoint)
    BY <1>1, <1>2, <1>3, Ends DEF Point, CliPoint, IInv, TypeOK
  <1>6. at \in [Process -> 0..NFiles] /\ f \in 0..NFiles /\ at'[p] = f /\ at[p] \in Nat
    BY <1>1, <1>4, Constants DEF IInv, TypeOK
  <1>7. TypeOK'
    BY <1>3, <1>4, <1>5, <1>1, <1>6, GotoTyped, FaultTyped, DurableTyped
       DEF IInv, TypeOK, lease, local
  <1>8. Fits("restoring", journal'[holder]) /\ Placed("restoring", written')
    BY <1>2, <1>4 DEF Fits, Placed, lease
  <1>9. BoundaryAgreement' /\ Contents'
    BY <1>2, <1>4 DEF IInv, BoundaryAgreement, Contents, lease
  <1>10. ASSUME Undisturbed' PROVE Saved' /\ (to # Over(p) => Seen(p)')
    <2>1. Undisturbed /\ Saved /\ Seen(p)
      BY <1>4, <1>10 DEF IInv, Undisturbed, Exact
    <2>2. Saved'
      BY <1>2, <1>4, <2>1 DEF Saved, Recoverable, lease
    <2>3. ASSUME to # Over(p) PROVE Seen(p)'
      <3>1. pc'[p] = "restoring" /\ Subject(p)' = Subject(p)
        BY <1>3, <1>4, <1>5, <2>3, GotoTyped DEF IInv, Subject, local
      <3>2. canon' = [canon EXCEPT ![f] = old] /\ canon \in [File -> Bytes]
        BY <1>3, <2>3 DEF PutFile, IInv, TypeOK
      <3>3. \A g \in 1..at[p] : g \in File /\ g # f /\ canon[g] = before[Subject(p)][g]
        BY <1>1, <1>6, <2>1, Constants DEF Seen
      <3>4. \A g \in 1..f : canon'[g] = before[Subject(p)][g]
        BY <1>1, <1>6, <3>2, <3>3
      <3>5. QED
        BY <1>4, <1>6, <3>1, <3>4 DEF Seen
    <2>4. QED
      BY <2>2, <2>3
  <1>11. QED
    BY <1>1, <1>2, <1>3, <1>4, <1>5, <1>7, <1>8, <1>9, <1>10, OwnerStep DEF lease, local

\* The lease is given back as aborted, committed or recovered, or left as it is.
LEMMA ReleaseStep ==
  ASSUME IInv, NEW p \in Process, Working(p), Goto(p, Over(p)),
         Fault \/ UNCHANGED faults, UNCHANGED <<durable, local, at, foreign>>,
         \/ UNCHANGED lease
         \/ L!Abort
         \/ \E reason \in L!Terminal : L!Finish(reason) /\ journal[holder] \in {"COMMITTED", "RECOVERED"}
  PROVE  IInv'
  <1>1. Subject(p) = holder /\ holder \in Run /\ Over(p) \in Point
    BY Alone, Ends
  <1>2. \/ UNCHANGED lease
        \/ /\ holder' = NoRun /\ ~written' /\ written' \in BOOLEAN /\ epoch' = epoch + 1
           /\ outcome' \in L!Terminal \cup {"none", "PREWRITE_ABORT_VERIFIED"}
           /\ ~written \/ journal[holder] \in {"COMMITTED", "RECOVERED"}
    BY DEF L!Abort, L!Finish, IInv, TypeOK
  <1>3. TypeOK'
    BY <1>1, <1>2, GotoTyped, FaultTyped DEF IInv, TypeOK, durable, local, lease
  <1>4. ("mark" \notin UncertainAt => BoundaryAgreement') /\ Contents'
    BY <1>2, Constants DEF IInv, Stages, BoundaryAgreement, Contents, durable, lease
  <1>5. ASSUME Undisturbed' PROVE Saved'
    <2>1. Undisturbed /\ Saved
      BY <1>5 DEF IInv, Undisturbed, Exact
    <2>2. QED
      BY <1>1, <1>2, <2>1, Constants DEF Saved, durable, lease
  <1>6. QED
    BY <1>1, <1>2, <1>3, <1>4, <1>5, Ends, OwnerStep DEF durable, local, lease

LEMMA ReleaseSteps ==
  ASSUME IInv, NEW p \in Process, ReleaseCommitted(p) \/ ReleaseAbort(p) \/ ReleaseRecovered(p)
  PROVE  IInv'
  <1>1. /\ Working(p) /\ Goto(p, Over(p)) /\ (Fault \/ UNCHANGED faults)
        /\ UNCHANGED <<durable, local, at, foreign>>
        /\ pc[p] \in {"release_committed", "release_abort", "release_recovered"}
    BY DEF ReleaseCommitted, ReleaseAbort, ReleaseRecovered, Remote, Working
  <1>2. Fits(pc[p], journal[holder])
    BY <1>1, Alone
  <1>3. CASE ReleaseCommitted(p)
    <2>1. UNCHANGED lease \/ L!Finish("VERIFIED_COMMITTED")
      BY <1>3 DEF ReleaseCommitted, Remote
    <2>2. journal[holder] = "COMMITTED"
      BY <1>2, <1>3 DEF ReleaseCommitted, Fits
    <2>3. QED
      BY <1>1, <2>1, <2>2, ReleaseStep DEF L!Terminal
  <1>4. CASE ReleaseAbort(p)
    <2>1. UNCHANGED lease \/ L!Abort
      BY <1>4 DEF ReleaseAbort, Remote
    <2>2. QED
      BY <1>1, <2>1, ReleaseStep
  <1>5. CASE ReleaseRecovered(p)
    <2>1. UNCHANGED lease \/ L!Finish("VERIFIED_RECOVERED")
      BY <1>5 DEF ReleaseRecovered, Remote
    <2>2. journal[holder] = "RECOVERED"
      BY <1>2, <1>5 DEF ReleaseRecovered, Fits
    <2>3. QED
      BY <1>1, <2>1, <2>2, ReleaseStep DEF L!Terminal
  <1>6. QED
    BY <1>3, <1>4, <1>5

-----------------------------------------------------------------------------
(* Steps of processes that do not work for the owner, and of others.        *)

LEMMA PreflightStep ==
  ASSUME IInv, NEW r \in Run, Preflight(r)
  PROVE  IInv'
  <1>1. /\ r \in Process /\ r # Cli /\ "acquire" \in Point /\ pc[r] = "idle" /\ holder = NoRun
        /\ Goto(r, "acquire") /\ origin' = [origin EXCEPT ![r] = canon]
        /\ UNCHANGED <<durable, lease, patient, at, faults, foreign>>
    BY Constants DEF Preflight, Point
  <1>2. /\ pc' \in [Process -> Point] /\ pc'[r] = "acquire"
        /\ \A q \in Process \ {r} : pc'[q] = pc[q]
    BY <1>1, GotoTyped DEF IInv
  <1>3. TypeOK'
    BY <1>1, <1>2 DEF IInv, TypeOK, durable, lease
  <1>4. \A q \in Process : ~Working(q)
    BY <1>1, Constants DEF IInv, Owners
  <1>5. \A q \in Process : ~Working(q) /\ ~Working(q)'
    BY <1>1, <1>2, <1>4 DEF Working
  <1>6. Owners' /\ Stages' /\ Contents'
    BY <1>1, <1>2, <1>5, Constants
       DEF IInv, Owners, Stages, Contents, BoundaryAgreement, durable, lease
  <1>7. Undisturbed' => Exact'
    <2>1. \A q \in Process : Seen(q)'
      BY <1>5 DEF Working, Seen
    <2>2. QED
      BY <1>1, <2>1 DEF IInv, Undisturbed, Exact, Saved, durable, lease
  <1>8. QED
    BY <1>3, <1>6, <1>7 DEF IInv

\* An acquisition, with its answer or without.
LEMMA AcquireStep ==
  ASSUME IInv, NEW r \in Run, Acquire(r)
  PROVE  IInv'
  <1>1. PICK to \in {"owned", "stopped"} :
          /\ Goto(r, to) /\ (Fault \/ UNCHANGED faults)
          /\ L!Acquire(r) \/ (UNCHANGED lease /\ to = "stopped")
          /\ UNCHANGED <<durable, local, at, foreign>> /\ pc[r] = "acquire"
    BY DEF Acquire, Remote
  <1>2. r \in Process /\ r # Cli /\ to \in Point
    BY Constants DEF Point
  <1>3. pc' \in [Process -> Point] /\ pc'[r] = to /\ \A q \in Process \ {r} : pc'[q] = pc[q]
    BY <1>1, <1>2, GotoTyped DEF IInv
  <1>4. journal[r] = "none" /\ holder # r
    BY <1>1 DEF IInv, Owners
  <1>5. CASE UNCHANGED lease /\ to = "stopped"
    <2>1. TypeOK'
      BY <1>1, <1>3, <1>5, FaultTyped DEF IInv, TypeOK, durable, lease, local
    <2>2. \A q \in Process : (Working(q)' => Working(q) /\ pc'[q] = pc[q]) /\ Subject(q)' = Subject(q)
      BY <1>1, <1>2, <1>3, <1>5 DEF Working, Subject, local
    <2>3. Owners'
      BY <1>1, <1>2, <1>3, <1>5, <2>2, Constants DEF IInv, Owners, durable, lease
    <2>4. Stages' /\ Contents'
      BY <1>1, <1>5, <2>2 DEF IInv, Stages, Contents, BoundaryAgreement, durable, lease
    <2>5. Undisturbed' => Exact'
      <3> SUFFICES ASSUME Undisturbed' PROVE Exact'
        OBVIOUS
      <3>1. Exact
        BY <1>1 DEF IInv, Undisturbed
      <3>2. Saved'
        BY <1>1, <1>5, <3>1 DEF Exact, Saved, durable, lease
      <3>3. ASSUME NEW q \in Process PROVE Seen(q)'
        BY <1>1, <2>2, <3>1 DEF Exact, Seen, Working, durable
      <3>4. QED
        BY <3>2, <3>3 DEF Exact
    <2>6. QED
      BY <2>1, <2>3, <2>4, <2>5 DEF IInv
  <1>6. CASE L!Acquire(r)
    <2>1. /\ holder = NoRun /\ holder' = r /\ written' = written /\ ~written
          /\ outcome' = "none" /\ epoch' = epoch + 1
      BY <1>6 DEF L!Acquire, IInv, Owners
    <2>2. TypeOK'
      BY <1>1, <1>3, <2>1, FaultTyped DEF IInv, TypeOK, durable, local
    <2>3. \A q \in Process : ~Working(q)
      BY <2>1, Constants DEF IInv, Owners
    <2>4. /\ \A q \in Process : Working(q)' => q = r /\ pc'[q] = "owned"
          /\ \A q \in Process : Subject(q)' = Subject(q)
          /\ Subject(r) = r
      BY <1>1, <1>2, <1>3, <2>3 DEF Working, Subject, local
    <2>5. Owners'
      <3>1. \A q \in Run : pc'[q] \in {"idle", "acquire"} => holder' # q /\ journal'[q] = "none"
        BY <1>1, <1>3, <2>1, Constants DEF IInv, Owners, durable
      <3>2. QED
        BY <1>2, <1>3, <2>1, <2>4, <3>1, Constants DEF IInv, Owners
    <2>6. Stages'
      BY <1>1, <1>4, <2>1, <2>4 DEF Stages, BoundaryAgreement, Fits, Placed, durable
    <2>7. Contents'
      BY <1>1, <1>4, <2>1 DEF IInv, Contents, durable
    <2>8. ASSUME Undisturbed' PROVE Exact'
      <3>1. Saved
        BY <1>1, <2>8 DEF IInv, Undisturbed, Exact
      <3>2. Saved'
        BY <1>1, <1>4, <2>1, <3>1 DEF Saved, Recoverable, durable
      <3>3. \A q \in Process : Seen(q)'
        BY <2>4 DEF Seen, Working
      <3>4. QED
        BY <3>2, <3>3 DEF Exact
    <2>9. QED
      BY <2>2, <2>5, <2>6, <2>7, <2>8 DEF IInv
  <1>7. QED
    BY <1>1, <1>5, <1>6

\* A run ends before it has the lease.
LEMMA BusySteps ==
  ASSUME IInv, NEW r \in Run, Busy(r) \/ (Crash(r) /\ ~Working(r))
  PROVE  IInv'
  <1>1. /\ Goto(r, "stopped") /\ (Fault \/ UNCHANGED faults)
        /\ UNCHANGED <<durable, lease, local, at, foreign>>
    BY Constants DEF Busy, Crash, Over
  <1>2. r \in Process /\ r # Cli /\ "stopped" \in Point
    BY Constants DEF Point
  <1>3. pc' \in [Process -> Point] /\ pc'[r] = "stopped" /\ \A q \in Process \ {r} : pc'[q] = pc[q]
    BY <1>1, <1>2, GotoTyped DEF IInv
  <1>4. TypeOK'
    BY <1>1, <1>3, FaultTyped DEF IInv, TypeOK, durable, lease, local
  <1>5. \A q \in Process : (Working(q)' => Working(q) /\ pc'[q] = pc[q]) /\ Subject(q)' = Subject(q)
    BY <1>1, <1>2, <1>3 DEF Working, Subject, local
  <1>6. Owners'
    BY <1>1, <1>2, <1>3, <1>5, Constants DEF IInv, Owners, durable, lease
  <1>7. Stages' /\ Contents'
    BY <1>1, <1>5 DEF IInv, Stages, Contents, BoundaryAgreement, durable, lease
  <1>8. ASSUME Undisturbed' PROVE Exact'
    <2>1. Exact
      BY <1>1, <1>8 DEF IInv, Undisturbed
    <2>2. Saved'
      BY <1>1, <2>1 DEF Exact, Saved, durable, lease
    <2>3. ASSUME NEW q \in Process PROVE Seen(q)'
      BY <1>1, <1>5, <2>1 DEF Exact, Seen, Working, durable
    <2>4. QED
      BY <2>2, <2>3 DEF Exact
  <1>9. QED
    BY <1>4, <1>6, <1>7, <1>8 DEF IInv

LEMMA ForeignStep ==
  ASSUME IInv, NEW f \in File, ForeignWrite(f)
  PROVE  IInv'
  <1>1. /\ UNCHANGED <<journal, before, receipt, content, lease, local, pc, at, faults>>
        /\ foreign' = foreign + 1 /\ foreign < MaxForeign /\ PutFile(f, Foreign)
    BY DEF ForeignWrite, PutFile
  <1>2. TypeOK'
    BY <1>1, DurableTyped, Constants DEF IInv, TypeOK, lease, local, Bytes
  <1>3. ~Undisturbed'
    BY <1>1 DEF IInv, TypeOK, Undisturbed
  <1>4. \A q \in Process : Working(q)' = Working(q) /\ Subject(q)' = Subject(q)
    BY <1>1 DEF Working, Subject, local
  <1>5. Owners' /\ Stages' /\ Contents'
    BY <1>1, <1>4 DEF IInv, Owners, Stages, Contents, BoundaryAgreement, lease
  <1>6. QED
    BY <1>2, <1>3, <1>5 DEF IInv

\* classify_restart_action sends the CLI where the lease and the journal fit.
LEMMA RestartFits ==
  ASSUME NEW r \in Run, Restart(r) # "idle"
  PROVE  Restart(r) \in CliPoint /\ Fits(Restart(r), journal[r]) /\ Placed(Restart(r), written)
  <1>1. \/ Restart(r) = "abort" /\ ~written /\ journal[r] \in {"PREPARED", "WRITING_RECORDS"}
        \/ Restart(r) = "release_abort" /\ ~written /\ journal[r] = "ABORTED_PREWRITE"
        \/ Restart(r) = "release_recovered" /\ written /\ journal[r] = "RECOVERED"
        \/ Restart(r) = "restoring" /\ written /\ journal[r] \in Recoverable
        \/ Restart(r) = "release_committed" /\ written /\ journal[r] = "COMMITTED"
    BY DEF Restart
  <1>2. QED
    BY <1>1 DEF CliPoint, Fits, Placed

LEMMA RestartStep ==
  ASSUME IInv, ConcurrentRecovery = FALSE, StartRestart
  PROVE  IInv'
  <1> DEFINE to == Restart(holder)
  <1>1. /\ pc[Cli] = "idle" /\ holder # NoRun /\ \A r \in Run : pc[r] \in Resting
        /\ to # "idle" /\ patient' = holder /\ Goto(Cli, to) /\ at' = [at EXCEPT ![Cli] = 0]
        /\ UNCHANGED <<durable, lease, origin, faults, foreign>>
    BY DEF StartRestart
  <1>2. holder \in Run
    BY <1>1 DEF IInv, TypeOK
  <1>3. to \in CliPoint /\ Fits(to, journal[holder]) /\ Placed(to, written) /\ to \in Point
    BY <1>1, <1>2, RestartFits DEF CliPoint, Point
  <1>4. pc' \in [Process -> Point] /\ pc'[Cli] = to /\ \A q \in Process \ {Cli} : pc'[q] = pc[q]
    BY <1>1, <1>3, Constants, GotoTyped DEF IInv
  <1>5. at' \in [Process -> 0..NFiles] /\ at'[Cli] = 0
    <2>1. at \in [Process -> 0..NFiles] /\ 0 \in 0..NFiles
      BY Constants DEF IInv, TypeOK
    <2>2. QED
      BY <1>1, <2>1, Constants
  <1>6. TypeOK'
    BY <1>1, <1>2, <1>4, <1>5 DEF IInv, TypeOK, durable, lease
  <1>7. \A q \in Process : Working(q)' => q = Cli
    BY <1>1, <1>4, Constants DEF Working, Resting, Process
  <1>8. Subject(Cli)' = holder
    BY <1>1 DEF Subject
  <1>9. Owners'
    <2>1. \A r \in Run : pc'[r] = pc[r]
      BY <1>4, Constants
    <2>2. QED
      BY <1>1, <1>2, <1>3, <1>4, <1>7, <1>8, <2>1, Constants DEF IInv, Owners, durable, lease
  <1>10. Stages' /\ Contents'
    BY <1>1, <1>3, <1>4, <1>7, <1>8 DEF IInv, Stages, Contents, BoundaryAgreement, durable, lease
  <1>11. ASSUME Undisturbed' PROVE Exact'
    <2>1. Exact
      BY <1>1, <1>11 DEF IInv, Undisturbed
    <2>2. Saved'
      BY <1>1, <2>1 DEF Exact, Saved, durable, lease
    <2>3. Seen(Cli)'
      BY <1>3, <1>4, <1>5 DEF Seen, CliPoint
    <2>4. \A q \in Process : ~Working(q)' => Seen(q)'
      BY DEF Working, Seen
    <2>5. QED
      BY <1>7, <2>2, <2>3, <2>4 DEF Exact
  <1>12. QED
    BY <1>6, <1>9, <1>10, <1>11 DEF IInv

-----------------------------------------------------------------------------
(* The invariant.                                                           *)

LEMMA InitInv == Init => IInv
  <1> SUFFICES ASSUME Init PROVE IInv
    OBVIOUS
  <1>1. TypeOK
    <2>1. /\ before \in [Run -> [File -> Bytes]] /\ origin \in [Run -> [File -> Bytes]]
          /\ canon \in [File -> Bytes]
      BY Images DEF Init
    <2>2. /\ pc \in [Process -> Point] /\ at \in [Process -> 0..NFiles]
          /\ journal \in [Run -> JournalState] /\ receipt \in [Run -> BOOLEAN]
      BY Constants DEF Init, JournalState, Point
    <2>3. /\ content \in Run \cup {Base} /\ patient \in Run \cup {NoRun}
          /\ faults \in 0..MaxFaults /\ foreign \in 0..MaxForeign
      BY Constants DEF Init
    <2>4. /\ holder \in Run \cup {NoRun} /\ written \in BOOLEAN /\ epoch \in Nat
          /\ outcome \in L!Terminal \cup {"none", "PREWRITE_ABORT_VERIFIED"}
      BY DEF Init, L!Init
    <2>5. QED
      BY <2>1, <2>2, <2>3, <2>4 DEF TypeOK
  <1>2. \A p \in Process : ~Working(p) /\ Seen(p)
    BY DEF Init, Working, Seen
  <1>3. Owners /\ Stages /\ Contents
    BY <1>2, Constants
       DEF Init, L!Init, Owners, Stages, Contents, BoundaryAgreement, CliPoint
  <1>4. Exact
    BY <1>2, Constants DEF Init, L!Init, Exact, Saved
  <1>5. QED
    BY <1>1, <1>3, <1>4 DEF IInv

LEMMA StutterInv == IInv /\ UNCHANGED vars => IInv'
  <1> SUFFICES ASSUME IInv, UNCHANGED vars PROVE IInv'
    OBVIOUS
  <1>1. /\ UNCHANGED <<canon, journal, before, receipt, content, holder, written, outcome, epoch>>
        /\ UNCHANGED <<origin, patient, pc, at, faults, foreign>>
    BY DEF vars, durable, lease, local
  <1>2. \A p \in Process : Working(p)' = Working(p) /\ Subject(p)' = Subject(p) /\ Seen(p)' = Seen(p)
    BY <1>1 DEF Working, Subject, Seen
  <1>3. TypeOK'
    BY <1>1 DEF IInv, TypeOK
  <1>4. Owners' /\ Stages' /\ Contents'
    BY <1>1, <1>2 DEF IInv, Owners, Stages, Contents, BoundaryAgreement
  <1>5. Undisturbed' => Exact'
    BY <1>1, <1>2 DEF IInv, Undisturbed, Exact, Saved
  <1>6. QED
    BY <1>3, <1>4, <1>5 DEF IInv

LEMMA NextInv ==
  ASSUME IInv, ConcurrentRecovery = FALSE, [Next]_vars
  PROVE  IInv'
  <1>1. ASSUME NEW r \in Run, Preflight(r) \/ Publish(r) PROVE IInv'
    BY <1>1, PreflightStep, AcquireStep, BusySteps, RevalidateStep, CaptureStep, ArmStep,
       JournalSteps, MarkStep, WriteStep, VerifyStep, ReceiptStep, CommitStep, CheckSteps
       DEF Publish
  <1>2. ASSUME NEW p \in Process, Finalize(p) PROVE IInv'
    BY <1>2, ReleaseSteps, StoreAbortedStep, RestoreStep, StoreRecoveredStep DEF Finalize
  <1>3. ASSUME NEW p \in Process, Crash(p) PROVE IInv'
    <2>1. CASE Working(p)
      BY <1>3, <2>1, CrashStep
    <2>2. CASE ~Working(p)
      <3>1. p # Cli
        BY <1>3, <2>2 DEF Crash, Working, Resting, IInv, Owners, CliPoint
      <3>2. p \in Run
        BY <3>1 DEF Process
      <3>3. QED
        BY <1>3, <2>2, <3>2, BusySteps
    <2>3. QED
      BY <2>1, <2>2
  <1>4. QED
    BY <1>1, <1>2, <1>3, RestartStep, ForeignStep, StutterInv DEF Next

LEMMA Inductive == ASSUME ConcurrentRecovery = FALSE PROVE Spec => []IInv
  <1>1. IInv /\ [Next]_vars => IInv'
    BY NextInv
  <1>2. QED
    BY <1>1, InitInv, PTL DEF Spec

-----------------------------------------------------------------------------
(* What follows from it.                                                    *)

\* The types, when recoveries wait for the publishers.
THEOREM TypeCorrect == ASSUME ConcurrentRecovery = FALSE PROVE Spec => []TypeOK
  <1>1. IInv => TypeOK
    BY DEF IInv
  <1>2. QED
    BY <1>1, Inductive, PTL

\* A lease released as recovered leaves the bytes of the last committed run
\* (execute_recovery), if no read failed while before-images were captured.
THEOREM RollbackIsExact ==
  ASSUME ConcurrentRecovery = FALSE, "capture" \notin UncertainAt
  PROVE  Spec => []RollbackExact
  <1>1. IInv => RollbackExact
    BY DEF IInv, Undisturbed, Exact, Saved, Owners, RollbackExact
  <1>2. QED
    BY <1>1, Inductive, PTL

\* The coordinator and the journal agree about the write boundary, if the answer of
\* mark_canonical_write_started is never lost.
THEOREM BoundaryAgrees ==
  ASSUME ConcurrentRecovery = FALSE, "mark" \notin UncertainAt
  PROVE  Spec => []BoundaryAgreement
  <1>1. IInv => BoundaryAgreement
    BY DEF IInv, Stages
  <1>2. QED
    BY <1>1, Inductive, PTL

\* What one step does to the journal of a run and to the library.
FinalStep ==
  \A r \in Run :
    journal[r] = "COMMITTED" =>
      /\ journal'[r] = "COMMITTED"
      /\ holder = r /\ foreign' = foreign => canon' = canon

LEMMA OwnerFinal ==
  ASSUME IInv, NEW p \in Process, Working(p), NEW r \in Run, journal[r] = "COMMITTED",
         \/ UNCHANGED <<canon, journal>>
         \/ /\ pc[p] # "release_committed" /\ pc[p] # "release_recovered" /\ pc[p] # "release_abort"
            /\ \/ \E s : StoreJournal(Subject(p), s)
               \/ \E s : journal' = [journal EXCEPT ![Subject(p)] = s] /\ UNCHANGED canon
               \/ \E f, v : PutFile(f, v)
  PROVE  journal'[r] = "COMMITTED" /\ (holder = r => canon' = canon)
  <1>1. Subject(p) = holder /\ holder \in Run /\ Fits(pc[p], journal[holder]) /\ pc[p] \in Point
    BY Alone
  <1>2. CASE pc[p] \in {"release_committed", "release_recovered", "release_abort"}
    BY <1>2
  <1>3. CASE pc[p] \notin {"release_committed", "release_recovered", "release_abort"}
    <2>1. holder # r
      BY <1>1, <1>3 DEF Fits, Recoverable, Point, Working
    <2>2. journal'[r] = journal[r]
      BY <1>1, <2>1 DEF StoreJournal, PutFile, IInv, TypeOK
    <2>3. QED
      BY <2>1, <2>2
  <1>4. QED
    BY <1>2, <1>3

LEMMA CommittedStep == ASSUME IInv, [Next]_vars PROVE FinalStep
  <1> SUFFICES ASSUME NEW r \in Run, journal[r] = "COMMITTED"
               PROVE  /\ journal'[r] = "COMMITTED"
                      /\ holder = r /\ foreign' = foreign => canon' = canon
    BY DEF FinalStep
  <1>1. ASSUME NEW q \in Run, Preflight(q) \/ Acquire(q) \/ Busy(q)
        PROVE  UNCHANGED <<canon, journal>>
    BY <1>1 DEF Preflight, Acquire, Busy, durable
  <1>2. ASSUME NEW q \in Run, Publish(q), ~(Acquire(q) \/ Busy(q))
        PROVE  journal'[r] = "COMMITTED" /\ (holder = r => canon' = canon)
    <2>1. q \in Process /\ Subject(q) = q
      BY Constants DEF Subject
    <2>2. pc[q] \in {"owned", "revalidated", "captured", "armed", "boundary", "writing",
                     "verifying", "verified", "receipted", "pending", "rollback",
                     "require_recovery", "checking"}
      BY <1>2 DEF Publish, Revalidate, Capture, ArmRecovery, OpenJournal, MarkStarted,
         WriteFile, EnterIndexPhase, VerifyCanonical, StoreVerifying, StoreReceipt,
         StorePending, Commit, CheckOwner, RequireRecovery, CheckBeforeRestore, Journal
    <2>3. CASE Revalidate(q) \/ Capture(q) \/ MarkStarted(q) \/ VerifyCanonical(q)
               \/ CheckOwner(q) \/ CheckBeforeRestore(q) \/ StoreReceipt(q)
      <3>1. UNCHANGED <<canon, journal>>
        BY <2>3 DEF Revalidate, Refuse, Capture, MarkStarted, VerifyCanonical, CheckOwner,
           CheckBeforeRestore, StoreReceipt, Remote, durable
      <3>2. QED
        BY <3>1
    <2>4. CASE ArmRecovery(q) \/ OpenJournal(q) \/ EnterIndexPhase(q) \/ StoreVerifying(q)
               \/ StorePending(q) \/ RequireRecovery(q)
      <3>1. (\E s : StoreJournal(q, s)) \/ UNCHANGED durable
        BY <2>1, <2>4 DEF ArmRecovery, OpenJournal, EnterIndexPhase, StoreVerifying,
           StorePending, RequireRecovery, Journal, Remote
      <3>2. QED
        BY <2>1, <2>2, <3>1, OwnerFinal DEF Working, durable
    <2>5. CASE WriteFile(q)
      <3>1. (\E f, v : PutFile(f, v)) \/ UNCHANGED durable
        BY <2>5 DEF WriteFile, Remote
      <3>2. QED
        BY <2>1, <2>2, <3>1, OwnerFinal DEF Working, durable
    <2>6. CASE Commit(q)
      <3>1. \/ journal' = [journal EXCEPT ![q] = "COMMITTED"] /\ UNCHANGED canon
            \/ UNCHANGED durable
        BY <2>6 DEF Commit, Remote
      <3>2. QED
        BY <2>1, <2>2, <3>1, OwnerFinal DEF Working, durable
    <2>7. QED
      BY <1>2, <2>3, <2>4, <2>5, <2>6 DEF Publish
  <1>3. ASSUME NEW p \in Process, Finalize(p)
        PROVE  journal'[r] = "COMMITTED" /\ (holder = r => canon' = canon)
    <2>1. CASE ReleaseCommitted(p) \/ ReleaseAbort(p) \/ ReleaseRecovered(p)
      BY <2>1 DEF ReleaseCommitted, ReleaseAbort, ReleaseRecovered, durable
    <2>2. CASE StoreAborted(p) \/ RestoreFile(p) \/ StoreRecovered(p)
      <3>1. pc[p] \in {"abort", "restoring"}
        BY <2>2 DEF StoreAborted, RestoreFile, StoreRecovered, Journal
      <3>2. (\E s : StoreJournal(Subject(p), s)) \/ (\E f, v : PutFile(f, v)) \/ UNCHANGED durable
        BY <2>2 DEF StoreAborted, RestoreFile, StoreRecovered, Journal, Remote
      <3>3. QED
        BY <3>1, <3>2, OwnerFinal DEF Working, durable
    <2>3. QED
      BY <1>3, <2>1, <2>2 DEF Finalize
  <1>4. ASSUME NEW f \in File, ForeignWrite(f)
        PROVE  UNCHANGED journal /\ foreign' # foreign
    BY <1>4 DEF ForeignWrite, PutFile, IInv, TypeOK
  <1>5. ASSUME StartRestart \/ (\E p \in Process : Crash(p)) \/ UNCHANGED vars
        PROVE  UNCHANGED <<canon, journal>>
    BY <1>5 DEF StartRestart, Crash, vars, durable
  <1>6. QED
    BY <1>1, <1>2, <1>3, <1>4, <1>5 DEF Next

\* A COMMITTED journal is final: neither its run nor a recovery stores another one
\* over it or touches the library, whatever became of the answers.
THEOREM CommittedStaysFinal ==
  ASSUME ConcurrentRecovery = FALSE
  PROVE  Spec => CommittedIsFinal
  <1>1. IInv /\ [Next]_vars => FinalStep
    BY CommittedStep
  <1>2. FinalStep => [\A r \in Run : journal[r] = "COMMITTED" =>
                        /\ journal'[r] = "COMMITTED"
                        /\ holder = r /\ foreign' = foreign => canon' = canon]_vars
    BY DEF FinalStep
  <1>3. QED
    BY <1>1, <1>2, Inductive, PTL DEF Spec, CommittedIsFinal

\* A publisher restores files only while it holds the lease, though it looks at the
\* lease only once before it restores them all: nobody takes it away as long as a
\* recovery waits for the publisher.
THEOREM RestoresAreOwned ==
  ASSUME ConcurrentRecovery = FALSE
  PROVE  Spec => RestoreOwned
  <1>1. ASSUME IInv, NEW r \in Run, pc[r] = "restoring" PROVE holder = r
    <2>1. r \in Process /\ Working(r) /\ Subject(r) = r
      BY <1>1, Constants DEF Working, Subject
    <2>2. QED
      BY <1>1, <2>1, Alone
  <1>2. IInv /\ [Next]_vars =>
          [\A r \in Run :
             pc[r] = "restoring" /\ at'[r] # at[r] /\ canon' # canon => holder \in {r, NoRun}]_vars
    BY <1>1
  <1>3. QED
    BY <1>2, Inductive, PTL DEF Spec, RestoreOwned

-----------------------------------------------------------------------------
(* The owner's journal.                                                     *)

\* The steps of an owner that has no journal yet.
Unarmed == {"owned", "revalidated", "captured", "release_abort"}

\* An owner without a journal is on its way to one, or to give the lease back.
Arming == \A r \in Run : holder = r /\ journal[r] = "none" => pc[r] \in Unarmed /\ ~written

\* No run dies on that way, and the answers to the acquisition, to the arming and to a
\* release without a journal arrive.
ReachesJournal ==
  /\ CrashAt \cap Unarmed = {}
  /\ {"acquire", "arm", "release_unarmed"} \cap UncertainAt = {}

\* No step takes a journal away.
LEMMA JournalStays ==
  ASSUME IInv, [Next]_vars, NEW r \in Run, journal'[r] = "none"
  PROVE  journal[r] = "none"
  <1>1. ASSUME NEW q \in Run, Preflight(q) \/ Publish(q) PROVE journal[r] = "none"
    BY <1>1 DEF Preflight, Publish, Acquire, Busy, Revalidate, Refuse, Capture, ArmRecovery,
       OpenJournal, MarkStarted, WriteFile, EnterIndexPhase, VerifyCanonical, StoreVerifying,
       StoreReceipt, StorePending, Commit, CheckOwner, RequireRecovery, CheckBeforeRestore,
       Journal, Remote, StoreJournal, PutFile, durable, IInv, TypeOK
  <1>2. ASSUME NEW p \in Process, Finalize(p) PROVE journal[r] = "none"
    BY <1>2 DEF Finalize, ReleaseCommitted, StoreAborted, ReleaseAbort, RestoreFile,
       StoreRecovered, ReleaseRecovered, Journal, Remote, StoreJournal, PutFile, durable,
       IInv, TypeOK
  <1>3. QED
    BY <1>1, <1>2 DEF Next, StartRestart, Crash, ForeignWrite, PutFile, vars, durable

\* An owner without a journal works alone, and so only its own steps matter.
LEMMA ArmingStep ==
  ASSUME IInv, Arming, ConcurrentRecovery = FALSE, ReachesJournal, [Next]_vars
  PROVE  Arming'
  <1> SUFFICES ASSUME NEW r \in Run, holder' = r, journal'[r] = "none"
               PROVE  pc'[r] \in Unarmed /\ ~written'
    BY DEF Arming
  <1>a. journal[r] = "none" /\ r # NoRun /\ r # Cli /\ r \in Process /\ Subject(r) = r
    BY JournalStays, Constants DEF Subject
  <1>1. CASE holder # r
    <2>1. Acquire(r)
      <3>1. ASSUME NEW q \in Run, Publish(q), ~Acquire(q) PROVE holder' = holder
        BY <3>1 DEF Publish, Busy, Revalidate, Refuse, Capture, ArmRecovery, OpenJournal,
           MarkStarted, WriteFile, EnterIndexPhase, VerifyCanonical, StoreVerifying,
           StoreReceipt, StorePending, Commit, CheckOwner, RequireRecovery,
           CheckBeforeRestore, Journal, Remote, L!StartWriting, lease
      <3>2. ASSUME NEW p \in Process, Finalize(p) PROVE holder' \in {holder, NoRun}
        BY <3>2 DEF Finalize, ReleaseCommitted, StoreAborted, ReleaseAbort, RestoreFile,
           StoreRecovered, ReleaseRecovered, Journal, Remote, L!Finish, L!Abort, lease
      <3>3. ASSUME NEW q \in Run, Acquire(q) PROVE holder' \in {holder, q}
        BY <3>3 DEF Acquire, Remote, L!Acquire, lease
      <3>4. QED
        BY <1>a, <1>1, <3>1, <3>2, <3>3
           DEF Next, Preflight, StartRestart, Crash, ForeignWrite, vars, lease
    <2>2. L!Acquire(r) /\ Goto(r, "owned")
      BY <1>1, <2>1 DEF Acquire, Remote, ReachesJournal, lease
    <2>3. ~written /\ pc'[r] = "owned" /\ written' = written
      BY <1>a, <2>2 DEF L!Acquire, Goto, IInv, TypeOK, Owners
    <2>4. QED
      BY <2>3 DEF Unarmed
  <1>2. CASE holder = r
    <2>1. pc[r] \in Unarmed /\ ~written /\ Working(r)
      BY <1>2, <1>a DEF Arming, Unarmed, Working
    <2>2. \A p \in Process \ {r} : ~Working(p)
      BY <1>a, <2>1, Alone
    <2>3. ASSUME NEW q \in Run, q # r, Preflight(q) \/ Publish(q)
          PROVE  pc'[r] = pc[r] /\ written' = written
      <3>1. q \in Process /\ pc[q] \in {"idle", "acquire", "stopped"}
        BY <2>2, <2>3, Constants DEF Working
      <3>2. Busy(q)
        BY <1>a, <1>2, <2>3, <3>1
           DEF Preflight, Publish, Acquire, Remote, L!Acquire, Revalidate, Capture, ArmRecovery,
               OpenJournal, MarkStarted, WriteFile, EnterIndexPhase, VerifyCanonical,
               StoreVerifying, StoreReceipt, StorePending, Commit, CheckOwner,
               RequireRecovery, CheckBeforeRestore, Journal, ReachesJournal
      <3>3. QED
        BY <1>a, <2>3, <3>2 DEF Busy, Goto, IInv, TypeOK, lease
    <2>4. CASE Preflight(r) \/ Publish(r)
      <3>1. Revalidate(r) \/ Capture(r) \/ ArmRecovery(r)
        BY <2>1, <2>4
           DEF Unarmed, Preflight, Publish, Acquire, Busy, OpenJournal, MarkStarted, WriteFile,
               EnterIndexPhase, VerifyCanonical, StoreVerifying, StoreReceipt, StorePending,
               Commit, CheckOwner, RequireRecovery, CheckBeforeRestore, Journal
      <3>2. CASE ArmRecovery(r)
        BY <3>2 DEF ArmRecovery, Remote, StoreJournal, ReachesJournal, IInv, TypeOK
      <3>3. CASE Revalidate(r) \/ Capture(r)
        BY <1>a, <2>1, <3>3 DEF Revalidate, Refuse, Capture, Goto, Unarmed, IInv, TypeOK, lease
      <3>4. QED
        BY <3>1, <3>2, <3>3
    <2>5. ASSUME NEW p \in Process, Finalize(p) PROVE FALSE
      <3>1. Working(p)
        BY <2>5 DEF Finalize, ReleaseCommitted, StoreAborted, ReleaseAbort, RestoreFile,
           StoreRecovered, ReleaseRecovered, Journal, Working
      <3>2. p = r
        BY <2>2, <3>1
      <3>3. ReleaseAbort(r)
        BY <2>1, <2>5, <3>2 DEF Unarmed, Finalize, ReleaseCommitted, StoreAborted, RestoreFile,
           StoreRecovered, ReleaseRecovered, Journal
      <3>4. holder' = NoRun
        BY <1>a, <1>2, <2>1, <3>3 DEF ReleaseAbort, Remote, L!Abort, ReachesJournal
      <3>5. QED
        BY <1>a, <3>4
    <2>9. ASSUME NEW p \in Process, Crash(p) PROVE pc'[r] = pc[r] /\ written' = written
      <3>1. p # r
        BY <2>1, <2>9 DEF Crash, ReachesJournal
      <3>2. QED
        BY <1>a, <2>9, <3>1 DEF Crash, Goto, IInv, TypeOK, lease
    <2>6. CASE StartRestart
      BY <2>1, <2>6 DEF StartRestart, Resting, Unarmed
    <2>7. CASE (\E f \in File : ForeignWrite(f)) \/ UNCHANGED vars
      BY <2>1, <2>7 DEF ForeignWrite, vars, lease
    <2>8. QED
      BY <2>1, <2>3, <2>4, <2>5, <2>6, <2>7, <2>9 DEF Next
  <1>3. QED
    BY <1>1, <1>2

\* A run that ends while it owns the lease leaves a recovery journal behind: a stopped
\* owner is one the recovery can tell what to do with.  What must not happen is exactly
\* what the workflow cannot answer for, a death or a lost answer before the journal.
THEOREM OwnersLeaveJournals ==
  ASSUME ConcurrentRecovery = FALSE, ReachesJournal
  PROVE  Spec => []OwnerLeavesJournal
  <1>1. Init => Arming
    BY Constants DEF Init, L!Init, Arming
  <1>2. IInv /\ Arming /\ [Next]_vars => Arming'
    BY ArmingStep
  <1>3. Arming => OwnerLeavesJournal
    BY DEF Arming, OwnerLeavesJournal, Unarmed, Resting
  <1>4. QED
    BY <1>1, <1>2, <1>3, Inductive, PTL DEF Spec

-----------------------------------------------------------------------------
(* What readers see.                                                        *)

\* What a step may do to the lease and to the run published last.
Outcome ==
  \/ holder' = holder /\ content' = content
  \/ holder = NoRun /\ holder' \in Run /\ content' = content
  \/ holder # NoRun /\ holder' = holder /\ content' = holder /\ content # holder
  \/ holder # NoRun /\ holder' = NoRun /\ content' = content

LEMMA OutcomeStep == ASSUME IInv, [Next]_vars PROVE Outcome
  <1>1. ASSUME NEW r \in Run, Acquire(r) PROVE Outcome
    BY <1>1 DEF Acquire, Remote, L!Acquire, lease, durable, Outcome
  <1>2. ASSUME NEW r \in Run, Commit(r) PROVE Outcome
    <2>1. /\ holder' = holder
          /\ (content' = r /\ journal' = [journal EXCEPT ![r] = "COMMITTED"]) \/ content' = content
      BY <1>2 DEF Commit, Remote, durable, lease
    <2>2. r \in Process /\ Working(r) /\ Subject(r) = r
      BY <1>2, Constants DEF Commit, Working, Subject
    <2>3. holder = r /\ Fits("pending", journal[r])
      BY <1>2, <2>2, Alone DEF Commit
    <2>4. content # r
      BY <2>3 DEF Fits, Recoverable, IInv, Contents
    <2>5. QED
      BY <2>1, <2>3, <2>4, Constants DEF Outcome
  <1>3. ASSUME NEW p \in Process, ReleaseCommitted(p) \/ ReleaseRecovered(p) \/ ReleaseAbort(p)
        PROVE  Outcome
    <2>1. Working(p)
      BY <1>3 DEF ReleaseCommitted, ReleaseRecovered, ReleaseAbort, Working
    <2>2. holder # NoRun
      BY <2>1, Alone, Constants
    <2>3. content' = content /\ (holder' = holder \/ holder' = NoRun)
      BY <1>3 DEF ReleaseCommitted, ReleaseRecovered, ReleaseAbort, Remote, L!Finish, L!Abort,
         durable, lease
    <2>4. QED
      BY <2>2, <2>3 DEF Outcome
  <1>4. ASSUME NEW r \in Run, Publish(r), ~Acquire(r), ~Commit(r), ~MarkStarted(r)
        PROVE  Outcome
    <2>1. UNCHANGED <<holder, content>>
      BY <1>4 DEF Publish, Busy, Revalidate, Refuse, Capture, ArmRecovery, OpenJournal,
         WriteFile, EnterIndexPhase, VerifyCanonical, StoreVerifying, StoreReceipt,
         StorePending, CheckOwner, RequireRecovery, CheckBeforeRestore, Journal, Remote,
         StoreJournal, PutFile, durable, lease
    <2>2. QED
      BY <2>1 DEF Outcome
  <1>5. ASSUME NEW r \in Run, MarkStarted(r) PROVE Outcome
    BY <1>5 DEF MarkStarted, Remote, L!StartWriting, durable, lease, Outcome
  <1>6. ASSUME NEW p \in Process, StoreAborted(p) \/ RestoreFile(p) \/ StoreRecovered(p)
        PROVE  Outcome
    BY <1>6 DEF StoreAborted, RestoreFile, StoreRecovered, Journal, Remote, StoreJournal, PutFile,
       durable, lease, Outcome
  <1>7. ASSUME \/ \E r \in Run : Preflight(r)
               \/ StartRestart
               \/ \E p \in Process : Crash(p)
               \/ \E f \in File : ForeignWrite(f)
               \/ UNCHANGED vars
        PROVE  Outcome
    BY <1>7 DEF Preflight, StartRestart, Crash, ForeignWrite, PutFile, vars, durable, lease, Outcome
  <1>8. QED
    BY <1>1, <1>2, <1>3, <1>4, <1>5, <1>6, <1>7 DEF Next, Finalize

\* With the lease free, the library is what AtomicPublication shows.
LEMMA Visible ==
  ASSUME IInv, "capture" \notin UncertainAt, holder = NoRun
  PROVE  (IF foreign = 0 THEN canon ELSE Image(content)) = Image(content)
  BY DEF IInv, Owners, Undisturbed, Exact, Saved

LEMMA PublicationStep ==
  ASSUME IInv, IInv', "capture" \notin UncertainAt, [Next]_vars
  PROVE  [Publication!Next]_(Publication!publicationVars)
  <1> DEFINE shown == IF holder # NoRun THEN NoRun
                      ELSE IF foreign = 0 THEN canon ELSE Image(content)
  <1>1. Outcome
    BY OutcomeStep
  <1>2. shown = IF holder # NoRun THEN NoRun ELSE Image(content)
    BY Visible
  <1>3. shown' = IF holder' # NoRun THEN NoRun ELSE Image(content')
    <2>1. holder' = NoRun => (IF foreign' = 0 THEN canon' ELSE Image(content')) = Image(content')
      BY DEF IInv, Owners, Undisturbed, Exact, Saved, Image, File
    <2>2. QED
      BY <2>1
  <1> HIDE DEF shown
  <1>4. CASE holder' = holder /\ content' = content
    <2>1. shown' = shown
      BY <1>2, <1>3, <1>4 DEF Image
    <2>2. QED
      BY <1>4, <2>1 DEF Publication!publicationVars, shown
  <1>5. CASE holder = NoRun /\ holder' \in Run /\ content' = content
    <2>1. Publication!Begin(holder')
      BY <1>3, <1>5, Constants DEF Publication!Begin, shown
    <2>2. QED
      BY <1>5, <2>1 DEF Publication!Next
  <1>6. CASE holder # NoRun /\ holder' = holder /\ content' = holder /\ content # holder
    <2>1. Publication!Commit
      BY <1>2, <1>3, <1>6 DEF Publication!Commit, shown
    <2>2. QED
      BY <2>1 DEF Publication!Next
  <1>7. CASE holder # NoRun /\ holder' = NoRun /\ content' = content
    <2>1. Publication!Close
      BY <1>3, <1>7 DEF Publication!Close, shown
    <2>2. QED
      BY <2>1 DEF Publication!Next
  <1>8. QED
    BY <1>1, <1>4, <1>5, <1>6, <1>7 DEF Outcome

\* ControlledPublish implements AtomicPublication: whoever looks at the library while
\* the lease is free sees all of the last committed transaction and nothing of one
\* that was abandoned, rolled back or finished by another process.
THEOREM PublicationIsAtomic ==
  ASSUME ConcurrentRecovery = FALSE, "capture" \notin UncertainAt
  PROVE  Spec => PublicationAtomic
  <1>1. Init => Publication!Init
    BY DEF Init, L!Init, Publication!Init
  <1>2. IInv /\ IInv' /\ [Next]_vars => [Publication!Next]_(Publication!publicationVars)
    BY PublicationStep
  <1>3. QED
    BY <1>1, <1>2, Inductive, PTL DEF Spec, PublicationAtomic, Publication!Spec

-----------------------------------------------------------------------------
(* CandidateBatch.  Its inductive invariant, part by part.                   *)

\* A run of a finalizer.
RunShape(run) ==
  /\ DOMAIN run = {"at", "todo", "current", "new", "updates", "master"}
  /\ run.todo \subseteq Candidate /\ run.current \subseteq Candidate
  /\ run.current # {} => run.at = "candidates"

\* The functions and records that steps change one component of.
Shapes ==
  /\ library = [t \in Target |-> library[t]]
  /\ store = [k \in Key |-> store[k]]
  /\ control = [manifest |-> control.manifest, updates |-> control.updates,
                validation |-> control.validation, batch |-> control.batch]
  /\ finalizer = [f \in Finalizer |-> finalizer[f]]
  /\ \A f \in Finalizer : RunShape(finalizer[f])
  /\ settlement = [tx |-> settlement.tx, moves |-> settlement.moves]
  /\ reader.at \in 0..6 /\ trouble \in Nat

\* A new record was rendered from nothing, an update from its base.
FromNothing(items) == \A i \in items : i.c \in Candidate /\ i.bytes.base = None
FromBase(items) ==
  \A i \in items : i.c \in Candidate /\ (i.bytes = i.base \/ i.bytes.base = i.base)

Rendering ==
  /\ \A f \in Finalizer : FromNothing(finalizer[f].new) /\ FromBase(finalizer[f].updates)
  /\ FromNothing(control.validation) /\ FromBase(control.updates)
  /\ \A v \in control.validation : v.action \in {"CREATE", "UNCHANGED"}

\* What the planner has read of the barrier is one run's seal.
SealsRead ==
  /\ control.batch = None \/ control.batch \in sealed
  /\ reader.at >= 5 => reader.seen["batch"] \in sealed

\* A run that nobody has overlapped is alone, and what it has written is still there;
\* so the files it seals are its own.
OwnFiles ==
  /\ \A f \in Active \ overlapped :
       /\ Active = {f}
       /\ finalizer[f].at \in {"updates", "validation", "sealing"} =>
            control.manifest = finalizer[f].new
       /\ finalizer[f].at \in {"validation", "sealing"} => control.updates = finalizer[f].updates
       /\ finalizer[f].at = "sealing" => BatchOf(finalizer[f].master, control) \in made
  /\ sealed \subseteq made \cup shared

ReadyAccepted ==
  ready # None => [batch |-> ready.batch, items |-> ready.items] \in accepted
                  /\ \A i \in ready.items : i.c \in Candidate

\* What is published, verified, settled and filed belongs to one another.
Ledger ==
  /\ \A r \in receipts : r.tx # None /\ \A i \in r.tx.items : i.c \in Candidate
  /\ \A tx \in verified : \E r \in receipts : r.tx = tx
  /\ \A a \in audit : a.tx \in verified /\ a.key \in KeysOf(a.tx) \cup {PlanKey}
  /\ settlement # AtRest =>
       /\ settlement.tx \in verified
       /\ \A m \in settlement.moves : m.key \in KeysOf(settlement.tx) \cup {PlanKey}
  /\ \A tx \in settled : \A k \in KeysOf(tx) \cup {PlanKey} : Archived(tx, k) # {}

\* A candidate's file holds the candidate, wherever it is.
Pages ==
  /\ \A c \in Candidate : store[CandidateKey(c)] \in {None, Page(c)}
  /\ \A c \in Candidate : store[CandidateKey(c)] = None => ArchivedUnder(c) # {}
  /\ \A a \in audit : \A c \in Candidate : a.key = CandidateKey(c) => a.bytes = Page(c)

\* Settlement moves a candidate before the plan, so a transaction whose plan is
\* archived has left no candidate behind.
PlanLast ==
  /\ settlement # AtRest => \A i \in settlement.tx.items :
       \/ \E m \in settlement.moves : m.key = CandidateKey(i.c)
       \/ store[CandidateKey(i.c)] = None
  /\ \A m \in settlement.moves : m.key = PlanKey => m.bytes = settlement.tx
  /\ \A a \in audit : a.key = PlanKey => \A i \in a.tx.items : store[CandidateKey(i.c)] = None

\* Until something fails nobody stores a plan over another.
PlanStays ==
  trouble = 0 =>
    /\ reader.at = 6 /\ reader.seen["plan"] = None => store[PlanKey] = None
    /\ settlement # AtRest /\ Archived(settlement.tx, PlanKey) = {} =>
         store[PlanKey] = settlement.tx

\* A candidate that is filed and still there: the delete of the source failed.
OneTransaction ==
  trouble <= 1 =>
    \A c \in Candidate :
      /\ \A tx1, tx2 \in ArchivedUnder(c) : tx1 = tx2
      /\ \A m \in settlement.moves :
           m.key = CandidateKey(c) => ArchivedUnder(c) \subseteq {settlement.tx}
      /\ \A tx \in ArchivedUnder(c) : store[CandidateKey(c)] # None =>
           /\ trouble = 1
           /\ store[PlanKey] = tx
           /\ reader.at = 6 => reader.seen["plan"] # None

BatchInv ==
  /\ Shapes /\ Rendering /\ OwnFiles /\ SealsRead /\ NoMixedRuns /\ ReadyAccepted
  /\ Ledger /\ Pages /\ PlanLast /\ PlanStays /\ OneTransaction

-----------------------------------------------------------------------------
\* The files of a transaction are keys of the store, all different.
LEMMA Keys ==
  ASSUME NEW c \in Candidate
  PROVE  /\ CandidateKey(c) \in Key /\ EntryKey(c) \in Key /\ BodyKey(c) \in Key
         /\ PlanKey \in Key
         /\ CandidateKey(c) # PlanKey /\ EntryKey(c) # PlanKey /\ BodyKey(c) # PlanKey
         /\ \A d \in Candidate : /\ CandidateKey(c) = CandidateKey(d) => c = d
                                 /\ CandidateKey(c) # EntryKey(d)
                                 /\ CandidateKey(c) # BodyKey(d)
  <1>1. /\ CandidateKey(c)[1] = "candidate" /\ EntryKey(c)[1] = "entry"
        /\ BodyKey(c)[1] \in {"update", "new"} /\ PlanKey[1] = "plan"
    BY DEF CandidateKey, EntryKey, BodyKey, PlanKey
  <1>2. \A d \in Candidate : /\ EntryKey(d)[1] = "entry"
                             /\ BodyKey(d)[1] \in {"update", "new"}
                             /\ CandidateKey(d)[2] = d
    BY DEF CandidateKey, EntryKey, BodyKey
  <1>3. /\ CandidateKey(c) \in Key /\ EntryKey(c) \in Key /\ BodyKey(c) \in Key
        /\ PlanKey \in Key
    BY DEF Key
  <1>4. /\ CandidateKey(c) # PlanKey /\ EntryKey(c) # PlanKey /\ BodyKey(c) # PlanKey
    BY <1>1
  <1>5. ASSUME NEW d \in Candidate
        PROVE  /\ CandidateKey(c) = CandidateKey(d) => c = d
               /\ CandidateKey(c) # EntryKey(d)
               /\ CandidateKey(c) # BodyKey(d)
    BY <1>1, <1>2
  <1>6. QED
    BY <1>3, <1>4, <1>5

LEMMA PlanIsKey == PlanKey \in Key
  BY DEF Key

\* A candidate whose file a transaction moves is one of its items.
LEMMA KeyOfItem ==
  ASSUME NEW tx, \A i \in tx.items : i.c \in Candidate,
         NEW c \in Candidate, CandidateKey(c) \in KeysOf(tx) \cup {PlanKey}
  PROVE  \E i \in tx.items : i.c = c
  BY Keys DEF KeysOf

\* A batch, a transaction and a page are not the empty value.
LEMMA RecordIsNotNone ==
  /\ \A index, c : BatchOf(index, c) # None /\ Transaction(index, c) # None
  /\ \A c \in Candidate : Page(c) # None
  <1>1. "nothing" \in DOMAIN None
    BY DEF None
  <1>2. ASSUME NEW index, NEW c
        PROVE  "nothing" \notin DOMAIN BatchOf(index, c) /\ "nothing" \notin DOMAIN Transaction(index, c)
    BY DEF BatchOf, Transaction
  <1>3. \A c \in Candidate : "nothing" \notin DOMAIN Page(c)
    BY DEF Page
  <1>4. QED
    BY <1>1, <1>2, <1>3

\* A step of a finalizer.
FinalizerStep == \E f \in Finalizer : FinalizeStart(f) \/ Finalization(f) \/ FinalizeEnds(f)

\* Its run goes on alone: the others are where they were.
LEMMA OneRun ==
  ASSUME BatchInv, NEW f \in Finalizer, NEW run, Continues(f, run)
  PROVE  /\ finalizer' = [g \in Finalizer |-> finalizer'[g]]
         /\ finalizer'[f] = run
         /\ \A g \in Finalizer \ {f} : finalizer'[g] = finalizer[g]
  BY DEF Continues, BatchInv, Shapes

\* Of two runs that collide one may go on, and the others are where they were.
LEMMA TwoRuns ==
  ASSUME BatchInv, NEW f \in Finalizer, NEW g \in Finalizer, Collide(f, g)
  PROVE  /\ finalizer' = [h \in Finalizer |-> finalizer'[h]]
         /\ \A h \in Finalizer \ {f, g} : finalizer'[h] = finalizer[h]
         /\ \A h \in {f, g} :
              /\ finalizer[h].at = "candidates" /\ finalizer[h].current = {}
              /\ finalizer'[h] \in {Idle, [finalizer[h] EXCEPT !.at = "updates"]}
  BY DEF Collide, Prepared, BatchInv, Shapes

\* Finalizers write private files and control files, and nothing else.
LEMMA FinalizerFrame ==
  ASSUME FinalizerStep
  PROVE  /\ UNCHANGED <<library, master, audit, reader, operator, published, settlement>>
         /\ trouble' = trouble \/ trouble' = trouble + 1
         /\ made \subseteq made' /\ sealed \subseteq sealed' /\ shared \subseteq shared'
  <1> USE DEF private, operator, published, bounds, history, Continues, Leaves
  <1>1. PICK f \in Finalizer : FinalizeStart(f) \/ Finalization(f) \/ FinalizeEnds(f)
    BY DEF FinalizerStep
  <1>2. CASE FinalizeStart(f)
    BY <1>2 DEF FinalizeStart
  <1>3. CASE Prepare(f)
    BY <1>3 DEF Prepare, Take, Hold, PrepareNew, PrepareUpdate
  <1>4. CASE WriteManifest(f) \/ WriteUpdates(f) \/ WriteValidation(f) \/ Seal(f)
    BY <1>4 DEF WriteManifest, WriteUpdates, WriteValidation, Seal
  <1>5. CASE Overtaken(f) \/ FinalizeEnds(f) \/ \E g \in Finalizer \ {f} : Collide(f, g)
    BY <1>5 DEF Overtaken, FinalizeEnds, Collide, Trouble
  <1>6. QED
    BY <1>1, <1>2, <1>3, <1>4, <1>5 DEF Finalization

\* A run that prepares a candidate goes on to the next.
LEMMA Preparation ==
  ASSUME BatchInv, NEW f \in Finalizer, Prepare(f)
  PROVE  \E run : /\ Continues(f, run) /\ RunShape(run)
                  /\ run.at = "candidates" /\ finalizer[f].at = "candidates"
  <1>1. RunShape(finalizer[f])
    BY DEF BatchInv, Shapes
  <1>2. PICK c \in Candidate :
          Take(f, c) \/ Hold(f, c) \/ \E a \in Answers : PrepareNew(f, c, a) \/ PrepareUpdate(f, c, a)
    BY DEF Prepare
  <1>3. CASE Take(f, c)
    <2>1. PICK todo \in SUBSET Candidate, current \in SUBSET Candidate :
            /\ todo = finalizer[f].todo \ {c}
            /\ current = IF store[CandidateKey(c)] = None THEN {} ELSE {c}
      BY <1>1 DEF RunShape
    <2>2. finalizer[f].at = "candidates"
          /\ Continues(f, [finalizer[f] EXCEPT !.todo = todo, !.current = current])
      BY <1>3, <2>1 DEF Take
    <2>3. RunShape([finalizer[f] EXCEPT !.todo = todo, !.current = current])
          /\ [finalizer[f] EXCEPT !.todo = todo, !.current = current].at = "candidates"
      BY <1>1, <2>2 DEF RunShape
    <2>4. QED
      BY <2>2, <2>3
  <1>4. CASE Hold(f, c)
    <2>1. c \in finalizer[f].current /\ Continues(f, [finalizer[f] EXCEPT !.current = {}])
      BY <1>4 DEF Hold
    <2>2. /\ finalizer[f].at = "candidates"
          /\ RunShape([finalizer[f] EXCEPT !.current = {}])
          /\ [finalizer[f] EXCEPT !.current = {}].at = "candidates"
      BY <1>1, <2>1 DEF RunShape
    <2>3. QED
      BY <2>1, <2>2
  <1>5. CASE \E a \in Answers : PrepareNew(f, c, a)
    <2>1. PICK items : Continues(f, [finalizer[f] EXCEPT !.current = {}, !.new = items])
                       /\ c \in finalizer[f].current
      BY <1>5 DEF PrepareNew
    <2>2. /\ finalizer[f].at = "candidates"
          /\ RunShape([finalizer[f] EXCEPT !.current = {}, !.new = items])
          /\ [finalizer[f] EXCEPT !.current = {}, !.new = items].at = "candidates"
      BY <1>1, <2>1 DEF RunShape
    <2>3. QED
      BY <2>1, <2>2
  <1>6. CASE \E a \in Answers : PrepareUpdate(f, c, a)
    <2>1. PICK items : Continues(f, [finalizer[f] EXCEPT !.current = {}, !.updates = items])
                       /\ c \in finalizer[f].current
      BY <1>6 DEF PrepareUpdate
    <2>2. /\ finalizer[f].at = "candidates"
          /\ RunShape([finalizer[f] EXCEPT !.current = {}, !.updates = items])
          /\ [finalizer[f] EXCEPT !.current = {}, !.updates = items].at = "candidates"
      BY <1>1, <2>1 DEF RunShape
    <2>3. QED
      BY <2>1, <2>2
  <1>7. QED
    BY <1>2, <1>3, <1>4, <1>5, <1>6

\* Every step of a finalizer gives a run its shape.
LEMMA RunShapes ==
  ASSUME BatchInv, FinalizerStep
  PROVE  /\ finalizer' = [f \in Finalizer |-> finalizer'[f]]
         /\ \A f \in Finalizer : RunShape(finalizer'[f])
  <1>0. \A f \in Finalizer : RunShape(finalizer[f])
    BY DEF BatchInv, Shapes
  <1>1. RunShape(Idle)
    BY DEF RunShape, Idle
  <1>2. ASSUME NEW f \in Finalizer, NEW run, RunShape(run), Continues(f, run)
        PROVE  /\ finalizer' = [g \in Finalizer |-> finalizer'[g]]
               /\ \A g \in Finalizer : RunShape(finalizer'[g])
    BY <1>0, <1>2, OneRun
  <1>3. PICK f \in Finalizer : FinalizeStart(f) \/ Finalization(f) \/ FinalizeEnds(f)
    BY DEF FinalizerStep
  <1>4. RunShape(finalizer[f])
    BY <1>0
  <1>5. CASE FinalizeStart(f)
    <2>1. PICK run : run = [Idle EXCEPT !.at = "candidates", !.todo = Listed, !.master = master]
      OBVIOUS
    <2>2. RunShape(run)
      BY <2>1 DEF RunShape, Idle, Listed
    <2>3. Continues(f, run)
      BY <1>5, <2>1 DEF FinalizeStart, Continues
    <2>4. QED
      BY <1>2, <2>2, <2>3
  <1>6. CASE Prepare(f)
    BY <1>2, <1>6, Preparation
  <1>7. CASE WriteManifest(f) \/ WriteUpdates(f) \/ WriteValidation(f)
    <2>1. Leaves(f) \/ \E step : Continues(f, [finalizer[f] EXCEPT !.at = step])
      BY <1>7 DEF WriteManifest, WriteUpdates, WriteValidation
    <2>2. finalizer[f].current = {}
      BY <1>4, <1>7 DEF WriteManifest, WriteUpdates, WriteValidation, Prepared, RunShape
    <2>3. \A step : RunShape([finalizer[f] EXCEPT !.at = step])
      BY <1>4, <2>2 DEF RunShape
    <2>4. QED
      BY <1>1, <1>2, <2>1, <2>3 DEF Leaves
  <1>8. CASE Seal(f) \/ Overtaken(f) \/ FinalizeEnds(f)
    BY <1>1, <1>2, <1>8 DEF Seal, Overtaken, FinalizeEnds, Leaves
  <1>9. CASE \E g \in Finalizer \ {f} : Collide(f, g)
    <2>1. PICK g \in Finalizer \ {f} : Collide(f, g)
      BY <1>9
    <2>2. \A h \in {f, g} : RunShape([finalizer[h] EXCEPT !.at = "updates"])
      BY <1>0, <2>1, TwoRuns DEF RunShape
    <2>3. QED
      BY <1>0, <1>1, <2>1, <2>2, TwoRuns
  <1>10. QED
    BY <1>3, <1>5, <1>6, <1>7, <1>8, <1>9 DEF Finalization

\* Each part of the invariant is kept by every step, given the whole.
LEMMA ShapesStep ==
  ASSUME BatchInv, [BatchNext]_batchVars
  PROVE  Shapes'
  <1> USE DEF BatchInv, private, operator, published, bounds, history
  <1>1. CASE FinalizerStep
    <2>1. library' = library /\ settlement' = settlement /\ reader' = reader /\ trouble' \in Nat
      BY <1>1, FinalizerFrame DEF Shapes
    <2>2. store' = [k \in Key |-> store'[k]] /\
          control' = [manifest |-> control'.manifest, updates |-> control'.updates,
                      validation |-> control'.validation, batch |-> control'.batch]
      <3>1. PICK f \in Finalizer : FinalizeStart(f) \/ Finalization(f) \/ FinalizeEnds(f)
        BY <1>1 DEF FinalizerStep
      <3>2. CASE Prepare(f)
        BY <3>2 DEF Prepare, Take, Hold, PrepareNew, PrepareUpdate, Shapes
      <3>3. CASE WriteManifest(f) \/ WriteUpdates(f) \/ WriteValidation(f) \/ Seal(f)
        BY <3>3 DEF WriteManifest, WriteUpdates, WriteValidation, Seal, Shapes
      <3>4. CASE FinalizeStart(f) \/ Overtaken(f) \/ FinalizeEnds(f)
        BY <3>4 DEF FinalizeStart, Overtaken, FinalizeEnds, Shapes
      <3>5. CASE \E g \in Finalizer \ {f} : Collide(f, g)
        BY <3>5 DEF Collide, Shapes
      <3>6. QED
        BY <3>1, <3>2, <3>3, <3>4, <3>5 DEF Finalization
    <2>3. QED
      BY <1>1, <2>1, <2>2, RunShapes DEF Shapes
  <1>7. CASE ReadNext
    BY <1>7 DEF ReadNext, Reads, Nobody, Shapes
  <1>8. CASE MissPlan
    BY <1>8 DEF MissPlan, Trouble, Reads, Shapes
  <1>9. CASE StorePlan
    BY <1>9 DEF StorePlan, Nobody, Shapes
  <1>10. CASE Accept \/ Gate \/ Authorize \/ \E r \in receipts : VerifyPublication(r)
    BY <1>10 DEF Accept, Gate, Authorize, VerifyPublication, Shapes
  <1>11. CASE PublishBatch
    BY <1>11 DEF PublishBatch, Shapes
  <1>12. CASE \E r \in receipts : SettlePlan(r)
    BY <1>12 DEF SettlePlan, Shapes
  <1>13. CASE \E m \in settlement.moves : MoveExact(m)
    BY <1>13 DEF MoveExact, AtRest, Shapes
  <1>14. CASE \E m \in settlement.moves : MoveHalf(m)
    BY <1>14 DEF MoveHalf, AtRest, Trouble, Shapes
  <1>15. CASE SettleFinish \/ SettleEnds
    BY <1>15 DEF SettleFinish, SettleEnds, AtRest, Trouble, Shapes
  <1>16. CASE \E t \in Target : Edit(t)
    BY <1>16 DEF Edit, Trouble, Shapes
  <1>17. CASE Reindex
    BY <1>17 DEF Reindex, Shapes
  <1>18. CASE UNCHANGED batchVars
    BY <1>18 DEF batchVars, Shapes
  <1>19. QED
    BY <1>1, <1>7, <1>8, <1>9, <1>10, <1>11, <1>12, <1>13, <1>14, <1>15, <1>16, <1>17, <1>18
       DEF BatchNext, FinalizerStep, Plan, Operate, Verify, Settle

-----------------------------------------------------------------------------
\* Nobody else writes the control files, or knows of the runs.
LEMMA FinalizersAlone ==
  ASSUME [BatchNext]_batchVars
  PROVE  FinalizerStep \/ UNCHANGED <<control, finalizer, history>>
  <1>1. CASE FinalizerStep
    BY <1>1
  <1>2. CASE Plan
    BY <1>2 DEF Plan, ReadNext, MissPlan, StorePlan
  <1>3. CASE Operate
    BY <1>3 DEF Operate, Accept, Gate, Authorize, PublishBatch
  <1>4. CASE Verify \/ Settle \/ (\E m \in settlement.moves : MoveHalf(m)) \/ SettleEnds
    BY <1>4 DEF Verify, VerifyPublication, Settle, SettlePlan, MoveExact, SettleFinish,
                MoveHalf, SettleEnds
  <1>5. CASE (\E t \in Target : Edit(t)) \/ Reindex
    BY <1>5 DEF Edit, Reindex
  <1>6. CASE UNCHANGED batchVars
    BY <1>6 DEF batchVars
  <1>7. QED
    BY <1>1, <1>2, <1>3, <1>4, <1>5, <1>6 DEF BatchNext, FinalizerStep

-----------------------------------------------------------------------------
\* Every step keeps each part of the invariant.

\* What is rendered is rendered from nothing or from the base that was read.
LEMMA Renders ==
  ASSUME BatchInv, NEW f \in Finalizer, Prepare(f), NEW g \in Finalizer
  PROVE  FromNothing(finalizer'[g].new) /\ FromBase(finalizer'[g].updates)
  <1>1. FromNothing(finalizer[g].new) /\ FromBase(finalizer[g].updates)
    BY DEF BatchInv, Rendering
  <1>2. RunShape(finalizer[g])
    BY DEF BatchInv, Shapes
  <1>3. CASE g # f
    <2>1. \E run : Continues(f, run)
      BY DEF Prepare, Take, Hold, PrepareNew, PrepareUpdate
    <2>2. QED
      BY <1>1, <1>3, <2>1, OneRun
  <1>4. CASE g = f /\ \E c \in Candidate : Take(f, c) \/ Hold(f, c)
    <2>1. \E run : Continues(f, run) /\ run.new = finalizer[f].new
                     /\ run.updates = finalizer[f].updates
      <3>1. PICK todo, current :
              \/ Continues(f, [finalizer[f] EXCEPT !.todo = todo, !.current = current])
              \/ Continues(f, [finalizer[f] EXCEPT !.current = current])
        BY <1>4 DEF Take, Hold
      <3>2. /\ [finalizer[f] EXCEPT !.todo = todo, !.current = current].new = finalizer[f].new
            /\ [finalizer[f] EXCEPT !.todo = todo, !.current = current].updates = finalizer[f].updates
            /\ [finalizer[f] EXCEPT !.current = current].new = finalizer[f].new
            /\ [finalizer[f] EXCEPT !.current = current].updates = finalizer[f].updates
        BY <1>2 DEF RunShape
      <3>3. QED
        BY <3>1, <3>2
    <2>2. QED
      BY <1>1, <1>4, <2>1, OneRun
  <1>5. CASE g = f /\ \E c \in Candidate, a \in Answers : PrepareNew(f, c, a)
    <2>1. PICK c \in Candidate, a \in Answers : PrepareNew(f, c, a)
      BY <1>5
    <2>2. PICK bytes : bytes = Rendered(c, a, None)
      OBVIOUS
    <2>3. finalizer'[f] = [finalizer[f] EXCEPT !.current = {},
                                               !.new = @ \cup {[c |-> c, bytes |-> bytes]}]
      BY <2>1, <2>2, OneRun DEF PrepareNew
    <2>4. bytes.base = None
      BY <2>2 DEF Rendered
    <2>5. QED
      BY <1>1, <1>2, <1>5, <2>3, <2>4 DEF RunShape, FromNothing
  <1>6. CASE g = f /\ \E c \in Candidate, a \in Answers : PrepareUpdate(f, c, a)
    <2>1. PICK c \in Candidate, a \in Answers : PrepareUpdate(f, c, a)
      BY <1>6
    <2>2. PICK base : base = library[Record[c]]
      OBVIOUS
    <2>3. PICK item : item = UpdatePlan(c, a, base)
      OBVIOUS
    <2>4. finalizer'[f] = [finalizer[f] EXCEPT !.current = {}, !.updates = @ \cup {item}]
      BY <2>1, <2>2, <2>3, OneRun DEF PrepareUpdate
    <2>5. Merged(c, a, base) = base \/ Merged(c, a, base).base = base
      BY DEF Merged, Rendered
    <2>6. item.c = c /\ (item.bytes = item.base \/ item.bytes.base = item.base)
      BY <2>3, <2>5 DEF UpdatePlan
    <2>7. QED
      BY <1>1, <1>2, <1>6, <2>4, <2>6 DEF RunShape, FromBase
  <1>7. QED
    BY <1>3, <1>4, <1>5, <1>6 DEF Prepare

\* Only the renderer makes items, from nothing or from the base it read.
LEMMA RenderingStep ==
  ASSUME BatchInv, [BatchNext]_batchVars
  PROVE  Rendering'
  <1> USE DEF private, operator, published, bounds, history
  <1>1. /\ \A f \in Finalizer : FromNothing(finalizer[f].new) /\ FromBase(finalizer[f].updates)
        /\ FromNothing(control.validation) /\ FromBase(control.updates)
        /\ \A v \in control.validation : v.action \in {"CREATE", "UNCHANGED"}
    BY DEF BatchInv, Rendering
  <1>2. FromNothing(Idle.new) /\ FromBase(Idle.updates)
    BY DEF Idle, FromNothing, FromBase
  <1>3. ASSUME NEW f \in Finalizer, NEW run, Continues(f, run),
               run.new \in {finalizer[f].new, {}}, run.updates \in {finalizer[f].updates, {}}
        PROVE  \A g \in Finalizer :
                 FromNothing(finalizer'[g].new) /\ FromBase(finalizer'[g].updates)
    BY <1>1, <1>3, OneRun DEF FromNothing, FromBase
  <1>4. CASE FinalizerStep
    <2>1. PICK f \in Finalizer : FinalizeStart(f) \/ Finalization(f) \/ FinalizeEnds(f)
      BY <1>4 DEF FinalizerStep
    <2>2. RunShape(finalizer[f])
      BY DEF BatchInv, Shapes
    <2>3. CASE Prepare(f)
      <3>1. UNCHANGED control
        BY <2>3 DEF Prepare, Take, Hold, PrepareNew, PrepareUpdate
      <3>2. QED
        BY <1>1, <2>3, <3>1, Renders DEF Rendering
    <2>4. CASE FinalizeStart(f)
      <3>1. PICK todo, index :
              Continues(f, [Idle EXCEPT !.at = "candidates", !.todo = todo, !.master = index])
        BY <2>4 DEF FinalizeStart, Continues
      <3>2. QED
        BY <1>1, <1>3, <2>4, <3>1 DEF FinalizeStart, Idle, Rendering
    <2>5. CASE WriteManifest(f) \/ WriteUpdates(f) \/ WriteValidation(f) \/ Seal(f) \/ Overtaken(f)
               \/ FinalizeEnds(f)
      <3>1. \/ Continues(f, Idle)
            \/ \E step : Continues(f, [finalizer[f] EXCEPT !.at = step])
        BY <2>5 DEF WriteManifest, WriteUpdates, WriteValidation, Seal, Overtaken, FinalizeEnds,
                    Leaves
      <3>2. \A g \in Finalizer : FromNothing(finalizer'[g].new) /\ FromBase(finalizer'[g].updates)
        BY <1>3, <2>2, <3>1 DEF Idle, RunShape
      <3>3. FromNothing(Assessed(f)) /\ \A v \in Assessed(f) : v.action \in {"CREATE", "UNCHANGED"}
        BY <1>1 DEF Assessed, FromNothing
      <3>4. /\ control'.validation \in {control.validation, Assessed(f)}
            /\ control'.updates \in {control.updates, finalizer[f].updates}
        BY <2>5 DEF WriteManifest, WriteUpdates, WriteValidation, Seal, Overtaken, FinalizeEnds,
                    BatchInv, Shapes
      <3>5. QED
        BY <1>1, <3>2, <3>3, <3>4 DEF Rendering
    <2>6. CASE \E g \in Finalizer \ {f} : Collide(f, g)
      <3>1. \A h \in Finalizer : FromNothing(finalizer'[h].new) /\ FromBase(finalizer'[h].updates)
        <4>1. PICK g \in Finalizer \ {f} : Collide(f, g)
          BY <2>6
        <4>2. ASSUME NEW h \in Finalizer
              PROVE  /\ [finalizer[h] EXCEPT !.at = "updates"].new = finalizer[h].new
                     /\ [finalizer[h] EXCEPT !.at = "updates"].updates = finalizer[h].updates
          BY DEF BatchInv, Shapes, RunShape
        <4>3. ASSUME NEW h \in Finalizer
              PROVE  FromNothing(finalizer'[h].new) /\ FromBase(finalizer'[h].updates)
          <5>1. CASE finalizer'[h] \in {finalizer[h], Idle}
            BY <1>1, <1>2, <5>1
          <5>2. CASE finalizer'[h] = [finalizer[h] EXCEPT !.at = "updates"]
            BY <1>1, <4>2, <5>2
          <5>3. QED
            BY <4>1, <5>1, <5>2, TwoRuns
        <4>4. QED
          BY <4>3
      <3>2. control'.validation = control.validation /\ control'.updates = control.updates
        BY <2>6 DEF Collide, BatchInv, Shapes
      <3>3. QED
        BY <1>1, <3>1, <3>2 DEF Rendering
    <2>7. QED
      BY <2>1, <2>3, <2>4, <2>5, <2>6 DEF Finalization
  <1>5. CASE UNCHANGED <<control, finalizer>>
    BY <1>1, <1>5 DEF Rendering
  <1>6. QED
    BY <1>4, <1>5, FinalizersAlone

\* The order in which the planner reads.
LEMMA ReadsFacts ==
  /\ Len(Reads) = 6 /\ Reads[5] = "batch" /\ Reads[6] = "plan" /\ Reads[1] = "master"
  /\ Reads[2] = "manifest" /\ Reads[3] = "validation" /\ Reads[4] = "updates"
  BY DEF Reads

\* The planner stops at a barrier that does not verify, and keeps what it has read.
LEMMA ReadNextSeals ==
  ASSUME BatchInv, ReadNext
  PROVE  SealsRead'
  <1> USE DEF BatchInv
  <1>1. PICK n \in 0..5 : n = reader.at
    BY ReadsFacts DEF ReadNext, Shapes
  <1>2. PICK file : file = Reads[n + 1]
    OBVIOUS
  <1>3. PICK read : read = [f \in {Reads[k] : k \in 1..(n + 1)} |->
                             IF f = file THEN Content(f) ELSE reader.seen[f]]
    OBVIOUS
  <1>4. reader' = IF file = "batch" /\ ~Verified(read.batch, read.master, read)
                  THEN Nobody ELSE [at |-> n + 1, seen |-> read]
    BY <1>1, <1>2, <1>3 DEF ReadNext
  <1>5. UNCHANGED <<control, sealed>>
    BY DEF ReadNext, history
  <1>6. CASE reader' = Nobody
    BY <1>5, <1>6 DEF Nobody, SealsRead
  <1>7. CASE reader' # Nobody /\ n < 4
    BY <1>1, <1>4, <1>5, <1>7 DEF SealsRead
  <1>8. CASE reader' # Nobody /\ n = 4
    <2>1. file = "batch" /\ read["batch"] = control.batch
      BY <1>2, <1>3, <1>8, ReadsFacts DEF Content
    <2>2. read["batch"] # None
      BY <1>4, <1>8, <2>1, RecordIsNotNone DEF Verified
    <2>3. reader'.at = 5 /\ reader'.seen = read
      BY <1>4, <1>8
    <2>4. QED
      BY <1>5, <2>1, <2>2, <2>3 DEF SealsRead
  <1>9. CASE reader' # Nobody /\ n = 5
    <2>1. file = "plan" /\ read["batch"] = reader.seen["batch"]
      BY <1>2, <1>3, <1>9, ReadsFacts DEF Content
    <2>2. reader'.at = 6 /\ reader'.seen = read
      BY <1>4, <1>9
    <2>3. QED
      BY <1>1, <1>5, <1>9, <2>1, <2>2 DEF SealsRead
  <1>10. QED
    BY <1>1, <1>6, <1>7, <1>8, <1>9

\* The barrier is only ever written by a sealing run.
LEMMA SealsReadStep ==
  ASSUME BatchInv, [BatchNext]_batchVars
  PROVE  SealsRead'
  <1> USE DEF BatchInv, private, operator, published, bounds, history
  <1>1. CASE FinalizerStep
    <2>1. reader' = reader /\ sealed \subseteq sealed'
      BY <1>1, FinalizerFrame
    <2>2. control'.batch = control.batch \/ control'.batch \in sealed'
      <3>1. PICK f \in Finalizer : FinalizeStart(f) \/ Finalization(f) \/ FinalizeEnds(f)
        BY <1>1 DEF FinalizerStep
      <3>2. CASE Seal(f)
        <4>1. PICK batch : batch = BatchOf(finalizer[f].master, control)
          OBVIOUS
        <4>2. control'.batch = batch /\ sealed' = sealed \cup {batch}
          BY <3>2, <4>1 DEF Seal, Shapes
        <4>3. QED
          BY <4>2
      <3>3. CASE ~Seal(f)
        BY <3>1, <3>3 DEF Finalization, Prepare, FinalizeStart, Take, Hold, PrepareNew,
                          PrepareUpdate, WriteManifest, WriteUpdates, WriteValidation,
                          Overtaken, Collide, FinalizeEnds, Shapes
      <3>4. QED
        BY <3>2, <3>3
    <2>3. QED
      BY <2>1, <2>2 DEF SealsRead
  <1>3. CASE ReadNext
    BY <1>3, ReadNextSeals
  <1>4. CASE MissPlan
    <2>1. reader.at = 5
      BY <1>4, ReadsFacts DEF MissPlan
    <2>2. reader'.seen["batch"] = reader.seen["batch"]
      BY <1>4, ReadsFacts DEF MissPlan
    <2>3. QED
      BY <1>4, <2>1, <2>2 DEF MissPlan, SealsRead
  <1>5. CASE StorePlan
    BY <1>5 DEF StorePlan, Nobody, SealsRead
  <1>6. CASE UNCHANGED <<control, reader, sealed>>
    BY <1>6 DEF SealsRead
  <1>7. QED
    BY <1>1, <1>3, <1>4, <1>5, <1>6
       DEF BatchNext, FinalizerStep, Plan, Operate, Verify, Settle, Accept, Gate, Authorize, PublishBatch, VerifyPublication,
           SettlePlan, MoveExact, MoveHalf, SettleFinish, SettleEnds, Edit, Reindex, batchVars

\* What the planner stores is what one run sealed.
LEMMA StorePlanBound ==
  ASSUME BatchInv, StorePlan, store'[PlanKey] # store[PlanKey]
  PROVE  /\ reader.at = 6 /\ reader.seen["plan"] = None
         /\ LET tx == store'[PlanKey]
            IN tx.batch \in sealed /\ tx.items = ItemsOf(tx.batch) /\ tx.master = tx.batch.master
  <1> USE DEF BatchInv
  <1>1. /\ reader.at = 6 /\ reader.seen["plan"] = None
        /\ Acceptable(PlanMaster, PlanControl)
        /\ store' = [store EXCEPT ![PlanKey] = Transaction(PlanMaster, PlanControl)]
    BY ReadsFacts DEF StorePlan
  <1>2. store'[PlanKey] = Transaction(PlanMaster, PlanControl)
    BY <1>1, PlanIsKey DEF Shapes
  <1>3. PlanControl.batch \in sealed
    BY <1>1 DEF PlanControl, SealsRead
  <1>4. PlanControl.batch = BatchOf(PlanMaster, PlanControl)
    BY <1>1 DEF Acceptable, Verified
  <1>5. PICK c : c = PlanControl
    OBVIOUS
  <1>6. ItemsOf(BatchOf(PlanMaster, c)) = ItemsOf(c)
    BY DEF ItemsOf, NewItems, UpdateItems, BatchOf
  <1>7. BatchOf(PlanMaster, c).master = PlanMaster
    BY DEF BatchOf
  <1>8. QED
    BY <1>1, <1>2, <1>3, <1>4, <1>5, <1>6, <1>7 DEF Transaction

\* What is verified was published, and its items are about candidates.
LEMMA VerifiedItems ==
  ASSUME BatchInv, NEW tx \in verified
  PROVE  tx # None /\ \A i \in tx.items : i.c \in Candidate
  BY DEF BatchInv, Ledger

\* A move under way is one of the transaction that is settled.
LEMMA MoveKeys ==
  ASSUME BatchInv, NEW m \in settlement.moves
  PROVE  /\ settlement # AtRest /\ settlement.tx \in verified
         /\ m.key \in Key /\ m.key \in KeysOf(settlement.tx) \cup {PlanKey}
  <1>1. settlement # AtRest
    BY DEF AtRest
  <1>2. settlement.tx \in verified /\ m.key \in KeysOf(settlement.tx) \cup {PlanKey}
    BY <1>1 DEF BatchInv, Ledger
  <1>3. \A i \in settlement.tx.items : i.c \in Candidate
    BY <1>2, VerifiedItems
  <1>4. m.key \in Key
    BY <1>2, <1>3, Keys, PlanIsKey DEF KeysOf
  <1>5. QED
    BY <1>1, <1>2, <1>4

\* A move that is carried out.
Moved(m) ==
  /\ MoveAllowed(m) /\ Due(m)
  /\ store' = [store EXCEPT ![m.key] = None]
  /\ audit' = Filed(m)
  /\ settlement'.tx = settlement.tx /\ settlement'.moves = settlement.moves \ {m}

\* A move arrives, or its failure ends the settlement and changes nothing.
LEMMA MoveEffect ==
  ASSUME BatchInv, NEW m \in settlement.moves, MoveExact(m)
  PROVE  Moved(m) \/ (settlement' = AtRest /\ UNCHANGED private)
  BY DEF MoveExact, Moved, BatchInv, Shapes

\* A move empties its own key and no other.
LEMMA MovedStore ==
  ASSUME BatchInv, NEW m \in settlement.moves, Moved(m), NEW k \in Key
  PROVE  store'[k] = IF k = m.key THEN None ELSE store[k]
  BY MoveKeys DEF Moved, BatchInv, Shapes

\* The renderer touches neither the plan nor a candidate, and the rest of a run no
\* private file at all.
LEMMA FinalizerStore ==
  ASSUME BatchInv, FinalizerStep
  PROVE  /\ store'[PlanKey] = store[PlanKey]
         /\ \A d \in Candidate : store'[CandidateKey(d)] = store[CandidateKey(d)]
  <1>1. PICK f \in Finalizer : FinalizeStart(f) \/ Finalization(f) \/ FinalizeEnds(f)
    BY DEF FinalizerStep
  <1>2. CASE \E c \in Candidate, a \in Answers : PrepareNew(f, c, a) \/ PrepareUpdate(f, c, a)
    <2>1. PICK c \in Candidate :
            \E x, y : store' = [store EXCEPT ![BodyKey(c)] = x, ![EntryKey(c)] = y]
      BY <1>2 DEF PrepareNew, PrepareUpdate
    <2>2. PlanKey \in Key /\ BodyKey(c) # PlanKey /\ EntryKey(c) # PlanKey
      BY Keys
    <2>3. store'[PlanKey] = store[PlanKey]
      BY <2>1, <2>2 DEF BatchInv, Shapes
    <2>4. ASSUME NEW d \in Candidate
          PROVE  store'[CandidateKey(d)] = store[CandidateKey(d)]
      <3>1. CandidateKey(d) \in Key /\ BodyKey(c) # CandidateKey(d) /\ EntryKey(c) # CandidateKey(d)
        BY Keys
      <3>2. QED
        BY <2>1, <3>1 DEF BatchInv, Shapes
    <2>5. QED
      BY <2>3, <2>4
  <1>3. CASE UNCHANGED store
    BY <1>3
  <1>4. QED
    BY <1>1, <1>2, <1>3
       DEF Finalization, Prepare, FinalizeStart, Take, Hold, WriteManifest, WriteUpdates,
           WriteValidation, Seal, Overtaken, Collide, FinalizeEnds, private

\* Storing the plan touches no candidate.
LEMMA StorePlanCandidates ==
  ASSUME BatchInv, StorePlan, NEW d \in Candidate
  PROVE  store'[CandidateKey(d)] = store[CandidateKey(d)]
  <1>1. CandidateKey(d) \in Key /\ CandidateKey(d) # PlanKey
    BY Keys
  <1>2. QED
    BY <1>1 DEF StorePlan, BatchInv, Shapes

\* What a move adds to the archive.
LEMMA FiledUnder ==
  ASSUME NEW m, audit' = Filed(m), NEW c \in Candidate
  PROVE  /\ ArchivedUnder(c) \subseteq ArchivedUnder(c)'
         /\ ArchivedUnder(c)' \subseteq ArchivedUnder(c) \cup {settlement.tx}
         /\ m.key # CandidateKey(c) => ArchivedUnder(c)' = ArchivedUnder(c)
         /\ m.key = CandidateKey(c) /\ m.bytes = Page(c) => settlement.tx \in ArchivedUnder(c)'
  <1>1. \A tx : tx \in ArchivedUnder(c) <=>
          \E a \in audit : a.tx = tx /\ a.key = CandidateKey(c) /\ a.bytes = Page(c)
    BY DEF ArchivedUnder
  <1>2. \A tx : tx \in ArchivedUnder(c)' <=>
          \E a \in audit' : a.tx = tx /\ a.key = CandidateKey(c) /\ a.bytes = Page(c)
    BY DEF ArchivedUnder
  <1>3. PICK f : f = [tx |-> settlement.tx, key |-> m.key, bytes |-> m.bytes]
    OBVIOUS
  <1>4. audit' = audit \cup {f}
    BY <1>3 DEF Filed
  <1>5. f.tx = settlement.tx /\ f.key = m.key /\ f.bytes = m.bytes
    BY <1>3
  <1>6. ArchivedUnder(c) \subseteq ArchivedUnder(c)'
    BY <1>1, <1>2, <1>4
  <1>7. ArchivedUnder(c)' \subseteq ArchivedUnder(c) \cup {settlement.tx}
    BY <1>1, <1>2, <1>4, <1>5
  <1>8. m.key # CandidateKey(c) => ArchivedUnder(c)' = ArchivedUnder(c)
    <2>1. SUFFICES ASSUME m.key # CandidateKey(c), NEW tx \in ArchivedUnder(c)'
                   PROVE  tx \in ArchivedUnder(c)
      BY <1>6
    <2>2. PICK a \in audit' : a.tx = tx /\ a.key = CandidateKey(c) /\ a.bytes = Page(c)
      BY <1>2
    <2>3. a \in audit
      BY <1>4, <1>5, <2>1, <2>2
    <2>4. QED
      BY <1>1, <2>2, <2>3
  <1>9. m.key = CandidateKey(c) /\ m.bytes = Page(c) => settlement.tx \in ArchivedUnder(c)'
    BY <1>2, <1>4, <1>5
  <1>10. QED
    BY <1>6, <1>7, <1>8, <1>9

\* What a step of a finalizer makes of its files: it writes them one after the other,
\* and seals what it has written if nobody else is there.
LEMMA OwnFilesWritten ==
  ASSUME BatchInv, NEW f \in Finalizer, Finalization(f), ~Seal(f),
         ~ \E g \in Finalizer \ {f} : Collide(f, g), f \notin overlapped,
         finalizer'[f].at # "idle"
  PROVE  /\ finalizer'[f].at \in {"updates", "validation", "sealing"} =>
              control'.manifest = finalizer'[f].new
         /\ finalizer'[f].at \in {"validation", "sealing"} =>
              control'.updates = finalizer'[f].updates
         /\ finalizer'[f].at = "sealing" => BatchOf(finalizer'[f].master, control') \in made'
  <1>1. RunShape(finalizer[f]) /\ Idle.at = "idle"
    BY DEF BatchInv, Shapes, Idle
  <1>2. finalizer[f].at # "idle" =>
          /\ finalizer[f].at \in {"updates", "validation", "sealing"} =>
               control.manifest = finalizer[f].new
          /\ finalizer[f].at \in {"validation", "sealing"} =>
               control.updates = finalizer[f].updates
    BY DEF BatchInv, OwnFiles, Active
  <1>3. CASE Prepare(f)
    <2>1. finalizer'[f].at = "candidates"
      BY <1>3, Preparation, OneRun
    <2>2. QED
      BY <2>1
  <1>4. CASE WriteManifest(f)
    <2>1. Leaves(f) \/ (/\ Continues(f, [finalizer[f] EXCEPT !.at = "updates"])
                        /\ control' = [control EXCEPT !.manifest = finalizer[f].new])
      BY <1>4 DEF WriteManifest
    <2>2. QED
      BY <1>1, <2>1, OneRun DEF Leaves, RunShape, BatchInv, Shapes
  <1>5. CASE WriteUpdates(f)
    <2>1. /\ \/ Leaves(f)
             \/ /\ Continues(f, [finalizer[f] EXCEPT !.at = "validation"])
                /\ control' = [control EXCEPT !.updates = finalizer[f].updates]
          /\ finalizer[f].at = "updates"
      BY <1>5 DEF WriteUpdates
    <2>2. QED
      BY <1>1, <1>2, <2>1, OneRun DEF Leaves, RunShape, BatchInv, Shapes
  <1>6. CASE WriteValidation(f)
    <2>1. finalizer'[f] # Idle
      BY <1>1
    <2>2. /\ Continues(f, [finalizer[f] EXCEPT !.at = "sealing"])
          /\ control' = [control EXCEPT !.validation = Assessed(f)]
          /\ made' = made \cup {BatchOf(finalizer[f].master, Output(f))}
          /\ finalizer[f].at = "validation"
      BY <1>6, <2>1, OneRun DEF WriteValidation, Leaves
    <2>3. control'.manifest = finalizer[f].new /\ control'.updates = finalizer[f].updates
          /\ control'.validation = Assessed(f)
      BY <1>2, <2>2 DEF BatchInv, Shapes
    <2>4. finalizer'[f].new = finalizer[f].new /\ finalizer'[f].updates = finalizer[f].updates
          /\ finalizer'[f].master = finalizer[f].master
      BY <1>1, <2>2, OneRun DEF RunShape
    <2>5. BatchOf(finalizer'[f].master, control') = BatchOf(finalizer[f].master, Output(f))
      BY <2>3, <2>4 DEF BatchOf, Output
    <2>6. QED
      BY <2>2, <2>3, <2>4, <2>5
  <1>7. CASE Overtaken(f)
    BY <1>1, <1>7, OneRun DEF Overtaken, Leaves
  <1>8. QED
    BY <1>3, <1>4, <1>5, <1>6, <1>7 DEF Finalization

\* A run that nobody overlaps finds its files as it wrote them, and seals them.
LEMMA OwnFilesStep ==
  ASSUME BatchInv, [BatchNext]_batchVars
  PROVE  OwnFiles'
  <1> USE DEF private, operator, published, bounds, history
  <1>1. CASE FinalizerStep
    <2>1. PICK f \in Finalizer : FinalizeStart(f) \/ Finalization(f) \/ FinalizeEnds(f)
      BY <1>1 DEF FinalizerStep
    <2>2. made \subseteq made' /\ shared \subseteq shared'
      BY <1>1, FinalizerFrame
    <2>3. sealed \subseteq made \cup shared
      BY DEF BatchInv, OwnFiles
    <2>4. Idle.at = "idle"
      BY DEF Idle
    <2>5. CASE FinalizeStart(f)
      <3>1. /\ UNCHANGED <<control, made, sealed, shared>>
            /\ overlapped' = IF Active = {} THEN {} ELSE overlapped \cup Active \cup {f}
            /\ \E run : Continues(f, run) /\ run.at = "candidates"
        <4>1. PICK todo, index : todo = Listed /\ index = master
          OBVIOUS
        <4>2. Continues(f, [Idle EXCEPT !.at = "candidates", !.todo = todo, !.master = index])
          BY <2>5, <4>1 DEF FinalizeStart, Continues
        <4>3. [Idle EXCEPT !.at = "candidates", !.todo = todo, !.master = index].at = "candidates"
          BY DEF Idle
        <4>4. QED
          BY <2>5, <4>2, <4>3 DEF FinalizeStart
      <3>2. /\ finalizer'[f].at = "candidates"
            /\ \A g \in Finalizer \ {f} : finalizer'[g] = finalizer[g]
        BY <3>1, OneRun
      <3>3. Active' = Active \cup {f}
        BY <3>2 DEF Active
      <3>4. \A g \in Active' \ overlapped' : Active' = {g} /\ g = f
        BY <3>1, <3>3
      <3>5. QED
        BY <2>3, <3>1, <3>2, <3>4 DEF OwnFiles
    <2>6. CASE Seal(f)
      <3>1. /\ f \in Active /\ Active' = Active \ {f}
        BY <2>4, <2>6, OneRun DEF Seal, Leaves, Active
      <3>2. /\ overlapped' = overlapped /\ made' = made
            /\ sealed' = sealed \cup {BatchOf(finalizer[f].master, control)}
            /\ f \in overlapped =>
                 shared' = shared \cup {BatchOf(finalizer[f].master, control)}
        BY <2>6 DEF Seal
      <3>3. f \notin overlapped => BatchOf(finalizer[f].master, control) \in made
        BY <2>6, <3>1 DEF Seal, BatchInv, OwnFiles
      <3>4. Active' \ overlapped' = {}
        BY <3>1, <3>2 DEF BatchInv, OwnFiles
      <3>5. QED
        BY <2>2, <2>3, <3>2, <3>3, <3>4 DEF OwnFiles
    <2>7. CASE FinalizeEnds(f)
      <3>1. UNCHANGED <<control, history>> /\ Active' = Active \ {f} /\ f \in Active
        BY <2>4, <2>7, OneRun DEF FinalizeEnds, Leaves, Active
      <3>2. Active' \ overlapped' = {}
        BY <3>1 DEF BatchInv, OwnFiles
      <3>3. QED
        BY <2>3, <3>1, <3>2 DEF OwnFiles
    <2>8. CASE \E g \in Finalizer \ {f} : Collide(f, g)
      <3>1. PICK g \in Finalizer \ {f} : Collide(f, g)
        BY <2>8
      <3>2. UNCHANGED history /\ f \in Active /\ g \in Active /\ Active' \subseteq Active
        <4>1. UNCHANGED history
          BY <3>1 DEF Collide
        <4>2. finalizer[f].at = "candidates" /\ finalizer[g].at = "candidates"
              /\ \A h \in Finalizer \ {f, g} : finalizer'[h] = finalizer[h]
          BY <3>1, TwoRuns
        <4>3. QED
          BY <4>1, <4>2 DEF Active
      <3>3. Active' \ overlapped' = {}
        BY <3>1, <3>2 DEF BatchInv, OwnFiles
      <3>4. QED
        BY <2>3, <3>2, <3>3 DEF OwnFiles
    <2>9. CASE Finalization(f) /\ ~Seal(f) /\ ~ \E g \in Finalizer \ {f} : Collide(f, g)
      <3>1. f \in Active /\ UNCHANGED <<sealed, shared, overlapped>> /\ \E run : Continues(f, run)
        <4>1. CASE Prepare(f)
          <5>1. UNCHANGED <<sealed, shared, overlapped>>
            BY <4>1 DEF Prepare, Take, Hold, PrepareNew, PrepareUpdate
          <5>2. QED
            BY <4>1, <5>1, Preparation DEF Active
        <4>2. CASE WriteManifest(f) \/ WriteUpdates(f)
          BY <4>2 DEF WriteManifest, WriteUpdates, Leaves, Prepared, Active
        <4>3. CASE WriteValidation(f) \/ Overtaken(f)
          BY <4>3 DEF WriteValidation, Overtaken, Leaves, Active
        <4>4. QED
          BY <2>9, <4>1, <4>2, <4>3 DEF Finalization
      <3>2. \A g \in Finalizer \ {f} : finalizer'[g] = finalizer[g]
        BY <3>1, OneRun
      <3>3. Active' \subseteq Active
        BY <3>1, <3>2 DEF Active
      <3>4. ASSUME NEW g \in Active' \ overlapped'
            PROVE  g = f /\ Active' = {g} /\ finalizer'[f].at # "idle"
        BY <3>1, <3>3, <3>4 DEF BatchInv, OwnFiles, Active
      <3>5. QED
        BY <2>2, <2>3, <2>9, <3>1, <3>4, OwnFilesWritten DEF OwnFiles
    <2>10. QED
      BY <2>1, <2>5, <2>6, <2>7, <2>8, <2>9
  <1>2. CASE UNCHANGED <<finalizer, control, history>>
    BY <1>2 DEF BatchInv, OwnFiles, Active, BatchOf
  <1>3. QED
    BY <1>1, <1>2, FinalizersAlone

\* A stored plan is one that was read under one seal.
LEMMA NoMixedRunsStep ==
  ASSUME BatchInv, [BatchNext]_batchVars
  PROVE  NoMixedRuns'
  <1> USE DEF private, operator, published, bounds, history
  <1>1. CASE FinalizerStep
    BY <1>1, FinalizerFrame, FinalizerStore DEF BatchInv, NoMixedRuns
  <1>2. CASE StorePlan
    <2>1. UNCHANGED history
      BY <1>2 DEF StorePlan
    <2>2. sealed \subseteq made \cup shared
      BY DEF BatchInv, OwnFiles
    <2>3. QED
      BY <1>2, <2>1, <2>2, StorePlanBound DEF BatchInv, NoMixedRuns
  <1>3. CASE \E m \in settlement.moves : MoveExact(m)
    <2>1. store'[PlanKey] \in {None, store[PlanKey]} /\ UNCHANGED history
      BY <1>3, MoveEffect, MovedStore, PlanIsKey DEF MoveExact
    <2>2. QED
      BY <2>1 DEF BatchInv, NoMixedRuns
  <1>4. CASE UNCHANGED <<store, history>>
    BY <1>4 DEF BatchInv, NoMixedRuns
  <1>5. QED
    BY <1>1, <1>2, <1>3, <1>4
       DEF BatchNext, FinalizerStep, Plan, Operate, Verify, Settle, ReadNext, MissPlan,
           Accept, Gate, Authorize, PublishBatch, VerifyPublication, SettlePlan, MoveHalf,
           SettleFinish, SettleEnds, Edit, Reindex, batchVars

\* Gate and publication compare the stored plan with the control files of now.
LEMMA LivePlan ==
  ASSUME BatchInv, PlanIsLive
  PROVE  /\ store[PlanKey] = Transaction(master, control)
         /\ store[PlanKey].batch = control.batch /\ store[PlanKey].items = ItemsOf(control)
         /\ \A i \in ItemsOf(control) : Live(i) /\ i.c \in Candidate
  <1>1. /\ store[PlanKey] = Transaction(master, control)
        /\ \A i \in ItemsOf(control) : Live(i)
    BY DEF PlanIsLive, Acceptable
  <1>2. \A i \in ItemsOf(control) : i.c \in Candidate
    BY DEF ItemsOf, NewItems, UpdateItems, BatchInv, Rendering, FromNothing, FromBase
  <1>3. QED
    BY <1>1, <1>2 DEF Transaction

\* A transaction becomes ready through an acceptance of its very items.
LEMMA ReadyAcceptedStep ==
  ASSUME BatchInv, [BatchNext]_batchVars
  PROVE  ReadyAccepted'
  <1> USE DEF private, operator, published, bounds, history
  <1>1. CASE Accept
    BY <1>1 DEF Accept, BatchInv, ReadyAccepted
  <1>2. CASE Gate
    <2>1. /\ ready' = store[PlanKey] /\ accepted' = accepted
          /\ AcceptanceBound /\ PlanIsLive
      BY <1>2 DEF Gate, Ready
    <2>2. QED
      BY <2>1, LivePlan DEF AcceptanceBound, ReadyAccepted
  <1>3. CASE UNCHANGED <<ready, accepted>>
    BY <1>3 DEF BatchInv, ReadyAccepted
  <1>4. CASE FinalizerStep
    BY <1>3, <1>4, FinalizerFrame
  <1>5. QED
    BY <1>1, <1>2, <1>3, <1>4
       DEF BatchNext, FinalizerStep, Plan, Operate, Verify, Settle,
           ReadNext, MissPlan, StorePlan, Authorize,
           PublishBatch, VerifyPublication, SettlePlan, MoveExact, MoveHalf, SettleFinish,
           SettleEnds, Edit, Reindex, batchVars

\* A move carries what the transaction says its key holds.
LEMMA MovesKeys ==
  ASSUME NEW tx, NEW m \in MovesOf(tx)
  PROVE  /\ m.key \in KeysOf(tx) \cup {PlanKey}
         /\ m.bytes = Expected(tx, m.key)
  <1>1. CASE m = MoveOf(tx, PlanKey, 0)
    BY <1>1 DEF MoveOf
  <1>2. CASE m # MoveOf(tx, PlanKey, 0)
    <2>1. PICK i \in tx.items :
            m \in {MoveOf(tx, CandidateKey(i.c), 3 * i.c), MoveOf(tx, EntryKey(i.c), 3 * i.c + 1),
                  MoveOf(tx, BodyKey(i.c), 3 * i.c + 2)}
      BY <1>2 DEF MovesOf
    <2>2. m.key \in {CandidateKey(i.c), EntryKey(i.c), BodyKey(i.c)}
          /\ m.bytes = Expected(tx, m.key)
      BY <2>1 DEF MoveOf
    <2>3. QED
      BY <2>2 DEF KeysOf
  <1>3. QED
    BY <1>1, <1>2

\* Nothing is verified that was not published, nor settled that was not verified.
LEMMA LedgerStep ==
  ASSUME BatchInv, [BatchNext]_batchVars
  PROVE  Ledger'
  <1> USE DEF private, operator, published, bounds, history
  <1>1. CASE PublishBatch
    <2>1. ready # None /\ store[PlanKey] = ready
      BY <1>1 DEF PublishBatch, Authorized
    <2>2. PICK n : receipts' = receipts \cup {[tx |-> ready, after |-> n]}
      BY <1>1, <2>1 DEF PublishBatch
    <2>3. \A i \in ready.items : i.c \in Candidate
      BY <2>1 DEF BatchInv, ReadyAccepted
    <2>4. UNCHANGED <<verified, audit, settlement, settled>>
      BY <1>1 DEF PublishBatch
    <2>5. QED
      BY <2>1, <2>2, <2>3, <2>4 DEF BatchInv, Ledger, Archived
  <1>2. CASE \E r \in receipts : VerifyPublication(r)
    BY <1>2 DEF VerifyPublication, BatchInv, Ledger, Archived
  <1>3. CASE \E r \in receipts : SettlePlan(r)
    <2>1. PICK r \in receipts : SettlePlan(r)
      BY <1>3
    <2>2. \A m \in MovesOf(r.tx) : m.key \in KeysOf(r.tx) \cup {PlanKey}
      BY MovesKeys
    <2>3. settlement'.tx = r.tx /\ settlement'.moves = MovesOf(r.tx) /\ r.tx \in verified
      BY <2>1 DEF SettlePlan
    <2>4. UNCHANGED <<receipts, verified, audit, settled>>
      BY <2>1 DEF SettlePlan
    <2>5. QED
      BY <2>2, <2>3, <2>4 DEF BatchInv, Ledger, Archived
  <1>4. CASE \E m \in settlement.moves : MoveExact(m) \/ MoveHalf(m)
    <2>1. PICK m \in settlement.moves : MoveExact(m) \/ MoveHalf(m)
      BY <1>4
    <2>2. /\ audit' = audit \/ audit' = Filed(m)
          /\ \/ settlement' = AtRest
             \/ settlement'.tx = settlement.tx /\ settlement'.moves \subseteq settlement.moves
      BY <2>1, MoveEffect DEF Moved, MoveHalf
    <2>3. UNCHANGED <<receipts, verified, settled>>
      BY <2>1 DEF MoveExact, MoveHalf
    <2>4. \A a \in audit' : a.tx \in verified /\ a.key \in KeysOf(a.tx) \cup {PlanKey}
      BY <2>2, MoveKeys DEF Filed, BatchInv, Ledger
    <2>5. settlement' # AtRest =>
            /\ settlement'.tx \in verified
            /\ \A n \in settlement'.moves : n.key \in KeysOf(settlement'.tx) \cup {PlanKey}
      BY <2>2, MoveKeys DEF BatchInv, Ledger
    <2>6. audit \subseteq audit'
      BY <2>2 DEF Filed
    <2>7. \A tx \in settled : \A k \in KeysOf(tx) \cup {PlanKey} : Archived(tx, k)' # {}
      BY <2>6 DEF Archived, BatchInv, Ledger
    <2>8. QED
      BY <2>3, <2>4, <2>5, <2>7 DEF BatchInv, Ledger
  <1>5. CASE SettleFinish
    <2>1. UNCHANGED <<receipts, verified, audit>> /\ settlement' = AtRest
      BY <1>5 DEF SettleFinish
    <2>2. PICK tx : tx = settlement.tx
      OBVIOUS
    <2>3. settled' = settled \/ (SettlementHolds(tx) /\ settled' = settled \cup {tx})
      BY <1>5, <2>2 DEF SettleFinish
    <2>4. \A t \in settled' : \A k \in KeysOf(t) \cup {PlanKey} : Archived(t, k) # {}
      BY <2>3 DEF SettlementHolds, BatchInv, Ledger
    <2>5. QED
      BY <2>1, <2>4 DEF BatchInv, Ledger, Archived
  <1>6. CASE SettleEnds
    BY <1>6 DEF SettleEnds, BatchInv, Ledger, Archived
  <1>7. CASE UNCHANGED <<receipts, verified, audit, settlement, settled>>
    BY <1>7 DEF BatchInv, Ledger, Archived
  <1>8. CASE FinalizerStep
    BY <1>7, <1>8, FinalizerFrame
  <1>9. QED
    BY <1>1, <1>2, <1>3, <1>4, <1>5, <1>6, <1>7, <1>8
       DEF BatchNext, FinalizerStep, Plan, Operate, Verify, Settle,
           ReadNext, MissPlan, StorePlan, Accept, Gate,
           Authorize, Edit, Reindex, batchVars

\* A file that settlement moves is filed with the bytes it had.
LEMMA MovedBytes ==
  ASSUME BatchInv, NEW m \in settlement.moves, MoveAllowed(m), NEW c \in Candidate,
         m.key = CandidateKey(c)
  PROVE  m.bytes = Page(c)
  <1>1. CASE store[m.key] = None
    <2>1. \E a \in audit : a.key = m.key /\ a.bytes = m.bytes
      BY <1>1 DEF MoveAllowed, Arrived, Archived
    <2>2. QED
      BY <2>1 DEF BatchInv, Pages
  <1>2. CASE store[m.key] # None
    BY <1>2 DEF MoveAllowed, BatchInv, Pages
  <1>3. QED
    BY <1>1, <1>2

\* A candidate leaves its place only for the archive.
LEMMA PagesStep ==
  ASSUME BatchInv, [BatchNext]_batchVars
  PROVE  Pages'
  <1> USE DEF private, operator, published, bounds, history
  <1>1. ASSUME UNCHANGED audit,
               \A c \in Candidate : store'[CandidateKey(c)] = store[CandidateKey(c)]
        PROVE  Pages'
    BY <1>1 DEF BatchInv, Pages, ArchivedUnder
  <1>2. CASE FinalizerStep
    <2>1. UNCHANGED audit /\ \A c \in Candidate : store'[CandidateKey(c)] = store[CandidateKey(c)]
      BY <1>2, FinalizerFrame, FinalizerStore
    <2>2. QED
      BY <1>1, <2>1
  <1>3. CASE StorePlan
    <2>1. UNCHANGED audit
      BY <1>3 DEF StorePlan
    <2>2. QED
      BY <1>1, <1>3, <2>1, StorePlanCandidates
  <1>4. CASE \E m \in settlement.moves : MoveExact(m) \/ MoveHalf(m)
    <2>1. PICK m \in settlement.moves : MoveExact(m) \/ MoveHalf(m)
      BY <1>4
    <2>2. CASE UNCHANGED private
      BY <1>1, <2>2
    <2>3. CASE (Moved(m) \/ MoveHalf(m)) /\ ~UNCHANGED private
      <3>1. MoveAllowed(m) /\ audit' = Filed(m)
        BY <2>3 DEF Moved, MoveHalf
      <3>2. \A k \in Key : store'[k] = store[k] \/ (k = m.key /\ store'[k] = None)
        BY <2>3, MovedStore DEF MoveHalf
      <3>3. ASSUME NEW c \in Candidate
            PROVE  /\ store'[CandidateKey(c)] \in {None, Page(c)}
                   /\ store'[CandidateKey(c)] = None => ArchivedUnder(c)' # {}
        <4>1. CandidateKey(c) \in Key
          BY Keys
        <4>2. store'[CandidateKey(c)] \in {None, Page(c)}
          BY <3>2, <4>1 DEF BatchInv, Pages
        <4>3. CASE store'[CandidateKey(c)] = store[CandidateKey(c)]
          BY <3>1, <4>2, <4>3, FiledUnder DEF BatchInv, Pages
        <4>4. CASE m.key = CandidateKey(c)
          BY <3>1, <4>2, <4>4, FiledUnder, MovedBytes
        <4>5. QED
          BY <3>2, <4>1, <4>2, <4>3, <4>4
      <3>4. ASSUME NEW a \in audit', NEW c \in Candidate, a.key = CandidateKey(c)
            PROVE  a.bytes = Page(c)
        <4>1. CASE a \in audit
          BY <3>4, <4>1 DEF BatchInv, Pages
        <4>2. CASE a = [tx |-> settlement.tx, key |-> m.key, bytes |-> m.bytes]
          BY <3>1, <3>4, <4>2, MovedBytes
        <4>3. QED
          BY <3>1, <4>1, <4>2 DEF Filed
      <3>5. QED
        BY <3>3, <3>4 DEF Pages
    <2>4. QED
      BY <2>1, <2>2, <2>3, MoveEffect
  <1>5. CASE UNCHANGED private
    BY <1>1, <1>5
  <1>6. QED
    BY <1>2, <1>3, <1>4, <1>5
       DEF BatchNext, FinalizerStep, Plan, Operate, Verify, Settle,
           ReadNext, MissPlan, Accept, Gate, Authorize, PublishBatch, VerifyPublication,
           SettlePlan, SettleFinish, SettleEnds, Edit, Reindex, batchVars

\* A move of the plan comes when nothing else is left to move.
LEMMA PlanDue ==
  ASSUME BatchInv, NEW m \in settlement.moves, Due(m), m.key = PlanKey
  PROVE  \A i \in settlement.tx.items : store[CandidateKey(i.c)] = None
  <1>1. \A n \in settlement.moves : n.key = PlanKey
    BY DEF Due
  <1>2. settlement # AtRest /\ \A i \in settlement.tx.items : i.c \in Candidate
    BY MoveKeys, VerifiedItems
  <1>3. \A i \in settlement.tx.items : CandidateKey(i.c) # PlanKey
    BY <1>2, Keys
  <1>4. QED
    BY <1>1, <1>2, <1>3 DEF BatchInv, PlanLast

\* The plan is moved when the candidates are, and no candidate comes back.
LEMMA PlanLastStep ==
  ASSUME BatchInv, [BatchNext]_batchVars
  PROVE  PlanLast'
  <1> USE DEF private, operator, published, bounds, history
  <1>1. \A a \in audit : \A i \in a.tx.items : i.c \in Candidate
    BY VerifiedItems DEF BatchInv, Ledger
  <1>2. settlement # AtRest => \A i \in settlement.tx.items : i.c \in Candidate
    BY VerifiedItems DEF BatchInv, Ledger
  <1>3. ASSUME UNCHANGED <<audit, settlement>>,
               \A c \in Candidate : store'[CandidateKey(c)] = store[CandidateKey(c)]
        PROVE  PlanLast'
    BY <1>1, <1>2, <1>3 DEF BatchInv, PlanLast
  <1>4. CASE FinalizerStep
    <2>1. /\ UNCHANGED <<audit, settlement>>
          /\ \A c \in Candidate : store'[CandidateKey(c)] = store[CandidateKey(c)]
      BY <1>4, FinalizerFrame, FinalizerStore
    <2>2. QED
      BY <1>3, <2>1
  <1>5. CASE StorePlan
    <2>1. UNCHANGED <<audit, settlement>>
      BY <1>5 DEF StorePlan
    <2>2. QED
      BY <1>3, <1>5, <2>1, StorePlanCandidates
  <1>6. CASE \E r \in receipts : SettlePlan(r)
    <2>1. PICK r \in receipts : SettlePlan(r)
      BY <1>6
    <2>2. /\ settlement'.tx = r.tx /\ settlement'.moves = MovesOf(r.tx)
          /\ Expected(r.tx, PlanKey) = r.tx /\ UNCHANGED private
      BY <2>1 DEF SettlePlan
    <2>3. \A i \in r.tx.items : MoveOf(r.tx, CandidateKey(i.c), 3 * i.c) \in MovesOf(r.tx)
      BY DEF MovesOf
    <2>4. \A i \in r.tx.items : \E m \in MovesOf(r.tx) : m.key = CandidateKey(i.c)
      BY <2>3 DEF MoveOf
    <2>5. \A m \in MovesOf(r.tx) : m.key = PlanKey => m.bytes = r.tx
      BY <2>2, MovesKeys
    <2>6. QED
      BY <2>2, <2>4, <2>5 DEF BatchInv, PlanLast
  <1>7. CASE \E m \in settlement.moves : MoveExact(m) /\ Moved(m)
    <2>1. PICK m \in settlement.moves : MoveExact(m) /\ Moved(m)
      BY <1>7
    <2>2. \A c \in Candidate : \/ store'[CandidateKey(c)] = store[CandidateKey(c)]
                               \/ store'[CandidateKey(c)] = None
      BY <2>1, Keys, MovedStore
    <2>3. \A c \in Candidate : m.key = CandidateKey(c) => store'[CandidateKey(c)] = None
      BY <2>1, Keys, MovedStore
    <2>4. /\ settlement'.tx = settlement.tx /\ settlement'.moves = settlement.moves \ {m}
          /\ audit' = Filed(m) /\ Due(m)
      BY <2>1 DEF Moved
    <2>5. settlement # AtRest
      BY MoveKeys
    <2>6. ASSUME NEW i \in settlement.tx.items
          PROVE  \/ \E n \in settlement'.moves : n.key = CandidateKey(i.c)
                 \/ store'[CandidateKey(i.c)] = None
      <3>1. i.c \in Candidate
        BY <1>2, <2>5
      <3>2. CASE store[CandidateKey(i.c)] = None
        BY <2>2, <3>1, <3>2
      <3>3. CASE \E n \in settlement.moves : n.key = CandidateKey(i.c)
        BY <2>3, <2>4, <3>1, <3>3
      <3>4. QED
        BY <2>5, <3>2, <3>3 DEF BatchInv, PlanLast
    <2>7. ASSUME NEW a \in audit', a.key = PlanKey, NEW i \in a.tx.items
          PROVE  store'[CandidateKey(i.c)] = None
      <3>1. CASE a \in audit
        <4>1. store[CandidateKey(i.c)] = None /\ i.c \in Candidate
          BY <1>1, <2>7, <3>1 DEF BatchInv, PlanLast
        <4>2. QED
          BY <2>2, <4>1
      <3>2. CASE a = [tx |-> settlement.tx, key |-> m.key, bytes |-> m.bytes]
        <4>1. m.key = PlanKey /\ i \in settlement.tx.items
          BY <2>7, <3>2
        <4>2. store[CandidateKey(i.c)] = None /\ i.c \in Candidate
          BY <1>2, <2>4, <2>5, <4>1, PlanDue
        <4>3. QED
          BY <2>2, <4>2
      <3>3. QED
        BY <2>4, <3>1, <3>2 DEF Filed
    <2>8. \A n \in settlement'.moves : n.key = PlanKey => n.bytes = settlement'.tx
      BY <2>4 DEF BatchInv, PlanLast
    <2>9. QED
      BY <2>4, <2>6, <2>7, <2>8 DEF PlanLast
  <1>8. CASE \E m \in settlement.moves : MoveHalf(m)
    <2>1. PICK m \in settlement.moves : MoveHalf(m)
      BY <1>8
    <2>2. settlement' = AtRest /\ audit' = Filed(m) /\ Due(m) /\ UNCHANGED store
      BY <2>1 DEF MoveHalf
    <2>3. settlement'.moves = {}
      BY <2>2 DEF AtRest
    <2>4. ASSUME NEW a \in audit', a.key = PlanKey, NEW i \in a.tx.items
          PROVE  store'[CandidateKey(i.c)] = None
      <3>1. CASE a \in audit
        BY <2>2, <2>4, <3>1 DEF BatchInv, PlanLast
      <3>2. CASE a = [tx |-> settlement.tx, key |-> m.key, bytes |-> m.bytes]
        BY <2>2, <2>4, <3>2, PlanDue
      <3>3. QED
        BY <2>2, <3>1, <3>2 DEF Filed
    <2>5. QED
      BY <2>2, <2>3, <2>4 DEF PlanLast
  <1>9. CASE settlement' = AtRest /\ UNCHANGED private
    BY <1>9 DEF AtRest, BatchInv, PlanLast
  <1>10. CASE UNCHANGED <<private, settlement>>
    BY <1>3, <1>10
  <1>11. QED
    BY <1>4, <1>5, <1>6, <1>7, <1>8, <1>9, <1>10, MoveEffect
       DEF BatchNext, FinalizerStep, Plan, Operate, Verify, Settle,
           ReadNext, MissPlan, Accept, Gate, Authorize, PublishBatch, VerifyPublication,
           SettleFinish, SettleEnds, Edit, Reindex, batchVars

\* What a planner that has read everything saw of the plan is the stored plan.
LEMMA PlanRead ==
  ASSUME BatchInv, ReadNext, reader'.at = 6
  PROVE  reader'.seen["plan"] = store[PlanKey]
  <1>1. PICK n \in 0..5 : n = reader.at
    BY ReadsFacts DEF ReadNext, BatchInv, Shapes
  <1>2. PICK file : file = Reads[n + 1]
    OBVIOUS
  <1>3. PICK read : read = [f \in {Reads[k] : k \in 1..(n + 1)} |->
                             IF f = file THEN Content(f) ELSE reader.seen[f]]
    OBVIOUS
  <1>4. reader' = IF file = "batch" /\ ~Verified(read.batch, read.master, read)
                  THEN Nobody ELSE [at |-> n + 1, seen |-> read]
    BY <1>1, <1>2, <1>3 DEF ReadNext
  <1>5. n = 5 /\ reader'.seen = read
    BY <1>1, <1>4 DEF Nobody
  <1>6. file = "plan" /\ read["plan"] = Content("plan")
    BY <1>2, <1>3, <1>5, ReadsFacts
  <1>7. QED
    BY <1>5, <1>6 DEF Content

\* The steps that only the failure budget allows count up.
LEMMA TroubleStep ==
  ASSUME BatchInv, [BatchNext]_batchVars
  PROVE  /\ trouble' = trouble \/ trouble' = trouble + 1
         /\ MissPlan \/ (\E m \in settlement.moves : MoveHalf(m)) => trouble' = trouble + 1
  BY FinalizerFrame
     DEF BatchNext, FinalizerStep, Plan, Operate, Verify, Settle, ReadNext, MissPlan, StorePlan, Accept, Gate, Authorize,
         PublishBatch, VerifyPublication, SettlePlan, MoveExact, MoveHalf, SettleFinish,
         SettleEnds, Edit, Reindex, batchVars, bounds, Trouble

\* Without a failure the plan stays until its settlement has filed it.
LEMMA PlanStaysStep ==
  ASSUME BatchInv, [BatchNext]_batchVars
  PROVE  PlanStays'
  <1> USE DEF private, operator, published, bounds, history
  <1>1. trouble \in Nat
    BY DEF BatchInv, Shapes
  <1>2. SUFFICES ASSUME trouble = 0, trouble' = 0
                 PROVE  PlanStays'
    BY <1>1, TroubleStep DEF PlanStays
  <1>3. /\ reader.at = 6 /\ reader.seen["plan"] = None => store[PlanKey] = None
        /\ settlement # AtRest /\ Archived(settlement.tx, PlanKey) = {} =>
             store[PlanKey] = settlement.tx
    BY <1>2 DEF BatchInv, PlanStays
  <1>4. ASSUME UNCHANGED <<reader, settlement, audit>>, store'[PlanKey] = store[PlanKey]
        PROVE  PlanStays'
    BY <1>3, <1>4 DEF PlanStays, Archived
  <1>5. CASE FinalizerStep
    <2>1. UNCHANGED <<reader, settlement, audit>> /\ store'[PlanKey] = store[PlanKey]
      BY <1>5, FinalizerFrame, FinalizerStore
    <2>2. QED
      BY <1>4, <2>1
  <1>6. CASE ReadNext
    <2>1. UNCHANGED <<settlement, private>>
      BY <1>6 DEF ReadNext
    <2>2. QED
      BY <1>3, <1>6, <2>1, PlanRead DEF PlanStays, Archived
  <1>7. CASE StorePlan
    <2>1. UNCHANGED <<settlement, audit>> /\ reader' = Nobody
      BY <1>7 DEF StorePlan
    <2>2. reader'.at # 6
      BY <2>1 DEF Nobody
    <2>3. CASE store'[PlanKey] = store[PlanKey]
      BY <1>3, <2>1, <2>2, <2>3 DEF PlanStays, Archived
    <2>4. CASE store'[PlanKey] # store[PlanKey]
      <3>1. store[PlanKey] = None
        BY <1>3, <1>7, <2>4, StorePlanBound
      <3>2. settlement # AtRest => settlement.tx # None
        BY VerifiedItems DEF BatchInv, Ledger
      <3>3. settlement # AtRest => Archived(settlement.tx, PlanKey) # {}
        BY <1>3, <3>1, <3>2
      <3>4. QED
        BY <2>1, <2>2, <3>3 DEF PlanStays, Archived
    <2>5. QED
      BY <2>3, <2>4
  <1>8. CASE \E r \in receipts : SettlePlan(r)
    <2>1. PICK r \in receipts : SettlePlan(r)
      BY <1>8
    <2>2. /\ settlement'.tx = r.tx /\ UNCHANGED <<private, reader>>
          /\ Movable(r.tx, PlanKey) /\ Expected(r.tx, PlanKey) = r.tx
      BY <2>1 DEF SettlePlan
    <2>3. Archived(r.tx, PlanKey) = {} => store[PlanKey] = r.tx
      BY <2>2 DEF Movable, Expected
    <2>4. QED
      BY <1>3, <2>2, <2>3 DEF PlanStays, Archived
  <1>9. CASE \E m \in settlement.moves : MoveExact(m) /\ Moved(m)
    <2>1. PICK m \in settlement.moves : MoveExact(m) /\ Moved(m)
      BY <1>9
    <2>2. /\ settlement'.tx = settlement.tx /\ audit' = Filed(m) /\ UNCHANGED reader
          /\ settlement # AtRest
      BY <2>1, MoveKeys DEF Moved, MoveExact
    <2>3. store'[PlanKey] = IF m.key = PlanKey THEN None ELSE store[PlanKey]
      BY <2>1, MovedStore, PlanIsKey
    <2>4. PICK tx : tx = settlement.tx
      OBVIOUS
    <2>5. Archived(tx, PlanKey)' = {} => m.key # PlanKey /\ Archived(tx, PlanKey) = {}
      <3>1. PICK f : f = [tx |-> tx, key |-> m.key, bytes |-> m.bytes]
        OBVIOUS
      <3>2. audit' = audit \cup {f} /\ f.tx = tx /\ f.key = m.key
        BY <2>2, <2>4, <3>1 DEF Filed
      <3>3. \A a \in audit' : Archived(tx, PlanKey)' = {} => ~(a.tx = tx /\ a.key = PlanKey)
        BY DEF Archived
      <3>4. (\A a \in audit : ~(a.tx = tx /\ a.key = PlanKey)) => Archived(tx, PlanKey) = {}
        BY DEF Archived
      <3>5. QED
        BY <3>2, <3>3, <3>4
    <2>6. Archived(settlement.tx, PlanKey)' = Archived(tx, PlanKey)'
      BY <2>2, <2>4
    <2>7. QED
      BY <1>3, <2>2, <2>3, <2>4, <2>5, <2>6 DEF PlanStays
  <1>10. CASE settlement' = AtRest /\ UNCHANGED <<private, reader>>
    BY <1>3, <1>10 DEF PlanStays
  <1>11. CASE UNCHANGED <<private, reader, settlement>>
    BY <1>4, <1>11
  <1>12. ~MissPlan /\ ~(\E m \in settlement.moves : MoveHalf(m))
    BY <1>2, TroubleStep
  <1>13. QED
    BY <1>5, <1>6, <1>7, <1>8, <1>9, <1>10, <1>11, <1>12, MoveEffect
       DEF BatchNext, FinalizerStep, Plan, Operate, Verify, Settle,
           Accept, Gate, Authorize, PublishBatch, VerifyPublication, MoveExact,
           SettleFinish, SettleEnds, Edit, Reindex, batchVars

-----------------------------------------------------------------------------
(* No single failure archives a candidate under two transactions.           *)

\* The part of OneTransaction about one candidate.
OnlyOnce(c) ==
  /\ \A tx1, tx2 \in ArchivedUnder(c) : tx1 = tx2
  /\ \A m \in settlement.moves :
       m.key = CandidateKey(c) => ArchivedUnder(c) \subseteq {settlement.tx}
  /\ \A tx \in ArchivedUnder(c) : store[CandidateKey(c)] # None =>
       /\ trouble = 1
       /\ store[PlanKey] = tx
       /\ reader.at = 6 => reader.seen["plan"] # None

\* What is archived for a candidate belongs to a transaction that has it.
LEMMA UnderItem ==
  ASSUME BatchInv, NEW c \in Candidate, NEW tx \in ArchivedUnder(c)
  PROVE  /\ tx \in verified /\ tx # None
         /\ \E i \in tx.items : i.c = c
  <1>1. PICK a \in audit : a.tx = tx /\ a.key = CandidateKey(c)
    BY DEF ArchivedUnder
  <1>2. tx \in verified /\ CandidateKey(c) \in KeysOf(tx) \cup {PlanKey}
    BY <1>1 DEF BatchInv, Ledger
  <1>3. tx # None /\ \A i \in tx.items : i.c \in Candidate
    BY <1>2, VerifiedItems
  <1>4. \E i \in tx.items : i.c = c
    BY <1>2, <1>3, KeyOfItem
  <1>5. QED
    BY <1>2, <1>3, <1>4

\* A transaction whose settlement starts is the only one that filed its candidates.
LEMMA SettlesItsOwn ==
  ASSUME BatchInv, NEW c \in Candidate, OnlyOnce(c), NEW r \in receipts, SettlePlan(r),
         CandidateKey(c) \in KeysOf(r.tx)
  PROVE  ArchivedUnder(c) \subseteq {r.tx}
  <1>1. /\ Movable(r.tx, CandidateKey(c)) /\ Expected(r.tx, PlanKey) = r.tx
    BY DEF SettlePlan
  <1>2. CASE store[CandidateKey(c)] = None
    <2>1. PICK a \in audit : a.tx = r.tx /\ a.key = CandidateKey(c)
      BY <1>1, <1>2 DEF Movable, Archived
    <2>2. r.tx \in ArchivedUnder(c)
      BY <2>1 DEF BatchInv, Pages, ArchivedUnder
    <2>3. QED
      BY <2>2 DEF OnlyOnce
  <1>3. CASE store[CandidateKey(c)] # None
    <2>1. SUFFICES ASSUME NEW tx \in ArchivedUnder(c) PROVE tx = r.tx
      OBVIOUS
    <2>2. store[PlanKey] = tx /\ tx # None
      BY <1>3, UnderItem DEF OnlyOnce
    <2>3. QED
      BY <1>1, <2>2 DEF Expected
  <1>4. QED
    BY <1>2, <1>3

\* A settlement that starts is of the transaction that filed the candidate, if any did.
LEMMA OnlyOnceSettle ==
  ASSUME BatchInv, NEW c \in Candidate, OnlyOnce(c), NEW r \in receipts, SettlePlan(r)
  PROVE  OnlyOnce(c)'
  <1>1. /\ settlement'.tx = r.tx /\ settlement'.moves = MovesOf(r.tx) /\ r.tx \in verified
        /\ UNCHANGED <<store, audit, reader, trouble>>
    BY DEF SettlePlan, private, bounds
  <1>2. ASSUME NEW m \in MovesOf(r.tx), m.key = CandidateKey(c)
        PROVE  ArchivedUnder(c) \subseteq {r.tx}
    <2>1. CandidateKey(c) \in KeysOf(r.tx)
      BY <1>2, MovesKeys, Keys
    <2>2. QED
      BY <2>1, SettlesItsOwn
  <1>3. ArchivedUnder(c)' = ArchivedUnder(c)
    BY <1>1 DEF ArchivedUnder
  <1>4. QED
    BY <1>1, <1>2, <1>3 DEF OnlyOnce

\* A whole move files the candidate under the transaction that is settled.
LEMMA OnlyOnceMoved ==
  ASSUME BatchInv, NEW c \in Candidate, OnlyOnce(c), NEW m \in settlement.moves,
         Moved(m), UNCHANGED <<reader, trouble>>
  PROVE  OnlyOnce(c)'
  <1>1. /\ settlement'.tx = settlement.tx /\ settlement'.moves = settlement.moves \ {m}
        /\ audit' = Filed(m) /\ MoveAllowed(m) /\ Due(m)
    BY DEF Moved
  <1>2. CandidateKey(c) \in Key /\ CandidateKey(c) # PlanKey /\ PlanKey \in Key
    BY Keys
  <1>3. CASE m.key = CandidateKey(c)
    <2>1. ArchivedUnder(c)' \subseteq {settlement.tx}
      BY <1>1, <1>3, FiledUnder DEF OnlyOnce
    <2>2. store'[CandidateKey(c)] = None
      BY <1>2, <1>3, MovedStore
    <2>3. QED
      BY <1>1, <2>1, <2>2 DEF OnlyOnce
  <1>4. CASE m.key # CandidateKey(c)
    <2>1. ArchivedUnder(c)' = ArchivedUnder(c)
      BY <1>1, <1>4, FiledUnder
    <2>2. store'[CandidateKey(c)] = store[CandidateKey(c)]
      BY <1>2, <1>4, MovedStore
    <2>3. ASSUME NEW tx \in ArchivedUnder(c), store[CandidateKey(c)] # None
          PROVE  store'[PlanKey] = store[PlanKey]
      <3>1. CASE m.key # PlanKey
        BY <1>2, <3>1, MovedStore
      <3>2. CASE m.key = PlanKey
        <4>1. store[PlanKey] = tx /\ tx # None
          BY <2>3, UnderItem DEF OnlyOnce
        <4>2. m.bytes = settlement.tx /\ m.bytes = tx
          BY <1>1, <3>2, <4>1 DEF MoveAllowed, BatchInv, PlanLast
        <4>3. PICK i \in tx.items : i.c = c
          BY UnderItem
        <4>4. store[CandidateKey(c)] = None
          BY <1>1, <3>2, <4>2, <4>3, PlanDue
        <4>5. QED
          BY <2>3, <4>4
      <3>3. QED
        BY <3>1, <3>2
    <2>4. QED
      BY <1>1, <2>1, <2>2, <2>3 DEF OnlyOnce
  <1>5. QED
    BY <1>3, <1>4

\* A half-done move files the candidate and leaves it, and the plan, where they were.
LEMMA OnlyOnceHalf ==
  ASSUME BatchInv, NEW c \in Candidate, OnlyOnce(c), NEW m \in settlement.moves,
         MoveHalf(m), trouble = 0
  PROVE  OnlyOnce(c)'
  <1>1. /\ settlement' = AtRest /\ audit' = Filed(m) /\ MoveAllowed(m)
        /\ store[m.key] # None /\ trouble' = 1 /\ UNCHANGED <<store, reader>>
    BY DEF MoveHalf, Trouble
  <1>2. settlement'.moves = {}
    BY <1>1 DEF AtRest
  <1>3. \A tx \in ArchivedUnder(c) : store[CandidateKey(c)] = None
    BY DEF OnlyOnce
  <1>4. CASE m.key # CandidateKey(c)
    <2>1. ArchivedUnder(c)' = ArchivedUnder(c)
      BY <1>1, <1>4, FiledUnder
    <2>2. QED
      BY <1>1, <1>2, <1>3, <2>1 DEF OnlyOnce
  <1>5. CASE m.key = CandidateKey(c)
    <2>1. ArchivedUnder(c)' \subseteq {settlement.tx}
      BY <1>1, <1>5, FiledUnder DEF OnlyOnce
    <2>2. settlement # AtRest /\ settlement.tx \in verified
          /\ CandidateKey(c) \in KeysOf(settlement.tx) \cup {PlanKey}
      BY <1>5, MoveKeys
    <2>3. settlement.tx # None /\ \E i \in settlement.tx.items : i.c = c
      BY <2>2, VerifiedItems, KeyOfItem
    <2>4. Archived(settlement.tx, PlanKey) = {}
      <3>1. SUFFICES ASSUME NEW a \in audit, a.tx = settlement.tx, a.key = PlanKey
                     PROVE  FALSE
        BY DEF Archived
      <3>2. store[CandidateKey(c)] = None
        BY <2>3, <3>1 DEF BatchInv, PlanLast
      <3>3. QED
        BY <1>1, <1>5, <3>2
    <2>5. store[PlanKey] = settlement.tx
      BY <2>2, <2>4 DEF BatchInv, PlanStays
    <2>6. reader.at = 6 => reader.seen["plan"] # None
      BY <2>3, <2>5 DEF BatchInv, PlanStays
    <2>7. QED
      BY <1>1, <1>2, <2>1, <2>5, <2>6 DEF OnlyOnce
  <1>6. QED
    BY <1>4, <1>5

\* Steps that leave the archive, the settlement and the candidates alone.
LEMMA OnlyOnceKept ==
  ASSUME BatchInv, NEW c \in Candidate, OnlyOnce(c), UNCHANGED audit,
         settlement' = settlement \/ settlement' = AtRest,
         store'[CandidateKey(c)] = store[CandidateKey(c)],
         \A tx \in ArchivedUnder(c) : store[CandidateKey(c)] # None =>
           /\ trouble' = 1
           /\ store'[PlanKey] = store[PlanKey]
           /\ reader'.at = 6 => reader'.seen["plan"] # None
  PROVE  OnlyOnce(c)'
  <1>1. ArchivedUnder(c)' = ArchivedUnder(c)
    BY DEF ArchivedUnder
  <1>2. settlement' = settlement \/ settlement'.moves = {}
    BY DEF AtRest
  <1>3. QED
    BY <1>1, <1>2 DEF OnlyOnce

\* Up to one failure no second transaction takes a filed candidate.
LEMMA OneTransactionStep ==
  ASSUME BatchInv, [BatchNext]_batchVars
  PROVE  OneTransaction'
  <1> USE DEF private, operator, published, bounds, history
  <1>1. trouble \in Nat
    BY DEF BatchInv, Shapes
  <1>2. SUFFICES ASSUME trouble <= 1, trouble' <= 1, NEW c \in Candidate
                 PROVE  OnlyOnce(c)'
    BY <1>1, TroubleStep DEF OneTransaction, OnlyOnce
  <1>3. OnlyOnce(c)
    BY <1>2 DEF BatchInv, OneTransaction, OnlyOnce
  <1>4. \A tx \in ArchivedUnder(c) : store[CandidateKey(c)] # None =>
          trouble = 1 /\ trouble' = 1 /\ store[PlanKey] = tx /\ tx # None
          /\ (reader.at = 6 => reader.seen["plan"] # None)
    BY <1>1, <1>2, <1>3, TroubleStep, UnderItem DEF OnlyOnce
  <1>5. CASE FinalizerStep
    <2>1. UNCHANGED <<reader, settlement, audit>> /\ store'[PlanKey] = store[PlanKey]
          /\ store'[CandidateKey(c)] = store[CandidateKey(c)]
      BY <1>5, FinalizerFrame, FinalizerStore
    <2>2. QED
      BY <1>3, <1>4, <2>1, OnlyOnceKept
  <1>6. CASE ReadNext
    <2>1. UNCHANGED <<settlement, private>>
      BY <1>6 DEF ReadNext
    <2>2. QED
      BY <1>3, <1>4, <1>6, <2>1, PlanRead, OnlyOnceKept
  <1>7. CASE StorePlan
    <2>1. UNCHANGED <<settlement, audit>> /\ reader' = Nobody
          /\ store'[CandidateKey(c)] = store[CandidateKey(c)]
      BY <1>7, StorePlanCandidates DEF StorePlan
    <2>2. reader'.at # 6
      BY <2>1 DEF Nobody
    <2>3. \A tx \in ArchivedUnder(c) : store[CandidateKey(c)] # None =>
            store'[PlanKey] = store[PlanKey]
      BY <1>4, <1>7, StorePlanBound
    <2>4. QED
      BY <1>3, <1>4, <2>1, <2>2, <2>3, OnlyOnceKept
  <1>8. CASE \E r \in receipts : SettlePlan(r)
    BY <1>3, <1>8, OnlyOnceSettle
  <1>9. CASE \E m \in settlement.moves : MoveExact(m) /\ Moved(m)
    BY <1>3, <1>9, OnlyOnceMoved DEF MoveExact
  <1>10. CASE \E m \in settlement.moves : MoveHalf(m)
    <2>1. trouble = 0
      BY <1>1, <1>2, <1>10, TroubleStep
    <2>2. QED
      BY <1>3, <1>10, <2>1, OnlyOnceHalf
  <1>11. CASE MissPlan
    <2>1. trouble = 0 /\ UNCHANGED <<settlement, private>>
      BY <1>1, <1>2, <1>11, TroubleStep DEF MissPlan
    <2>2. QED
      BY <1>3, <1>4, <2>1, OnlyOnceKept
  <1>12. CASE UNCHANGED <<private, reader>> /\ (settlement' = settlement \/ settlement' = AtRest)
    BY <1>3, <1>4, <1>12, OnlyOnceKept
  <1>13. QED
    BY <1>5, <1>6, <1>7, <1>8, <1>9, <1>10, <1>11, <1>12, MoveEffect
       DEF BatchNext, FinalizerStep, Plan, Operate, Verify, Settle,
           Accept, Gate, Authorize, PublishBatch, VerifyPublication, MoveExact,
           SettleFinish, SettleEnds, Edit, Reindex, batchVars

-----------------------------------------------------------------------------
\* Initially nothing is sealed, stored or filed.
LEMMA BatchInitInv == BatchInit => BatchInv
  <1> SUFFICES ASSUME BatchInit PROVE BatchInv
    OBVIOUS
  <1>1. Shapes
    BY DEF BatchInit, Shapes, RunShape, Idle, Nobody, AtRest
  <1>2. Rendering /\ OwnFiles /\ ReadyAccepted /\ Ledger
    BY DEF BatchInit, Rendering, FromNothing, FromBase, OwnFiles, Active, ReadyAccepted,
           Ledger, Idle
  <1>3. \A c \in Candidate : store[CandidateKey(c)] = Page(c)
    <2>1. ASSUME NEW c \in Candidate
          PROVE  store[CandidateKey(c)] = Page(c)
      <3>1. CandidateKey(c) \in Key /\ CandidateKey(c)[1] = "candidate" /\ CandidateKey(c)[2] = c
        BY Keys DEF CandidateKey
      <3>2. QED
        BY <3>1 DEF BatchInit
    <2>2. QED
      BY <2>1
  <1>4. store[PlanKey] = None
    BY PlanIsKey DEF BatchInit, PlanKey
  <1>5. audit = {} /\ settlement = AtRest /\ settlement.moves = {} /\ reader.at = 0
        /\ control.batch = None
    BY DEF BatchInit, AtRest, Nobody
  <1>6. \A c \in Candidate : ArchivedUnder(c) = {}
    BY <1>5 DEF ArchivedUnder
  <1>7. Pages
    BY <1>3, <1>5, RecordIsNotNone DEF Pages
  <1>8. SealsRead /\ NoMixedRuns
    BY <1>4, <1>5 DEF SealsRead, NoMixedRuns
  <1>9. PlanLast /\ PlanStays
    BY <1>5 DEF PlanLast, PlanStays
  <1>10. OneTransaction
    BY <1>5, <1>6 DEF OneTransaction
  <1>11. QED
    BY <1>1, <1>2, <1>7, <1>8, <1>9, <1>10 DEF BatchInv

\* The inductive invariant of the batch.
THEOREM BatchInductive == BatchSpec => []BatchInv
  <1>1. BatchInv /\ [BatchNext]_batchVars => BatchInv'
    BY ShapesStep, RenderingStep, OwnFilesStep, SealsReadStep, NoMixedRunsStep, ReadyAcceptedStep, LedgerStep,
       PagesStep, PlanLastStep, PlanStaysStep, OneTransactionStep DEF BatchInv
  <1>2. QED
    BY BatchInitInv, <1>1, PTL DEF BatchSpec

\* A stored plan is made of what one finalizer run wrote, all of it, unless the run
\* that sealed it was overlapped by another: neither a run that died half way nor a
\* planner that reads while the files are rewritten mixes two.
THEOREM PlansAreOfOneRun == BatchSpec => []NoMixedRuns
  <1>1. BatchInv => NoMixedRuns
    BY DEF BatchInv
  <1>2. QED
    BY BatchInductive, <1>1, PTL

\* With one finalizer no two runs overlap.
NoOverlap == overlapped = {} /\ shared = {}

\* Where there is one finalizer, every plan is of one run.  With two it is not true.
THEOREM OneFinalizerNeverMixes ==
  ASSUME \A f, g \in Finalizer : f = g
  PROVE  BatchSpec => []OverlapRejected
  <1>1. BatchInit => NoOverlap
    BY DEF BatchInit, NoOverlap
  <1>2. NoOverlap /\ [BatchNext]_batchVars => NoOverlap'
    <2> SUFFICES ASSUME NoOverlap, [BatchNext]_batchVars PROVE NoOverlap'
      OBVIOUS
    <2>1. CASE FinalizerStep
      <3>1. PICK f \in Finalizer : FinalizeStart(f) \/ Finalization(f) \/ FinalizeEnds(f)
        BY <2>1 DEF FinalizerStep
      <3>2. CASE FinalizeStart(f)
        <4>1. Active = {}
          BY <3>2 DEF FinalizeStart, Active
        <4>2. QED
          BY <3>2, <4>1 DEF FinalizeStart, NoOverlap
      <3>3. CASE ~FinalizeStart(f)
        BY <3>1, <3>3
           DEF Finalization, Prepare, Take, Hold, PrepareNew, PrepareUpdate, WriteManifest,
               WriteUpdates, WriteValidation, Seal, Overtaken, Collide, FinalizeEnds, history,
               NoOverlap
      <3>4. QED
        BY <3>2, <3>3
    <2>2. CASE UNCHANGED history
      BY <2>2 DEF history, NoOverlap
    <2>3. QED
      BY <2>1, <2>2, FinalizersAlone
  <1>3. NoMixedRuns /\ NoOverlap => OverlapRejected
    BY DEF NoMixedRuns, NoOverlap, OverlapRejected
  <1>4. QED
    BY <1>1, <1>2, <1>3, PlansAreOfOneRun, PTL DEF BatchSpec

\* A candidate waits or is archived under a verified transaction that has it,
\* under one only if at most one thing has failed, and settled means archived.
THEOREM CandidatesAreKept == BatchSpec => []CandidateKept
  <1>1. BatchInv => CandidateKept
    <2> SUFFICES ASSUME BatchInv PROVE CandidateKept
      OBVIOUS
    <2>1. ASSUME NEW c \in Candidate
          PROVE  /\ store[CandidateKey(c)] = Page(c) \/ ArchivedUnder(c) # {}
                 /\ \A tx \in ArchivedUnder(c) : tx \in verified /\ \E i \in tx.items : i.c = c
      BY UnderItem DEF BatchInv, Pages
    <2>2. ASSUME NEW c \in Candidate, trouble <= 1
          PROVE  Cardinality(ArchivedUnder(c)) <= 1
      <3>1. \A tx1, tx2 \in ArchivedUnder(c) : tx1 = tx2
        BY <2>2 DEF BatchInv, OneTransaction
      <3>2. CASE ArchivedUnder(c) = {}
        BY <3>2, FS_EmptySet
      <3>3. CASE ArchivedUnder(c) # {}
        <4>1. PICK tx : ArchivedUnder(c) = {tx}
          BY <3>1, <3>3
        <4>2. Cardinality(ArchivedUnder(c)) = 1
          BY <4>1, FS_Singleton
        <4>3. QED
          BY <4>2
      <3>4. QED
        BY <3>2, <3>3
    <2>3. \A tx \in settled : \A k \in KeysOf(tx) \cup {PlanKey} : Archived(tx, k) # {}
      BY DEF BatchInv, Ledger
    <2>4. QED
      BY <2>1, <2>2, <2>3 DEF CandidateKept
  <1>2. QED
    BY BatchInductive, <1>1, PTL

\* A publication writes what the operator accepted, and every record it changes
\* was rendered from the bytes it replaces.
THEOREM PublishedIsAccepted == BatchSpec => PublishedAsAccepted
  <1>1. BatchInv /\ [BatchNext]_batchVars =>
          [\A r \in receipts' \ receipts :
             /\ [batch |-> r.tx.batch, items |-> r.tx.items] \in accepted
             /\ \A t \in Target : library'[t] # library[t] => library'[t].base = library[t]]_batchVars
    <2> SUFFICES ASSUME BatchInv, [BatchNext]_batchVars, NEW r \in receipts' \ receipts
                 PROVE  /\ [batch |-> r.tx.batch, items |-> r.tx.items] \in accepted
                        /\ \A t \in Target : library'[t] # library[t] => library'[t].base = library[t]
      OBVIOUS
    <2>1. PublishBatch
      BY FinalizerFrame
         DEF BatchNext, FinalizerStep, Plan, Operate, Verify, Settle, ReadNext, MissPlan, StorePlan, Accept, Gate,
             Authorize, VerifyPublication, SettlePlan, MoveExact, MoveHalf, SettleFinish,
             SettleEnds, Edit, Reindex, batchVars, operator, published
    <2>2. /\ r.tx = ready /\ ready # None /\ store[PlanKey] = ready /\ PlanIsLive
      BY <2>1 DEF PublishBatch, Authorized
    <2>3. [batch |-> r.tx.batch, items |-> r.tx.items] \in accepted
      BY <2>2 DEF BatchInv, ReadyAccepted
    <2>4. /\ ready.items = ItemsOf(control)
          /\ \A i \in ItemsOf(control) : Live(i) /\ i.c \in Candidate
      BY <2>2, LivePlan
    <2>5. ASSUME NEW t \in Target, library'[t] # library[t]
          PROVE  library'[t].base = library[t]
      <3>1. PICK i \in ItemsOf(control) : Record[i.c] = t /\ library'[t] = i.bytes
        BY <2>1, <2>2, <2>4, <2>5 DEF PublishBatch
      <3>2. Live(i)
        BY <2>4
      <3>3. CASE i \in NewItems(control)
        <4>1. i.action = "UNCHANGED" \/ (i.bytes.base = None /\ i.action \in {"CREATE", "UNCHANGED"})
          BY <3>3 DEF NewItems, BatchInv, Rendering, FromNothing
        <4>2. QED
          BY <2>5, <3>1, <3>2, <4>1 DEF Live, Exists
      <3>4. CASE i \in UpdateItems(control)
        <4>1. i.action = "UPDATE" /\ (i.bytes = i.base \/ i.bytes.base = i.base)
          BY <3>4 DEF UpdateItems, BatchInv, Rendering, FromBase
        <4>2. QED
          BY <2>5, <3>1, <3>2, <4>1 DEF Live
      <3>5. QED
        BY <3>3, <3>4 DEF ItemsOf
    <2>6. QED
      BY <2>3, <2>5
  <1>2. QED
    BY BatchInductive, <1>1, PTL DEF BatchSpec, PublishedAsAccepted
=============================================================================
