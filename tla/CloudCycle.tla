------------------------------ MODULE CloudCycle ------------------------------
(***************************************************************************)
(* e123_cloud_cycle.py with the E1, E2 and E3 programs it drives: a daily   *)
(* cycle settles what the last one left, reads new files of DROP_HERE (E1), *)
(* builds a lot of their evidence, has it decided (E2), and publishes the    *)
(* decided lot under the private Drive lease (E3).                          *)
(*                                                                          *)
(* One cycle runs at a time (the workflow's concurrency group), so that its  *)
(* mirror is the Drive itself.  A remote write whose outcome is uncertain    *)
(* ends the cycle, as a kill does: it is Stop before or after the step.      *)
(* Covered: death of a cycle anywhere, decoders that crash or run out of     *)
(* time, a model whose answers E3 does not accept.  Not covered: other       *)
(* writers of the library, files of DROP_HERE that are edited or removed.    *)
(***************************************************************************)
EXTENDS Naturals, FiniteSets

CONSTANTS
  NSources,      \* files dropped, numbered by modification time
  Broken,        \* files on which the decoder always raises
  Erratic,       \* files that are read or given up depending on the time left
  Window,        \* MAX_SOURCES: files taken up by one cycle
  MaxItems,      \* MAX_ITEMS: items of one lot
  ReceiptLimit,  \* receipts that rebuild accepts, 200 in the code
  Reply,         \* what the model may answer for one item
  NFiles,        \* canonical files a transaction writes, the master index last
  NoTx,          \* the lease is free
  MaxStops       \* bound on cycles that die

ASSUME CloudCycleAssumption ==
  /\ NSources \in Nat \ {0} /\ NFiles \in Nat \ {0}
  /\ Window \in Nat \ {0} /\ MaxItems \in Nat \ {0}
  /\ ReceiptLimit \in Nat /\ MaxStops \in Nat
  /\ Broken \subseteq 1..NSources /\ Erratic \subseteq 1..NSources
  /\ Reply \subseteq {"write", "nowrite", "unfit", "broken"}

Source == 1..NSources
Lot == 1..NSources
File == 1..NFiles
Tx == [lot : Lot, master : 0..NSources]
ASSUME NoTxAssumption == NoTx \notin Tx

VARIABLES
  dropped,    \* files 1..dropped are in DROP_HERE
  evidence,   \* evidence summary and envelope of each file, if stored
  received,   \* files with an extraction receipt
  lots,       \* number of lots built
  items,      \* files in each lot
  decision,   \* decisoes.json of each lot
  settled,    \* lots with their terminal receipt recibo.json
  snapshots,  \* transactions whose before-images are stored
  journal,    \* state of each transaction's recovery journal
  proven,     \* transactions whose verified receipt.json is stored
  canon,      \* the lot that wrote each canonical file last, 0 at first
  holder,     \* the transaction that holds the Drive lease, or NoTx
  started,    \* canonical_write_performed of the lease
  pc,         \* where the running cycle is, or "idle"
  queue,      \* selected files that are still to be read
  at,         \* canonical files written by the running transaction
  stops       \* cycles that died

inbox == <<dropped, evidence, received>>
ledger == <<lots, items, decision>>
library == <<snapshots, journal, proven, canon>>
lease == <<holder, started>>
vars == <<inbox, ledger, settled, library, lease, pc, queue, at, stops>>

JournalState == {"none", "PREPARED", "WRITING_RECORDS", "VERIFYING", "COMMITTED"}

Init ==
  /\ dropped = 0
  /\ evidence = [s \in Source |-> "none"]
  /\ received = {}
  /\ lots = 0
  /\ items = [l \in Lot |-> {}]
  /\ decision = [l \in Lot |-> "none"]
  /\ settled = {}
  /\ snapshots = {}
  /\ journal = [t \in Tx |-> "none"]
  /\ proven = {}
  /\ canon = [f \in File |-> 0]
  /\ holder = NoTx
  /\ started = FALSE
  /\ pc = "idle"
  /\ queue = {}
  /\ at = 0
  /\ stops = 0

Goto(from, to) == pc = from /\ pc' = to
Drive == <<inbox, ledger, settled, library, lease>>

-----------------------------------------------------------------------------
(* Recovery first.                                                          *)

StartCycle ==
  /\ Goto("idle", "recover")
  /\ UNCHANGED <<Drive, queue, at, stops>>

NothingHeld ==
  /\ Goto("recover", "select")
  /\ holder = NoTx
  /\ UNCHANGED <<Drive, queue, at, stops>>

\* Mutant of ReleasePrewrite: the write boundary is not looked at.
ReleaseAny ==
  /\ Goto("recover", "select")
  /\ holder # NoTx
  /\ holder' = NoTx
  /\ started' = FALSE
  /\ UNCHANGED <<inbox, ledger, settled, library, queue, at, stops>>

\* No canonical byte was written: the lease is released once.
ReleasePrewrite ==
  /\ Goto("recover", "select")
  /\ holder # NoTx /\ ~started
  /\ holder' = NoTx
  /\ UNCHANGED <<inbox, ledger, settled, library, started, queue, at, stops>>

\* Started and not committed: the cycle stops and leaves everything as it is.
RecoveryRequired ==
  /\ Goto("recover", "idle")
  /\ holder # NoTx /\ started
  /\ journal[holder] # "COMMITTED"
  /\ UNCHANGED <<Drive, queue, at, stops>>

\* terminal_sidecar and release_committed_once are shared by a first commit
\* and by the cycle that finds a committed one.
\* What build_terminal_receipt demands: the committed journal, its receipt and
\* every canonical file as the commit left it.
Settleable(t) ==
  /\ journal[t] = "COMMITTED" /\ t \in proven
  /\ \A f \in File : canon[f] = t.lot

Sidecar(from, to) ==
  /\ Goto(from, to)
  /\ holder # NoTx /\ started
  /\ Settleable(holder)
  /\ settled' = settled \cup {holder.lot}
  /\ UNCHANGED <<inbox, ledger, library, lease, queue, at, stops>>

ReleaseCommitted(from, to) ==
  /\ Goto(from, to)
  /\ holder # NoTx /\ started
  /\ journal[holder] = "COMMITTED" /\ holder \in proven
  /\ holder' = NoTx
  /\ started' = FALSE
  /\ UNCHANGED <<inbox, ledger, settled, library, queue, at, stops>>

\* Mutant of ResumeSettle: a committed lease is released without its receipt.
ResumeWithoutSidecar ==
  /\ Goto("recover", "resumed")
  /\ holder # NoTx /\ started /\ journal[holder] = "COMMITTED"
  /\ UNCHANGED <<Drive, queue, at, stops>>

ResumeSettle == Sidecar("recover", "resumed")
ResumeRelease == ReleaseCommitted("resumed", "select")

-----------------------------------------------------------------------------
(* E1: read new files, build one lot.                                       *)

Fresh == (1..dropped) \ received

\* The oldest files without a receipt, at most Window of them.
Select ==
  /\ Goto("select", "extract")
  /\ queue' = {s \in Fresh : Cardinality({r \in Fresh : r < s}) < Window}
  /\ UNCHANGED <<Drive, at, stops>>

OverLimit == Cardinality(received) > ReceiptLimit

Next1(s) == s \in queue /\ \A r \in queue : s <= r

\* The decoder of the file returns within its time.
Decodes(s) == s \notin Broken

Outcome(s) == IF s \in Erratic THEN {"eligible", "held"} ELSE {"eligible"}

\* Evidence and envelope are immutable: what an earlier attempt stored stays.
Extract(s) ==
  /\ Goto("extract", "receive")
  /\ Next1(s)
  /\ Decodes(s) /\ ~OverLimit
  /\ \E v \in Outcome(s) :
       /\ evidence[s] \in {"none", v}
       /\ evidence' = [evidence EXCEPT ![s] = v]
  /\ UNCHANGED <<dropped, received, ledger, settled, library, lease, queue, at, stops>>

\* Mutant of ExtractFails: the failure of one file ends the cycle.
ExtractFailsCycle(s) ==
  /\ Goto("extract", "idle")
  /\ Next1(s)
  /\ \/ ~Decodes(s) \/ OverLimit
     \/ \E v \in Outcome(s) : evidence[s] \notin {"none", v}
  /\ UNCHANGED <<Drive, queue, at, stops>>

\* One file that cannot be read is left for the next cycle.
ExtractFails(s) ==
  /\ Goto("extract", "extract")
  /\ Next1(s)
  /\ \/ ~Decodes(s) \/ OverLimit
     \/ \E v \in Outcome(s) : evidence[s] \notin {"none", v}
  /\ queue' = queue \ {s}
  /\ UNCHANGED <<Drive, at, stops>>

Receive(s) ==
  /\ Goto("receive", "extract")
  /\ Next1(s)
  /\ received' = received \cup {s}
  /\ queue' = queue \ {s}
  /\ UNCHANGED <<dropped, evidence, ledger, settled, library, lease, at, stops>>

\* What verify_settlement demands of a lot that has a terminal receipt.
Terminal(l) ==
  /\ decision[l] # "none"
  /\ decision[l] = "write" =>
       \E t \in proven : t.lot = l /\ journal[t] = "COMMITTED"

\* rebuild and past_state find what prepare needs.
Preparable == ~OverLimit /\ \A l \in settled : Terminal(l)

\* The evidence index cannot be rebuilt any more: the cycle ends here.
PrepareFails ==
  /\ Goto("extract", "idle")
  /\ queue = {} /\ ~Preparable
  /\ UNCHANGED <<Drive, queue, at, stops>>

Built == 1..lots

\* Mutant of Pending: a lot is pending only until it is decided.
PendingUndecided == {l \in Built : l \notin settled /\ decision[l] = "none"}

Pending == {l \in Built : l \notin settled}
Listed == UNION {items[l] : l \in Built}
Selectable == {s \in received : evidence[s] = "eligible"} \ Listed
NoLot ==
  /\ Goto("extract", "decide")
  /\ queue = {} /\ Preparable
  /\ Pending # {} \/ Selectable = {}
  /\ UNCHANGED <<Drive, queue, at, stops>>

\* Items come in the order of a hash, which is any order.
BuildLot ==
  /\ Goto("extract", "decide")
  /\ queue = {} /\ Preparable
  /\ Pending = {} /\ lots < NSources
  /\ \E chosen \in SUBSET Selectable :
       /\ chosen # {} /\ Cardinality(chosen) <= MaxItems
       /\ chosen = Selectable \/ Cardinality(chosen) = MaxItems
       /\ items' = [items EXCEPT ![lots + 1] = chosen]
  /\ lots' = lots + 1
  /\ UNCHANGED <<inbox, decision, settled, library, lease, queue, at, stops>>

-----------------------------------------------------------------------------
(* E2: one lot without decisions is decided, with one file for all items.   *)

Undecided == {l \in Built : decision[l] = "none"}

\* validate_decision: a reply keeps the contract and quotes its evidence.
Valid(reply) == reply # "broken"

\* Mutant of Checked: an invalid reply goes into the decision file as it is.
Unchecked(reply) == reply

\* An invalid reply becomes HOLD for its item and does not block the lot.
Checked(reply) == IF Valid(reply) THEN reply ELSE "nowrite"

\* The decision file of a lot: one action for each item.  An action that
\* does not keep the contract is refused and no file is written.
Decided(actions) ==
  IF "broken" \in actions THEN "none"
  ELSE IF "unfit" \in actions THEN "unfit"
  ELSE IF "write" \in actions THEN "write"
  ELSE "nowrite"

\* A model that cannot be reached ends the cycle, as Stop does here.
Decide ==
  /\ pc = "decide"
  /\ \E l \in Undecided :
       /\ \A k \in Undecided : l <= k
       /\ \E reply \in [items[l] -> Reply] :
            decision' = [decision EXCEPT
              ![l] = Decided({Checked(reply[s]) : s \in items[l]})]
       /\ pc' = IF decision'[l] = "none" THEN "idle" ELSE "settle"
  /\ UNCHANGED <<inbox, lots, items, settled, library, lease, queue, at, stops>>

NothingToDecide ==
  /\ Goto("decide", "settle")
  /\ Undecided = {}
  /\ UNCHANGED <<Drive, queue, at, stops>>

-----------------------------------------------------------------------------
(* E3: every decided lot without a terminal receipt is settled.             *)

Open == {l \in Built : decision[l] # "none" /\ l \notin settled}
First(l) == l \in Open /\ \A k \in Open : l <= k
TxOf(l) == [lot |-> l, master |-> canon[NFiles]]

Finish ==
  /\ Goto("settle", "idle")
  /\ Open = {}
  /\ UNCHANGED <<Drive, queue, at, stops>>

SettleUnwritten(l) ==
  /\ Goto("settle", "settle")
  /\ First(l) /\ decision[l] = "nowrite"
  /\ settled' = settled \cup {l}
  /\ UNCHANGED <<inbox, ledger, library, lease, queue, at, stops>>

\* compile_transaction refuses what validate_decision has accepted: a type,
\* a header or a name that the library does not take.
PreflightRefused(l) ==
  /\ Goto("settle", "idle")
  /\ First(l) /\ decision[l] = "unfit"
  /\ UNCHANGED <<Drive, queue, at, stops>>

Acquire(l) ==
  /\ Goto("settle", "prepare")
  /\ First(l) /\ decision[l] = "write"
  /\ holder = NoTx
  /\ holder' = TxOf(l)
  /\ started' = FALSE
  /\ UNCHANGED <<inbox, ledger, settled, library, queue, at, stops>>

\* The transaction has a journal or a snapshot of an earlier cycle.
PrepareRefused ==
  /\ Goto("prepare", "idle")
  /\ journal[holder] # "none" \/ holder \in snapshots
  /\ UNCHANGED <<Drive, queue, at, stops>>

StoreSnapshots ==
  /\ Goto("prepare", "snapshots")
  /\ journal[holder] = "none" /\ holder \notin snapshots
  /\ snapshots' = snapshots \cup {holder}
  /\ UNCHANGED <<inbox, ledger, settled, journal, proven, canon, lease, queue, at, stops>>

Journal(state) ==
  /\ journal' = [journal EXCEPT ![holder] = state]
  /\ UNCHANGED <<inbox, ledger, settled, snapshots, proven, canon, lease, queue, stops>>

StoreJournal == Goto("snapshots", "prepared") /\ Journal("PREPARED") /\ UNCHANGED at

MarkStarted ==
  /\ Goto("prepared", "started")
  /\ holder # NoTx /\ ~started
  /\ started' = TRUE
  /\ UNCHANGED <<inbox, ledger, settled, library, holder, queue, at, stops>>

StartWriting ==
  Goto("started", "writing") /\ Journal("WRITING_RECORDS") /\ at' = 0

WriteCanonical ==
  /\ Goto("writing", "writing")
  /\ at < NFiles
  /\ at' = at + 1
  /\ canon' = [canon EXCEPT ![at + 1] = holder.lot]
  /\ UNCHANGED <<inbox, ledger, settled, snapshots, journal, proven, lease, queue, stops>>

\* Every target and index is read back as it was staged.
Written(t) == \A f \in File : canon[f] = t.lot

Verify ==
  /\ Goto("writing", "verified")
  /\ at = NFiles /\ Written(holder)
  /\ Journal("VERIFYING")
  /\ UNCHANGED at

\* build_receipt compares the master index of the snapshot with the live one.
Provable(t) == t \in snapshots /\ Written(t)

StoreReceipt ==
  /\ Goto("verified", "proven")
  /\ Provable(holder)
  /\ proven' = proven \cup {holder}
  /\ UNCHANGED <<inbox, ledger, settled, snapshots, journal, canon, lease, queue, at, stops>>

Commit ==
  /\ Goto("proven", "committed")
  /\ journal[holder] = "VERIFYING" /\ holder \in proven
  /\ Journal("COMMITTED")
  /\ UNCHANGED at

SettleWritten == Sidecar("committed", "sidecar")
ReleaseWritten == ReleaseCommitted("sidecar", "settle")

-----------------------------------------------------------------------------
(* The owner drops a file; a cycle dies or stops on an uncertain write.     *)

DropFile ==
  /\ dropped < NSources
  /\ dropped' = dropped + 1
  /\ UNCHANGED <<evidence, received, ledger, settled, library, lease, pc, queue, at, stops>>

Stop ==
  /\ pc # "idle" /\ stops < MaxStops
  /\ pc' = "idle"
  /\ stops' = stops + 1
  /\ UNCHANGED <<Drive, queue, at>>

RecoverFirst ==
  \/ NothingHeld \/ ReleasePrewrite \/ RecoveryRequired
  \/ ResumeSettle \/ ResumeRelease

E1 ==
  \/ Select \/ PrepareFails \/ NoLot \/ BuildLot
  \/ \E s \in Source : Extract(s) \/ ExtractFails(s) \/ Receive(s)

E2 == Decide \/ NothingToDecide

E3 ==
  \/ Finish \/ PrepareRefused \/ StoreSnapshots \/ StoreJournal \/ MarkStarted
  \/ StartWriting \/ WriteCanonical \/ Verify \/ StoreReceipt \/ Commit
  \/ SettleWritten \/ ReleaseWritten
  \/ \E l \in Lot : SettleUnwritten(l) \/ PreflightRefused(l) \/ Acquire(l)

Cycle == StartCycle \/ RecoverFirst \/ E1 \/ E2 \/ E3
Next == Cycle \/ DropFile \/ Stop

Spec == Init /\ [][Next]_vars

\* The schedule starts a cycle every day and a running cycle goes on.
FairSpec == Spec /\ WF_vars(Cycle)

-----------------------------------------------------------------------------
(* Safety.                                                                  *)

Point ==
  {"idle", "recover", "resumed", "select", "extract", "receive", "decide", "settle",
   "prepare", "snapshots", "prepared", "started", "writing", "verified", "proven",
   "committed", "sidecar"}

\* Types.
TypeOK ==
  /\ dropped \in 0..NSources
  /\ evidence \in [Source -> {"none", "eligible", "held"}]
  /\ received \subseteq Source
  /\ lots \in 0..NSources
  /\ items \in [Lot -> SUBSET Source]
  /\ decision \in [Lot -> {"none", "write", "nowrite", "unfit"}]
  /\ settled \subseteq Lot
  /\ snapshots \subseteq Tx
  /\ journal \in [Tx -> JournalState]
  /\ proven \subseteq Tx
  /\ canon \in [File -> 0..NSources]
  /\ holder \in Tx \cup {NoTx}
  /\ started \in BOOLEAN
  /\ pc \in Point
  /\ queue \subseteq Source
  /\ at \in 0..NFiles
  /\ stops \in 0..MaxStops

\* A transaction leaves the lease only with everything it promised: once its
\* journal crosses the write boundary it is the holder until it is COMMITTED,
\* with its receipt, and until its lot has the terminal receipt, however often
\* cycles die (exercise_commit, recover_first, resume_terminal_commit).
Begun(t) == journal[t] \in {"WRITING_RECORDS", "VERIFYING", "COMMITTED"}
LeavesSettled ==
  \A t \in Tx : Begun(t) /\ ~(holder = t /\ started) =>
    journal[t] = "COMMITTED" /\ t \in proven /\ t.lot \in settled

\* A lot is written by one transaction only and its terminal receipt never
\* comes before the commit: two cycles, or a cycle and its restart, never
\* apply the decisions of a lot twice.
AppliedOnce ==
  /\ \A t, u \in Tx : Begun(t) /\ Begun(u) /\ t.lot = u.lot => t = u
  /\ \A l \in settled : decision[l] = "write" =>
       \E t \in Tx : t.lot = l /\ journal[t] = "COMMITTED"

\* E1 puts a file into at most one lot, only with eligible evidence and a
\* receipt, and never opens a lot while another is unsettled (prepare,
\* past_state).
LotsDisjoint ==
  /\ \A k, l \in Built : k # l => items[k] \cap items[l] = {}
  /\ \A l \in Built : \A s \in items[l] : s \in received /\ evidence[s] = "eligible"
  /\ Cardinality(Built \ settled) <= 1

(* Liveness, under FairSpec.                                                *)

\* The cycle stops in recover_first for good: its transaction was started and
\* is not committed.
Halted == started /\ journal[holder] # "COMMITTED"

\* Every readable file is read in the end, though others crash the decoder
\* (fewer of them than one cycle takes up), unless the cycle is halted or the
\* receipts exceed their limit: the promise of extract_each.
SourcesRead ==
  \A s \in Source \ (Broken \cup Erratic) :
    s <= dropped ~> (s \in received \/ []Halted \/ []OverLimit)

\* Every lot is decided and settled in the end, whatever the model answers,
\* unless E3 refuses a decision E2 has accepted, the receipts exceed their
\* limit, which ends every cycle before E2, or a cycle died after it had stored
\* before-images and before it had committed (prepare_fixture refuses what it
\* finds there, recover_first refuses what was started).
Orphaned(l) == \E t \in snapshots : t.lot = l /\ journal[t] # "COMMITTED"
LotsSettled ==
  \A l \in Lot :
    l <= lots ~> (l \in settled \/ decision[l] = "unfit" \/ []Orphaned(l) \/ []OverLimit)

\* What MARCO3_CLOUD_CYCLE.md says of a cycle that stopped on an uncertain
\* write: the next cycle reconciles from Drive, so every decided lot is settled.
Reconciled ==
  \A l \in Lot : decision[l] = "write" ~> l \in settled
=============================================================================
