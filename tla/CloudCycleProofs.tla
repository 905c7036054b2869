--------------------------- MODULE CloudCycleProofs ---------------------------
(***************************************************************************)
(* Theorems about CloudCycle, for any files, any lots, any answers of the    *)
(* model and any number of cycles that die.                                  *)
(***************************************************************************)
EXTENDS CloudCycle, FiniteSetTheorems, TLAPS

\* The steps between the acquisition of the lease and its release.
Unstarted == {"prepare", "snapshots", "prepared"}
Underway == {"started", "writing", "verified", "proven", "committed", "sidecar", "resumed"}
\* The points before the write, with the lease.
Unwritten == Unstarted \cup {"started"}

\* What a cycle knows of the lease it holds, by the place it has reached.
Stages ==
  /\ holder = NoTx => ~started
  /\ pc \in Unstarted => holder # NoTx /\ ~started
  /\ pc \in Underway => holder # NoTx /\ started
  /\ pc \in Unwritten => holder.lot \notin settled
  /\ pc = "snapshots" => journal[holder] = "none"
  /\ pc \in {"prepared", "started"} => journal[holder] = "PREPARED"
  /\ pc = "writing" => journal[holder] = "WRITING_RECORDS"
  /\ pc \in {"verified", "proven"} => journal[holder] = "VERIFYING"
  /\ pc \in {"committed", "sidecar", "resumed"} => journal[holder] = "COMMITTED"
  /\ pc \in {"sidecar", "resumed"} => holder.lot \in settled /\ holder \in proven

\* What is settled was decided, and what is held was decided for writing.
Decisions ==
  /\ \A l \in settled : decision[l] # "none"
  /\ holder # NoTx => decision[holder.lot] = "write"

IInv == TypeOK /\ Stages /\ Decisions /\ LeavesSettled /\ AppliedOnce /\ LotsDisjoint

-----------------------------------------------------------------------------
(* Steps that write nothing to the Drive.                                   *)

LEMMA Quiet ==
  ASSUME IInv, UNCHANGED Drive, pc' \in Point \ (Unstarted \cup Underway),
         queue' \subseteq Source, at' \in 0..NFiles, stops' \in 0..MaxStops
  PROVE  IInv'
  <1>1. TypeOK'
    BY DEF IInv, TypeOK, Drive, inbox, ledger, library, lease
  <1>2. Stages'
    BY DEF IInv, Stages, Drive, ledger, library, lease, Unstarted, Underway, Unwritten
  <1>3. Decisions' /\ LeavesSettled' /\ AppliedOnce' /\ LotsDisjoint'
    BY DEF IInv, Decisions, LeavesSettled, AppliedOnce, LotsDisjoint, Begun, Built, Drive,
           inbox, ledger, library, lease
  <1>4. QED
    BY <1>1, <1>2, <1>3 DEF IInv

\* The points outside a transaction.
LEMMA Points ==
  {"idle", "recover", "select", "extract", "receive", "decide", "settle"}
    \subseteq Point \ (Unstarted \cup Underway)
  BY DEF Point, Unstarted, Underway

LEMMA QuietSteps ==
  ASSUME IInv,
         \/ StartCycle \/ NothingHeld \/ RecoveryRequired \/ Select \/ PrepareFails
         \/ NoLot \/ NothingToDecide \/ Finish \/ PrepareRefused \/ Stop
         \/ \E s \in Source : ExtractFails(s)
         \/ \E l \in Lot : PreflightRefused(l)
  PROVE  IInv'
  <1> USE DEF Goto
  <1>1. queue \subseteq Source /\ at \in 0..NFiles /\ stops \in 0..MaxStops
    BY DEF IInv, TypeOK
  <1>2. CASE StartCycle \/ NothingHeld \/ RecoveryRequired \/ PrepareFails
             \/ NoLot \/ NothingToDecide \/ Finish \/ PrepareRefused
    BY <1>1, <1>2, Quiet, Points
       DEF StartCycle, NothingHeld, RecoveryRequired, PrepareFails, NoLot, NothingToDecide,
           Finish, PrepareRefused
  <1>3. CASE Select
    <2>1. queue' \subseteq 1..dropped
      BY <1>3 DEF Select, Fresh
    <2>2. dropped \in 0..NSources
      BY DEF IInv, TypeOK
    <2>3. queue' \subseteq Source
      BY <2>1, <2>2, CloudCycleAssumption DEF Source
    <2>4. QED
      BY <1>1, <1>3, <2>3, Quiet, Points DEF Select
  <1>4. CASE Stop
    <2>1. stops' \in 0..MaxStops
      BY <1>1, <1>4, CloudCycleAssumption DEF Stop
    <2>2. QED
      BY <1>1, <1>4, <2>1, Quiet, Points DEF Stop
  <1>5. CASE \E s \in Source : ExtractFails(s)
    BY <1>1, <1>5, Quiet, Points DEF ExtractFails
  <1>6. CASE \E l \in Lot : PreflightRefused(l)
    BY <1>1, <1>6, Quiet, Points DEF PreflightRefused
  <1>7. QED
    BY <1>2, <1>3, <1>4, <1>5, <1>6

-----------------------------------------------------------------------------
(* Dropped files, evidence, receipts.                                       *)

LEMMA InboxSteps ==
  ASSUME IInv, DropFile \/ \E s \in Source : Extract(s) \/ Receive(s)
  PROVE  IInv'
  <1> USE DEF Goto
  <1>1. UNCHANGED <<ledger, settled, library, lease, at, stops>>
    BY DEF DropFile, Extract, Receive
  <1>2. /\ evidence' \in [Source -> {"none", "eligible", "held"}]
        /\ \A s \in Source : evidence[s] = "eligible" => evidence'[s] = "eligible"
    <2>1. CASE evidence' = evidence
      BY <2>1 DEF IInv, TypeOK
    <2>2. CASE \E s \in Source : Extract(s)
      <3>1. PICK s \in Source : Extract(s)
        BY <2>2
      <3>2. PICK v \in {"eligible", "held"} :
              evidence[s] \in {"none", v} /\ evidence' = [evidence EXCEPT ![s] = v]
        BY <3>1 DEF Extract, Outcome
      <3>3. QED
        BY <3>2 DEF IInv, TypeOK
    <2>3. QED
      BY <2>1, <2>2 DEF DropFile, Receive
  <1>3. dropped' \in 0..NSources
    BY CloudCycleAssumption DEF IInv, TypeOK, DropFile, Extract, Receive
  <1>4. received \subseteq received' /\ received' \subseteq Source /\ queue' \subseteq Source
    BY DEF IInv, TypeOK, DropFile, Extract, Receive
  <1>5. pc' = pc \/ pc' \in {"extract", "receive"}
    BY DEF DropFile, Extract, Receive
  <1>6. TypeOK'
    BY <1>1, <1>2, <1>3, <1>4, <1>5 DEF IInv, TypeOK, ledger, library, lease, Point
  <1>7. Stages' /\ Decisions' /\ LeavesSettled' /\ AppliedOnce'
    BY <1>1, <1>5 DEF IInv, Stages, Decisions, LeavesSettled, AppliedOnce, Begun,
       ledger, library, lease, Unstarted, Underway, Unwritten
  <1>8. LotsDisjoint'
    <2>1. \A l \in Built : items[l] \subseteq Source
      BY CloudCycleAssumption DEF IInv, TypeOK, Built, Lot
    <2>2. QED
      BY <1>1, <1>2, <1>4, <2>1 DEF IInv, LotsDisjoint, Built, ledger
  <1>9. QED
    BY <1>6, <1>7, <1>8 DEF IInv

-----------------------------------------------------------------------------
(* A new lot, and its decision.                                             *)

LEMMA NewLot ==
  ASSUME IInv, BuildLot
  PROVE  IInv'
  <1> USE DEF Goto
  <1>1. PICK chosen \in SUBSET Selectable : items' = [items EXCEPT ![lots + 1] = chosen]
    BY DEF BuildLot
  <1>2. /\ lots \in Nat /\ lots' = lots + 1 /\ lots < NSources /\ NSources \in Nat
        /\ items \in [Lot -> SUBSET Source] /\ received \subseteq Source
        /\ lots + 1 \in Lot /\ Built \subseteq Lot /\ Built' = Built \cup {lots + 1}
        /\ lots + 1 \notin Built
    BY CloudCycleAssumption DEF BuildLot, IInv, TypeOK, Built, Lot
  <1>3. /\ chosen \subseteq received
        /\ \A s \in chosen : evidence[s] = "eligible" /\ \A l \in Built : s \notin items[l]
    BY <1>1 DEF Selectable, Listed
  <1>4. /\ UNCHANGED <<inbox, decision, settled, library, lease, queue, at, stops>>
        /\ pc' = "decide"
    BY DEF BuildLot
  <1>5. items' \in [Lot -> SUBSET Source]
    BY <1>1, <1>2, <1>3
  <1>6. lots' \in 0..NSources
    BY <1>2
  <1>7. TypeOK'
    BY <1>4, <1>5, <1>6 DEF IInv, TypeOK, inbox, library, lease, Point
  <1>8. Stages' /\ Decisions' /\ LeavesSettled' /\ AppliedOnce'
    BY <1>4 DEF IInv, Stages, Decisions, LeavesSettled, AppliedOnce, Begun,
       library, lease, Unstarted, Underway, Unwritten
  <1>9. LotsDisjoint'
    <2>1. \A l \in Built : items'[l] = items[l]
      BY <1>1, <1>2
    <2>2. items'[lots + 1] = chosen
      BY <1>1, <1>2
    <2>3. \A k, l \in Built' : k # l => items'[k] \cap items'[l] = {}
      BY <1>2, <1>3, <2>1, <2>2 DEF IInv, LotsDisjoint
    <2>4. \A l \in Built' : \A s \in items'[l] : s \in received' /\ evidence'[s] = "eligible"
      BY <1>2, <1>3, <1>4, <2>1, <2>2 DEF IInv, LotsDisjoint, inbox
    <2>5. Cardinality(Built' \ settled') <= 1
      <3>1. Built \subseteq settled
        BY DEF BuildLot, Pending
      <3>2. Built' \ settled' \subseteq {lots + 1}
        BY <1>2, <1>4, <3>1
      <3>3. IsFiniteSet({lots + 1}) /\ Cardinality({lots + 1}) = 1
        BY FS_Singleton
      <3>4. Cardinality(Built' \ settled') <= Cardinality({lots + 1})
        BY <3>2, <3>3, FS_Subset
      <3>5. QED
        BY <3>3, <3>4
    <2>6. QED
      BY <2>3, <2>4, <2>5 DEF LotsDisjoint
  <1>10. QED
    BY <1>7, <1>8, <1>9 DEF IInv

LEMMA DecideStep ==
  ASSUME IInv, Decide
  PROVE  IInv'
  <1>1. PICK l \in Undecided, v \in {"none", "write", "nowrite", "unfit"} :
          decision' = [decision EXCEPT ![l] = v]
    BY DEF Decide, Decided
  <1>2. UNCHANGED <<inbox, lots, items, settled, library, lease, queue, at, stops>>
    BY DEF Decide
  <1>3. pc' \in {"idle", "settle"}
    BY DEF Decide
  <1>4. l \in Lot /\ decision[l] = "none"
    BY <1>1, CloudCycleAssumption DEF IInv, TypeOK, Undecided, Built, Lot
  <1>5. decision' \in [Lot -> {"none", "write", "nowrite", "unfit"}]
    BY <1>1, <1>4 DEF IInv, TypeOK
  <1>6. \A k \in Lot : decision[k] # "none" => decision'[k] = decision[k]
    BY <1>1, <1>4 DEF IInv, TypeOK
  <1>7. TypeOK'
    BY <1>2, <1>3, <1>5 DEF IInv, TypeOK, inbox, library, lease, Point
  <1>8. Stages' /\ LeavesSettled' /\ LotsDisjoint'
    BY <1>2, <1>3 DEF IInv, Stages, LeavesSettled, LotsDisjoint, Built, Begun, inbox,
       library, lease, Unstarted, Underway, Unwritten
  <1>9. holder # NoTx => holder.lot \in Lot
    BY DEF IInv, TypeOK, Tx
  <1>10. Decisions'
    BY <1>2, <1>6, <1>9 DEF IInv, TypeOK, Decisions, lease
  <1>11. AppliedOnce'
    <2>1. \A k \in settled : decision'[k] = decision[k]
      BY <1>6 DEF IInv, TypeOK, Decisions
    <2>2. QED
      BY <1>2, <2>1 DEF IInv, AppliedOnce, Begun, library
  <1>12. QED
    BY <1>7, <1>8, <1>10, <1>11 DEF IInv

-----------------------------------------------------------------------------
(* The lease is taken and given back.                                       *)

LEMMA HolderTx == IInv /\ holder # NoTx => holder \in Tx /\ holder.lot \in Lot
  BY DEF IInv, TypeOK, Tx

LEMMA AcquireStep ==
  ASSUME IInv, NEW l \in Lot, Acquire(l)
  PROVE  IInv'
  <1>1. /\ holder = NoTx /\ holder' = TxOf(l) /\ ~started /\ started' = FALSE
        /\ pc' = "prepare" /\ l \notin settled /\ decision[l] = "write"
        /\ UNCHANGED <<inbox, ledger, settled, library, queue, at, stops>>
    BY DEF Acquire, Goto, First, Open, IInv, Stages
  <1>2. holder' \in Tx /\ holder'.lot = l /\ holder' # NoTx
    <2>1. NFiles \in File
      BY CloudCycleAssumption DEF File
    <2>2. canon[NFiles] \in 0..NSources
      BY <2>1 DEF IInv, TypeOK
    <2>3. QED
      BY <1>1, <2>2, NoTxAssumption DEF TxOf, Tx
  <1>3. TypeOK'
    BY <1>1, <1>2 DEF IInv, TypeOK, inbox, ledger, library, Point
  <1>4. Stages' /\ Decisions'
    BY <1>1, <1>2 DEF IInv, Stages, Decisions, ledger, Unstarted, Underway, Unwritten
  <1>5. LeavesSettled' /\ AppliedOnce' /\ LotsDisjoint'
    BY <1>1 DEF IInv, LeavesSettled, AppliedOnce, LotsDisjoint, Begun, Built, inbox,
       ledger, library
  <1>6. QED
    BY <1>3, <1>4, <1>5 DEF IInv

\* A lease that was not started, or whose transaction is settled, is given back.
LEMMA ReleaseSteps ==
  ASSUME IInv, ReleasePrewrite \/ ResumeRelease \/ ReleaseWritten
  PROVE  IInv'
  <1>1. /\ holder' = NoTx /\ started' = FALSE /\ pc' \in {"select", "settle"}
        /\ UNCHANGED <<inbox, ledger, settled, library, queue, at, stops>>
    BY DEF ReleasePrewrite, ResumeRelease, ReleaseWritten, ReleaseCommitted, Goto,
       IInv, TypeOK
  <1>2. \/ ~started
        \/ journal[holder] = "COMMITTED" /\ holder \in proven /\ holder.lot \in settled
    BY DEF ReleasePrewrite, ResumeRelease, ReleaseWritten, ReleaseCommitted, Goto,
       IInv, Stages
  <1>3. TypeOK'
    BY <1>1 DEF IInv, TypeOK, inbox, ledger, library, Point
  <1>4. Stages' /\ Decisions'
    BY <1>1 DEF IInv, Stages, Decisions, ledger, Unstarted, Underway, Unwritten
  <1>5. LeavesSettled'
    BY <1>1, <1>2 DEF IInv, LeavesSettled, Begun, library
  <1>6. AppliedOnce' /\ LotsDisjoint'
    BY <1>1 DEF IInv, AppliedOnce, LotsDisjoint, Begun, Built, inbox, ledger, library
  <1>7. QED
    BY <1>3, <1>4, <1>5, <1>6 DEF IInv

-----------------------------------------------------------------------------
(* Lots are settled.                                                        *)

\* A lot may be settled when nothing of it was to be written or its transaction is
\* committed; the lease does not change.
LEMMA Settling ==
  ASSUME IInv, NEW l \in Lot, settled' = settled \cup {l},
         UNCHANGED <<inbox, ledger, library, lease, queue, at, stops>>,
         \/ decision[l] = "nowrite"
         \/ decision[l] = "write" /\ \E t \in Tx : t.lot = l /\ journal[t] = "COMMITTED",
         pc' \in Point, Stages'
  PROVE  IInv'
  <1>1. TypeOK'
    BY DEF IInv, TypeOK, inbox, ledger, library, lease
  <1>2. Decisions' /\ LeavesSettled' /\ AppliedOnce'
    BY DEF IInv, Decisions, LeavesSettled, AppliedOnce, Begun, ledger, library, lease
  <1>3. LotsDisjoint'
    <2>1. Built' \ settled' \subseteq Built \ settled
      BY DEF Built, ledger
    <2>2. IsFiniteSet(Built \ settled)
      <3>1. IsFiniteSet(Built)
        BY CloudCycleAssumption, FS_Interval DEF IInv, TypeOK, Built
      <3>2. QED
        BY <3>1, FS_Subset
    <2>3. Cardinality(Built' \ settled') <= Cardinality(Built \ settled)
      BY <2>1, <2>2, FS_Subset
    <2>4. /\ Cardinality(Built' \ settled') \in Nat /\ Cardinality(Built \ settled) \in Nat
          /\ Cardinality(Built \ settled) <= 1
      BY <2>1, <2>2, FS_Subset, FS_CardinalityType DEF IInv, LotsDisjoint
    <2>5. Cardinality(Built' \ settled') <= 1
      BY <2>3, <2>4
    <2>6. QED
      BY <2>5 DEF IInv, LotsDisjoint, Built, ledger, inbox
  <1>4. QED
    BY <1>1, <1>2, <1>3 DEF IInv

LEMMA SidecarSteps ==
  ASSUME IInv, ResumeSettle \/ SettleWritten
  PROVE  IInv'
  <1>1. /\ holder # NoTx /\ started /\ Settleable(holder)
        /\ settled' = settled \cup {holder.lot} /\ pc' \in {"resumed", "sidecar"}
        /\ UNCHANGED <<inbox, ledger, library, lease, queue, at, stops>>
    BY DEF ResumeSettle, SettleWritten, Sidecar, Goto
  <1>2. holder \in Tx /\ holder.lot \in Lot
    BY <1>1, HolderTx
  <1>3. decision[holder.lot] = "write"
    BY <1>1 DEF IInv, Decisions
  <1>4. Stages'
    BY <1>1 DEF Stages, Settleable, library, lease, Unstarted, Underway, Unwritten
  <1>5. QED
    BY <1>1, <1>2, <1>3, <1>4, Settling DEF Settleable, Point

LEMMA UnwrittenStep ==
  ASSUME IInv, NEW l \in Lot, SettleUnwritten(l)
  PROVE  IInv'
  <1>1. /\ settled' = settled \cup {l} /\ pc' = "settle" /\ decision[l] = "nowrite"
        /\ UNCHANGED <<inbox, ledger, library, lease, queue, at, stops>>
    BY DEF SettleUnwritten, Goto
  <1>2. Stages'
    BY <1>1 DEF IInv, Stages, lease, Unstarted, Underway, Unwritten
  <1>3. QED
    BY <1>1, <1>2, Settling DEF Point

-----------------------------------------------------------------------------
(* The steps of a transaction.                                              *)

\* A step of the transaction that holds the lease, which settles nothing.
LEMMA TransactionStep ==
  ASSUME IInv, UNCHANGED <<inbox, ledger, settled, holder, queue, stops>>,
         holder \in Tx, pc' \in Point, TypeOK', Stages',
         proven \subseteq proven', started => started',
         \A t \in Tx \ {holder} : journal'[t] = journal[t],
         journal[holder] # "COMMITTED" \/ journal'[holder] = "COMMITTED",
         Begun(holder)' => started' /\ (Begun(holder) \/ holder.lot \notin settled)
  PROVE  IInv'
  <1>1. Decisions' /\ LotsDisjoint'
    BY DEF IInv, Decisions, LotsDisjoint, Built, inbox, ledger
  <1>2. LeavesSettled'
    BY DEF IInv, LeavesSettled, Begun
  <1>3. \A t, u \in Tx : Begun(t)' /\ Begun(u)' /\ t.lot = u.lot => t = u
    <2>1. ASSUME NEW t \in Tx \ {holder}, Begun(t)', Begun(holder)', t.lot = holder.lot
          PROVE  FALSE
      <3>1. Begun(t) /\ t.lot \in settled
        BY <2>1 DEF IInv, LeavesSettled, Begun
      <3>2. ~Begun(holder)
        BY <2>1, <3>1 DEF IInv, AppliedOnce
      <3>3. QED
        BY <2>1, <3>1, <3>2
    <2>2. ASSUME NEW t \in Tx \ {holder}, NEW u \in Tx \ {holder},
                 Begun(t)', Begun(u)', t.lot = u.lot
          PROVE  t = u
      BY <2>2 DEF IInv, AppliedOnce, Begun
    <2>3. QED
      BY <2>1, <2>2
  <1>4. AppliedOnce'
    <2>1. \A l \in settled : decision[l] = "write" =>
            \E t \in Tx : t.lot = l /\ journal'[t] = "COMMITTED"
      BY DEF IInv, AppliedOnce
    <2>2. QED
      BY <1>3, <2>1 DEF AppliedOnce, ledger
  <1>5. QED
    BY <1>1, <1>2, <1>4 DEF IInv

\* Where each of these steps leads.
LEMMA PrepareSteps ==
  ASSUME IInv, StoreSnapshots \/ StoreJournal \/ MarkStarted \/ StartWriting
  PROVE  IInv'
  <1> USE DEF Goto
  <1>1. /\ UNCHANGED <<inbox, ledger, settled, holder, queue, stops, proven, canon>>
        /\ started' \in BOOLEAN /\ (started => started')
        /\ at' \in {0, at} /\ pc' \in Point
    BY DEF StoreSnapshots, StoreJournal, MarkStarted, StartWriting, Journal, library, lease,
       Point, IInv, TypeOK
  <1>2. holder # NoTx /\ holder \in Tx /\ holder.lot \notin settled
    <2>1. pc \in Unwritten /\ holder # NoTx
      BY DEF StoreSnapshots, StoreJournal, MarkStarted, StartWriting, IInv, Stages,
         Unstarted, Underway, Unwritten
    <2>2. QED
      BY <2>1, HolderTx DEF IInv, Stages
  <1>3. snapshots' \subseteq Tx
    BY <1>2 DEF StoreSnapshots, StoreJournal, MarkStarted, StartWriting, Journal, library,
       IInv, TypeOK
  <1>4. /\ journal' \in [Tx -> JournalState]
        /\ \A t \in Tx \ {holder} : journal'[t] = journal[t]
    BY <1>2 DEF StoreSnapshots, StoreJournal, MarkStarted, StartWriting, Journal, library,
       IInv, TypeOK, JournalState
  <1>5. TypeOK'
    <2>1. at' \in 0..NFiles
      BY <1>1, CloudCycleAssumption DEF IInv, TypeOK
    <2>2. QED
      BY <1>1, <1>3, <1>4, <2>1 DEF IInv, TypeOK, inbox, ledger
  <1>6. Stages' /\ journal[holder] # "COMMITTED" /\ (Begun(holder)' => started')
    <2>1. CASE StoreSnapshots
      BY <1>1, <1>2, <2>1 DEF StoreSnapshots, IInv, Stages, Begun, lease, Unstarted,
         Underway, Unwritten
    <2>2. CASE StoreJournal
      BY <1>1, <1>2, <2>2 DEF StoreJournal, Journal, IInv, TypeOK, Stages, Begun, lease,
         Unstarted, Underway, Unwritten
    <2>3. CASE MarkStarted
      BY <1>1, <1>2, <2>3 DEF MarkStarted, IInv, Stages, Begun, library,
         Unstarted, Underway, Unwritten
    <2>4. CASE StartWriting
      BY <1>1, <1>2, <2>4 DEF StartWriting, Journal, IInv, TypeOK, Stages, Begun, lease,
         Unstarted, Underway, Unwritten
    <2>5. QED
      BY <2>1, <2>2, <2>3, <2>4
  <1>7. QED
    BY <1>1, <1>2, <1>4, <1>5, <1>6, TransactionStep

LEMMA WriteSteps ==
  ASSUME IInv, WriteCanonical \/ Verify \/ StoreReceipt \/ Commit
  PROVE  IInv'
  <1> USE DEF Goto
  <1>1. /\ UNCHANGED <<inbox, ledger, settled, holder, started, queue, stops, snapshots>>
        /\ pc' \in Point
    BY DEF WriteCanonical, Verify, StoreReceipt, Commit, Journal, library, lease, Point
  <1>2. holder # NoTx /\ holder \in Tx /\ holder.lot \in Lot /\ started
    <2>1. holder # NoTx /\ started
      BY DEF WriteCanonical, Verify, StoreReceipt, Commit, IInv, Stages, Underway
    <2>2. QED
      BY <2>1, HolderTx
  <1>3. proven \subseteq proven' /\ proven' \subseteq Tx
    BY <1>2 DEF WriteCanonical, Verify, StoreReceipt, Commit, Journal, IInv, TypeOK
  <1>4. /\ journal' \in [Tx -> JournalState]
        /\ \A t \in Tx \ {holder} : journal'[t] = journal[t]
    BY <1>2 DEF WriteCanonical, Verify, StoreReceipt, Commit, Journal, IInv, TypeOK,
       JournalState
  <1>5. canon' \in [File -> 0..NSources] /\ at' \in 0..NFiles
    <2>1. CASE WriteCanonical
      <3>1. at + 1 \in 0..NFiles /\ holder.lot \in 0..NSources
        BY <1>2, <2>1, CloudCycleAssumption DEF WriteCanonical, IInv, TypeOK, Lot
      <3>2. QED
        BY <2>1, <3>1 DEF WriteCanonical, IInv, TypeOK
    <2>2. CASE Verify \/ StoreReceipt \/ Commit
      BY <2>2 DEF Verify, StoreReceipt, Commit, Journal, IInv, TypeOK
    <2>3. QED
      BY <2>1, <2>2
  <1>6. TypeOK'
    BY <1>1, <1>3, <1>4, <1>5 DEF IInv, TypeOK, inbox, ledger
  <1>7. /\ Stages' /\ Begun(holder)
        /\ journal[holder] # "COMMITTED" \/ journal'[holder] = "COMMITTED"
    <2>1. CASE WriteCanonical
      BY <1>1, <1>2, <2>1 DEF WriteCanonical, IInv, Stages, Begun, Unstarted, Underway, Unwritten
    <2>2. CASE Verify
      BY <1>1, <1>2, <2>2 DEF Verify, Journal, IInv, TypeOK, Stages, Begun,
         Unstarted, Underway, Unwritten
    <2>3. CASE StoreReceipt
      BY <1>1, <1>2, <2>3 DEF StoreReceipt, IInv, Stages, Begun, Unstarted, Underway, Unwritten
    <2>4. CASE Commit
      BY <1>1, <1>2, <2>4 DEF Commit, Journal, IInv, TypeOK, Stages, Begun,
         Unstarted, Underway, Unwritten
    <2>5. QED
      BY <2>1, <2>2, <2>3, <2>4
  <1>8. QED
    BY <1>1, <1>2, <1>3, <1>4, <1>6, <1>7, TransactionStep

-----------------------------------------------------------------------------
(* The theorems.                                                            *)

LEMMA InitInv == Init => IInv
  <1> SUFFICES ASSUME Init PROVE IInv
    OBVIOUS
  <1>1. TypeOK
    <2>1. /\ dropped \in 0..NSources /\ lots \in 0..NSources /\ at \in 0..NFiles
          /\ stops \in 0..MaxStops /\ canon \in [File -> 0..NSources]
      BY CloudCycleAssumption DEF Init
    <2>2. /\ evidence \in [Source -> {"none", "eligible", "held"}]
          /\ decision \in [Lot -> {"none", "write", "nowrite", "unfit"}]
          /\ journal \in [Tx -> JournalState] /\ items \in [Lot -> SUBSET Source]
      BY DEF Init, JournalState
    <2>3. pc \in Point /\ started \in BOOLEAN
      BY DEF Init, Point
    <2>4. QED
      BY <2>1, <2>2, <2>3 DEF Init, TypeOK
  <1>2. Stages /\ Decisions /\ LeavesSettled /\ AppliedOnce
    BY DEF Init, Stages, Decisions, LeavesSettled, AppliedOnce, Begun, Unstarted, Underway,
       Unwritten
  <1>3. LotsDisjoint
    <2>1. Built = {} /\ Built \ settled = {}
      BY DEF Init, Built
    <2>2. QED
      BY <2>1, FS_EmptySet DEF LotsDisjoint
  <1>4. QED
    BY <1>1, <1>2, <1>3 DEF IInv

LEMMA NextInv == IInv /\ [Next]_vars => IInv'
  <1> SUFFICES ASSUME IInv, [Next]_vars PROVE IInv'
    OBVIOUS
  <1>1. CASE Next
    BY <1>1, QuietSteps, InboxSteps, NewLot, DecideStep, AcquireStep, ReleaseSteps,
       SidecarSteps, UnwrittenStep, PrepareSteps, WriteSteps
       DEF Next, Cycle, RecoverFirst, E1, E2, E3
  <1>2. CASE UNCHANGED vars
    BY <1>2 DEF vars, IInv, TypeOK, Stages, Decisions, LeavesSettled, AppliedOnce,
       LotsDisjoint, Begun, Built, inbox, ledger, library, lease
  <1>3. QED
    BY <1>1, <1>2

LEMMA Inductive == Spec => []IInv
  BY InitInv, NextInv, PTL DEF Spec

\* Every variable keeps its type.
THEOREM TypeCorrect == Spec => []TypeOK
  <1>1. IInv => TypeOK
    BY DEF IInv
  <1>2. QED
    BY <1>1, Inductive, PTL

\* A transaction of e123_cloud_cycle.py that crossed the write boundary keeps the lease
\* until it is committed, has its receipt and its lot is settled, however often cycles die.
THEOREM LeavesSettledAlways == Spec => []LeavesSettled
  <1>1. IInv => LeavesSettled
    BY DEF IInv
  <1>2. QED
    BY <1>1, Inductive, PTL

\* The decisions of a lot are applied by one transaction, and none is taken for
\* applied before the commit.
THEOREM LotsAppliedOnce == Spec => []AppliedOnce
  <1>1. IInv => AppliedOnce
    BY DEF IInv
  <1>2. QED
    BY <1>1, Inductive, PTL

\* A file is in one lot at most, with evidence and receipt, and a lot is opened only
\* when the one before is settled.
THEOREM LotsKeptApart == Spec => []LotsDisjoint
  <1>1. IInv => LotsDisjoint
    BY DEF IInv
  <1>2. QED
    BY <1>1, Inductive, PTL

=============================================================================
