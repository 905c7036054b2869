-------------------------- MODULE CandidateProofs --------------------------
(* Theorems about FileEvidence, for every set of packages and every bound, and  *)
(* about CandidateCycle, for every set of names, texts and answers.             *)
EXTENDS FileEvidence, CandidateCycle, TLAPS, FiniteSetTheorems, SequenceTheorems,
        WellFoundedInduction

---------------------------------------------------------------------------
(* FileEvidence *)

\* The steps of the candidate bridge after it compared index, envelope and summary.
AfterBound ==
  {"receipt", "existing", "assess", "source", "ask", "validate", "render", "create", "seal"}

\* Its steps between looking for a receipt and creating the candidate.
BeforeCreate == AfterBound \ {"receipt", "seal"}

\* The steps of the record migration that know a package.
Migrating == {"backup", "migrate"}

PcOK == pc \in [Actor -> Step]

RecordOK == record \in [Package -> {"none", "old", "current", "backfilled"}]

BasisBound == pc["operator"] \in AfterBound => basis = item

\* A key that has a candidate is in the queue or has its receipt, unless it was taken
\* out of the queue first.
CreatedKept == \A c \in created : c.key \in queue \cup receipts \cup lost

NoReceiptYet == pc["operator"] \in BeforeCreate => item \notin receipts \/ misread

\* What Audit has seen and Backup has put aside.
OldSaved ==
  pc["operator"] = "migrate" =>
    \A p \in Package : p = subject /\ record[p] = "old" => p \in backups \/ misread

IInv ==
  /\ PcOK /\ RecordOK
  /\ BoundToEvidence /\ BasisBound /\ CreatedKept /\ NoReceiptYet
  /\ OldSaved

LEMMA InitInv == Init => IInv
  <1> SUFFICES ASSUME Init PROVE IInv
    OBVIOUS
  <1>1. PcOK /\ pc["operator"] = "idle"
    BY DEF Init, PcOK, Actor, Step
  <1>2. RecordOK
    BY EvidenceAssumption DEF Init, RecordOK
  <1>3. BoundToEvidence /\ CreatedKept
    BY DEF Init, BoundToEvidence, CreatedKept
  <1>4. QED
    BY <1>1, <1>2, <1>3 DEF IInv, BasisBound, NoReceiptYet, OldSaved,
                            AfterBound, BeforeCreate, Migrating

-----------------------------------------------------------------------------
(* Steps that are not the candidate's.                                      *)

\* The candidates are as they were, no record grows old, and the operator is at none of
\* the steps the invariant speaks of or has not moved.
LEMMA Quiet ==
  ASSUME IInv, PcOK', RecordOK', UNCHANGED <<queue, receipts, created, lost, misread, backups>>,
         \A p \in Package : record'[p] = "old" => record[p] = "old",
         \/ pc'["operator"] \notin AfterBound \cup Migrating
         \/ pc'["operator"] = pc["operator"] /\ UNCHANGED <<subject, item, basis>>
  PROVE  IInv'
  <1>1. BoundToEvidence' /\ CreatedKept'
    BY DEF IInv, BoundToEvidence, CreatedKept
  <1>2. BasisBound' /\ NoReceiptYet'
    BY DEF IInv, BasisBound, NoReceiptYet, BeforeCreate
  <1>3. OldSaved'
    BY DEF IInv, OldSaved, Migrating
  <1>4. QED
    BY <1>1, <1>2, <1>3 DEF IInv

LEMMA Outside ==
  ASSUME IInv, PcOK',
         UNCHANGED <<queue, receipts, created, lost, misread, record, backups>>,
         \/ pc'["operator"] \notin AfterBound \cup Migrating
         \/ pc'["operator"] = pc["operator"] /\ UNCHANGED <<subject, item, basis>>
  PROVE  IInv'
  BY Quiet DEF IInv, RecordOK

\* The records are as they were, and the operator is not at a record.
LEMMA MigrationRests ==
  ASSUME IInv, UNCHANGED record, pc'["operator"] \notin Migrating
  PROVE  RecordOK' /\ OldSaved'
  BY DEF IInv, RecordOK, OldSaved, Migrating

\* A step of the operator's program leads to its next one or ends it.
LEMMA Moves ==
  ASSUME PcOK, NEW step \in Step, To(step) \/ Hold
  PROVE  PcOK' /\ pc'["operator"] \in {step, "idle"}
  <1>1. "idle" \in Step /\ "operator" \in Actor
    BY DEF Step, Actor
  <1>2. PICK s \in {step, "idle"} : pc' = [pc EXCEPT !["operator"] = s]
    BY DEF To, Hold
  <1>3. QED
    BY <1>1, <1>2 DEF PcOK

\* Packages, the handoff and the curator.
LEMMA LibrarySteps ==
  ASSUME IInv, StartIngest \/ \E p \in Package : StartItem(p) \/ Close(p)
  PROVE  IInv'
  <1>1. ASSUME NEW P \in SUBSET Package, Rebuilt(P)
        PROVE  RecordOK' /\ \A p \in Package : record'[p] = "old" => record[p] = "old"
    BY <1>1 DEF Rebuilt, IInv, RecordOK
  <1>2. CASE StartIngest
    <2>1. PcOK' /\ pc'["operator"] = pc["operator"]
      BY <1>2 DEF IInv, PcOK, StartIngest, Goto, Actor, Step
    <2>2. RecordOK' /\ \A p \in Package : record'[p] = "old" => record[p] = "old"
      BY <1>1, <1>2 DEF StartIngest
    <2>3. QED
      BY <1>2, <2>1, <2>2, Quiet DEF StartIngest, candidates, bridge
  <1>3. ASSUME NEW p \in Package, StartItem(p) PROVE IInv'
    <2>1. PcOK' /\ pc'["operator"] = "handoff"
      BY <1>3 DEF IInv, PcOK, StartItem, Goto, Actor, Step
    <2>2. RecordOK' /\ \A q \in Package : record'[q] = "old" => record[q] = "old"
      BY <1>1, <1>3 DEF StartItem, Processed, IInv, RecordOK
    <2>3. QED
      BY <1>3, <2>1, <2>2, Quiet DEF StartItem, candidates, AfterBound, Migrating
  <1>4. ASSUME NEW p \in Package, Close(p) PROVE IInv'
    BY <1>4, Outside DEF Close, candidates, bridge, IInv, PcOK
  <1>5. QED
    BY <1>2, <1>3, <1>4

\* The writing of envelopes and index, by either program.
LEMMA StageSteps ==
  ASSUME IInv, NEW a \in Actor, Stage(a) \/ Die(a)
  PROVE  IInv'
  <1>1. PcOK
    BY DEF IInv
  <1>2. CASE Refresh(a)
    <2>1. pc' = [pc EXCEPT ![a] = "stage"]
      BY <1>2 DEF Refresh
    <2>2. PcOK' /\ (pc'["operator"] = pc["operator"] \/ pc'["operator"] = "stage")
      BY <1>1, <2>1 DEF PcOK, Actor, Step
    <2>3. QED
      BY <1>2, <2>2, Outside DEF Refresh, candidates, bridge, AfterBound, Migrating
  <1>3. CASE ReadHandoff(a)
    <2>1. PcOK' /\ (pc'["operator"] = pc["operator"] \/ pc'["operator"] = "next")
      BY <1>1, <1>3 DEF PcOK, ReadHandoff, Goto, Actor, Step
    <2>2. QED
      BY <1>3, <2>1, Outside DEF ReadHandoff, candidates, library, bridge, AfterBound, Migrating
  <1>4. CASE \E x \in todo[a] : MakeEnvelope(a, x)
    <2>1. pc' = pc \/ pc' = [pc EXCEPT ![a] = "write"]
      BY <1>4 DEF MakeEnvelope
    <2>2. PcOK'
      BY <1>1, <2>1 DEF PcOK, Step
    <2>3. pc'["operator"] = pc["operator"] \/ pc'["operator"] = "write"
      BY <1>1, <2>1 DEF PcOK, Actor
    <2>4. QED
      BY <1>4, <2>2, <2>3, Outside DEF MakeEnvelope, candidates, library, bridge, AfterBound,
         Migrating
  <1>5. CASE WriteEnvelope(a)
    <2>1. PcOK' /\ (pc'["operator"] = pc["operator"] \/ pc'["operator"] = "verify")
      BY <1>1, <1>5 DEF PcOK, WriteEnvelope, Goto, Actor, Step
    <2>2. QED
      BY <1>5, <2>1, Outside DEF WriteEnvelope, candidates, library, bridge, AfterBound, Migrating
  <1>6. CASE VerifyEnvelope(a)
    <2>1. \/ pc' = [pc EXCEPT ![a] = "next"] /\ UNCHANGED bridge
          \/ pc' = [pc EXCEPT ![a] = "idle"] /\ Forget(a)
      BY <1>6 DEF VerifyEnvelope
    <2>2. PcOK'
      BY <1>1, <2>1 DEF PcOK, Step
    <2>3. CASE a = "operator"
      <3>1. pc'["operator"] \in {"next", "idle"}
        BY <1>1, <2>1, <2>3 DEF PcOK, Actor
      <3>2. QED
        BY <1>6, <2>2, <3>1, Outside DEF VerifyEnvelope, candidates, library, AfterBound, Migrating
    <2>4. CASE a # "operator"
      <3>1. pc'["operator"] = pc["operator"]
        BY <1>1, <2>1, <2>4 DEF PcOK, Actor
      <3>2. UNCHANGED bridge
        BY <2>1, <2>4 DEF Forget
      <3>3. QED
        BY <1>6, <2>2, <3>1, <3>2, Outside DEF VerifyEnvelope, candidates, library, bridge
    <2>5. QED
      BY <2>3, <2>4
  <1>7. CASE WriteIndex(a)
    <2>1. PcOK' /\ (pc'["operator"] = pc["operator"] \/ pc'["operator"] = "verify index")
      BY <1>1, <1>7 DEF PcOK, WriteIndex, Goto, Actor, Step
    <2>2. QED
      BY <1>7, <2>1, Outside DEF WriteIndex, candidates, library, bridge, AfterBound, Migrating
  <1>8. CASE VerifyIndex(a)
    <2>1. \/ a = "operator" /\ pc' = [pc EXCEPT ![a] = "select"] /\ UNCHANGED bridge
          \/ pc' = [pc EXCEPT ![a] = "idle"] /\ Forget(a)
      BY <1>8 DEF VerifyIndex
    <2>2. PcOK'
      BY <1>1, <2>1 DEF PcOK, Step
    <2>3. ASSUME a = "operator" PROVE pc'["operator"] \in {"select", "idle"}
      BY <1>1, <2>1, <2>3 DEF PcOK, Actor
    <2>4. ASSUME a = "workflow"
          PROVE  pc'["operator"] = pc["operator"] /\ UNCHANGED bridge
      <3>1. Forget(a) /\ pc' = [pc EXCEPT ![a] = "idle"]
        BY <2>1, <2>4
      <3>2. pc'["operator"] = pc["operator"]
        BY <1>1, <3>1, <2>4 DEF PcOK, Actor
      <3>3. UNCHANGED bridge
        BY <3>1, <2>4 DEF Forget
      <3>4. QED
        BY <3>2, <3>3
    <2>5. \/ pc'["operator"] \in {"select", "idle"}
          \/ pc'["operator"] = pc["operator"] /\ UNCHANGED bridge
      BY <2>3, <2>4 DEF Actor
    <2>6. QED
      BY <1>8, <2>2, <2>5, Outside DEF VerifyIndex, candidates, library, bridge, AfterBound,
         Migrating
  <1>9. CASE Die(a)
    <2>1. PcOK'
      BY <1>1, <1>9 DEF PcOK, Die, Step
    <2>2. ASSUME a = "operator" PROVE pc'["operator"] = "idle"
      BY <1>1, <1>9, <2>2 DEF PcOK, Die, Actor
    <2>3. ASSUME a = "workflow"
          PROVE  pc'["operator"] = pc["operator"] /\ UNCHANGED bridge
      <3>1. pc'["operator"] = pc["operator"]
        BY <1>1, <1>9, <2>3 DEF PcOK, Die, Actor
      <3>2. UNCHANGED bridge
        BY <1>9, <2>3 DEF Die, Forget
      <3>3. QED
        BY <3>1, <3>2
    <2>4. \/ pc'["operator"] = "idle"
          \/ pc'["operator"] = pc["operator"] /\ UNCHANGED bridge
      BY <2>2, <2>3 DEF Actor
    <2>5. QED
      BY <1>9, <2>1, <2>4, Outside DEF Die, candidates, library, bridge, AfterBound, Migrating
  <1>10. QED
    BY <1>2, <1>3, <1>4, <1>5, <1>6, <1>7, <1>8, <1>9 DEF Stage

\* The plans.
LEMMA PlanSteps ==
  ASSUME IInv, StartPlans \/ EndPlans \/ \E x \in todo["operator"] : PlanItem(x)
  PROVE  IInv'
  <1>1. CASE StartPlans
    <2>1. PcOK' /\ pc'["operator"] = "plan"
      BY <1>1 DEF IInv, PcOK, StartPlans, Goto, Actor, Step
    <2>2. QED
      BY <1>1, <2>1, Outside DEF StartPlans, candidates, library, AfterBound, Migrating
  <1>2. CASE EndPlans
    <2>1. PcOK' /\ pc'["operator"] = "idle"
      BY <1>2 DEF IInv, PcOK, EndPlans, Goto, Actor, Step
    <2>2. QED
      BY <1>2, <2>1, Outside DEF EndPlans, candidates, library, AfterBound, Migrating
  <1>3. CASE \E x \in todo["operator"] : PlanItem(x)
    BY <1>3, Outside DEF PlanItem, library, bridge, IInv, PcOK
  <1>4. QED
    BY <1>1, <1>2, <1>3

-----------------------------------------------------------------------------
(* The bridge.                                                              *)

\* Index, envelope and summary are compared before anything else is done.
LEMMA BindSteps ==
  ASSUME IInv,
         \/ \E p \in Package : StartBridge(p)
         \/ Select \/ ReadEnvelope \/ ReadEvidence
  PROVE  IInv'
  <1>1. PcOK
    BY DEF IInv
  <1>2. CASE \E p \in Package : StartBridge(p)
    <2>1. PcOK' /\ pc'["operator"] \in {"select", "idle"}
      BY <1>1, <1>2, Moves DEF StartBridge, Step
    <2>2. QED
      BY <1>2, <2>1, Outside DEF StartBridge, candidates, library, AfterBound, Migrating
  <1>3. CASE Select
    <2>1. PcOK' /\ pc'["operator"] \in {"envelope", "idle"}
      BY <1>1, <1>3, Moves DEF Select, Step
    <2>2. QED
      BY <1>3, <2>1, Outside DEF Select, candidates, library, AfterBound, Migrating
  <1>4. CASE ReadEnvelope
    <2>1. PcOK' /\ pc'["operator"] \in {"evidence", "idle"}
      BY <1>1, <1>4, Moves DEF ReadEnvelope, Step
    <2>2. QED
      BY <1>4, <2>1, Outside DEF ReadEnvelope, candidates, library, AfterBound, Migrating
  <1>5. CASE ReadEvidence
    <2>1. UNCHANGED <<queue, receipts, created, lost, misread, record, backups>>
      BY <1>5 DEF ReadEvidence, candidates, library
    <2>2. BoundToEvidence' /\ CreatedKept'
      BY <2>1 DEF IInv, BoundToEvidence, CreatedKept
    <2>3. CASE Bound /\ To("receipt") /\ UNCHANGED bridge
      <3>1. PcOK' /\ pc'["operator"] \in {"receipt", "idle"}
        BY <1>1, <2>3, Moves DEF Step
      <3>2. basis' = item'
        BY <2>3 DEF Bound, bridge
      <3>3. RecordOK' /\ OldSaved'
        BY <2>1, <3>1, MigrationRests DEF Migrating
      <3>4. QED
        BY <2>2, <3>1, <3>2, <3>3 DEF IInv, BasisBound, NoReceiptYet, BeforeCreate, AfterBound
    <2>4. CASE Hold
      <3>1. PcOK' /\ pc'["operator"] = "idle"
        BY <1>1, <2>4 DEF Hold, PcOK, Actor, Step
      <3>2. QED
        BY <2>1, <3>1, Outside DEF AfterBound, Migrating
    <2>5. QED
      BY <1>5, <2>3, <2>4 DEF ReadEvidence
  <1>6. QED
    BY <1>2, <1>3, <1>4, <1>5

\* A check leads on with what was compared, or holds the package.
LEMMA CheckStep ==
  ASSUME IInv, NEW from \in BeforeCreate, NEW to \in BeforeCreate, Check(from, to)
  PROVE  IInv'
  <1>1. PcOK /\ pc["operator"] = from
    BY DEF IInv, Check, At
  <1>2. UNCHANGED <<queue, receipts, created, lost, misread, record, backups>>
    BY DEF Check, candidates, library
  <1>3. CASE To(to) /\ UNCHANGED bridge
    <2>1. PcOK' /\ pc'["operator"] \in {to, "idle"}
      BY <1>1, <1>3, Moves DEF Step, BeforeCreate, AfterBound
    <2>2. basis' = item' /\ (item' \notin receipts' \/ misread')
      BY <1>1, <1>2, <1>3 DEF IInv, BasisBound, NoReceiptYet, BeforeCreate, bridge
    <2>3. BoundToEvidence' /\ CreatedKept'
      BY <1>2 DEF IInv, BoundToEvidence, CreatedKept
    <2>4. RecordOK' /\ OldSaved'
      BY <1>2, <2>1, MigrationRests DEF Migrating, BeforeCreate, AfterBound
    <2>5. QED
      BY <2>1, <2>2, <2>3, <2>4 DEF IInv, BasisBound, NoReceiptYet
  <1>4. CASE Hold
    <2>1. PcOK' /\ pc'["operator"] = "idle"
      BY <1>1, <1>4 DEF Hold, PcOK, Actor, Step
    <2>2. QED
      BY <1>2, <2>1, Outside DEF AfterBound, Migrating
  <1>5. QED
    BY <1>3, <1>4 DEF Check

LEMMA CheckSteps ==
  ASSUME IInv, AssessEvidence \/ VerifySource \/ CallModel \/ ValidatePayload \/ Render
  PROVE  IInv'
  <1>1. {"assess", "source", "ask", "validate", "render", "create"} \subseteq BeforeCreate
    BY DEF BeforeCreate, AfterBound
  <1>2. QED
    BY <1>1, CheckStep DEF AssessEvidence, VerifySource, CallModel, ValidatePayload, Render

\* Looking for a receipt and for a candidate: failed reads show in misread.
LEMMA ReadSteps ==
  ASSUME IInv, ReadReceipt \/ ReadExisting
  PROVE  IInv'
  <1>1. PcOK
    BY DEF IInv
  <1>2. UNCHANGED <<queue, receipts, created, lost, record>> /\ (misread => misread')
    BY DEF ReadReceipt, ReadExisting, candidates, library
  <1>3. BoundToEvidence' /\ CreatedKept'
    BY <1>2 DEF IInv, BoundToEvidence, CreatedKept
  <1>4. CASE Hold
    <2>1. PcOK' /\ pc'["operator"] = "idle"
      BY <1>1, <1>4 DEF Hold, PcOK, Actor, Step
    <2>2. RecordOK' /\ OldSaved'
      BY <1>2, <2>1, MigrationRests DEF Migrating
    <2>3. QED
      BY <1>3, <2>1, <2>2 DEF IInv, BasisBound, NoReceiptYet, BeforeCreate, AfterBound
  <1>5. CASE ReadReceipt /\ To("existing") /\ UNCHANGED bridge
    <2>1. PcOK' /\ pc'["operator"] \in {"existing", "idle"} /\ basis = item
      BY <1>1, <1>5, Moves DEF ReadReceipt, At, IInv, BasisBound, AfterBound, Step
    <2>2. ~Hold
      BY <1>1, <1>5 DEF Hold, To, PcOK, Actor
    <2>3. item \notin receipts \/ misread'
      BY <1>5, <2>2 DEF ReadReceipt
    <2>4. RecordOK' /\ OldSaved'
      BY <1>2, <2>1, MigrationRests DEF Migrating
    <2>5. QED
      BY <1>2, <1>3, <1>5, <2>1, <2>3, <2>4 DEF IInv, BasisBound, NoReceiptYet, bridge
  <1>6. CASE ReadExisting
    <2>1. PcOK' /\ pc'["operator"] \in {"seal", "assess", "idle"}
      BY <1>1, <1>6, Moves DEF ReadExisting, Step
    <2>2. basis = item /\ (item \notin receipts \/ misread) /\ UNCHANGED bridge
      BY <1>6 DEF ReadExisting, At, IInv, BasisBound, NoReceiptYet, BeforeCreate, AfterBound
    <2>3. RecordOK' /\ OldSaved'
      BY <1>2, <2>1, MigrationRests DEF Migrating
    <2>4. QED
      BY <1>2, <1>3, <2>1, <2>2, <2>3 DEF IInv, BasisBound, NoReceiptYet, bridge
  <1>7. QED
    BY <1>4, <1>5, <1>6 DEF ReadReceipt

\* The candidate is created of the envelope that was compared.
LEMMA CreateStep ==
  ASSUME IInv, Create
  PROVE  IInv'
  <1>1. PcOK /\ basis = item /\ (item \notin receipts \/ misread)
    BY DEF Create, At, IInv, BasisBound, NoReceiptYet, BeforeCreate, AfterBound
  <1>2. UNCHANGED <<receipts, lost, misread, record, backups>>
    BY DEF Create, library
  <1>3. CASE To("seal") /\ UNCHANGED bridge
    <2>1. PcOK' /\ pc'["operator"] \in {"seal", "idle"}
      BY <1>1, <1>3, Moves DEF Step
    <2>2. BasisBound' /\ NoReceiptYet'
      BY <1>1, <1>3, <2>1 DEF BasisBound, NoReceiptYet, BeforeCreate, AfterBound, bridge
    <2>3. \/ UNCHANGED <<queue, created>>
          \/ /\ queue' = queue \cup {item}
             /\ created' = created \cup {[key |-> item, basis |-> basis]}
      BY DEF Create
    <2>4. BoundToEvidence' /\ CreatedKept'
      BY <1>1, <1>2, <2>3 DEF IInv, BoundToEvidence, CreatedKept
    <2>5. RecordOK' /\ OldSaved'
      BY <1>2, <2>1, MigrationRests DEF Migrating
    <2>6. QED
      BY <2>1, <2>2, <2>4, <2>5 DEF IInv
  <1>4. CASE UNCHANGED <<queue, created>> /\ Hold
    <2>1. PcOK' /\ pc'["operator"] = "idle"
      BY <1>1, <1>4 DEF Hold, PcOK, Actor, Step
    <2>2. QED
      BY <1>2, <1>4, <2>1, Outside DEF AfterBound, Migrating
  <1>5. QED
    BY <1>3, <1>4 DEF Create

\* The receipt, and the candidate pipeline.
LEMMA SettleSteps ==
  ASSUME IInv, Seal \/ \E key \in queue : Take(key)
  PROVE  IInv'
  <1>1. CASE Seal
    <2>1. PcOK' /\ pc'["operator"] = "idle"
      BY <1>1 DEF Seal, Hold, IInv, PcOK, Actor, Step
    <2>2. BoundToEvidence' /\ CreatedKept'
      BY <1>1 DEF Seal, IInv, BoundToEvidence, CreatedKept
    <2>3. RecordOK' /\ OldSaved'
      BY <1>1, <2>1, MigrationRests DEF Seal, library, Migrating
    <2>4. QED
      BY <2>1, <2>2, <2>3 DEF IInv, BasisBound, NoReceiptYet, BeforeCreate, AfterBound
  <1>2. CASE \E key \in queue : Take(key)
    <2>1. UNCHANGED <<pc, receipts, created, misread, record, backups>> /\ UNCHANGED bridge
      BY <1>2 DEF Take, library
    <2>2. CreatedKept'
      BY <1>2 DEF Take, IInv, CreatedKept
    <2>3. QED
      BY <2>1, <2>2 DEF IInv, PcOK, RecordOK, BoundToEvidence, BasisBound, NoReceiptYet,
         OldSaved, bridge
  <1>3. QED
    BY <1>1, <1>2

-----------------------------------------------------------------------------
(* The migrations.                                                          *)

LEMMA RebuildSteps ==
  ASSUME IInv,
         \/ StartRebuild \/ StartBackfill \/ EndMigration
         \/ \E p \in batch : RebuildEvidence(p)
  PROVE  IInv'
  <1>1. PcOK
    BY DEF IInv
  <1>2. CASE StartRebuild
    <2>1. PcOK' /\ pc'["operator"] \in {"rebuild", "idle"}
      BY <1>1, <1>2, Moves DEF StartRebuild, Step
    <2>2. QED
      BY <1>2, <2>1, Outside DEF StartRebuild, candidates, library, AfterBound, Migrating
  <1>3. CASE StartBackfill
    <2>1. PcOK' /\ pc'["operator"] \in {"audit", "idle"}
      BY <1>1, <1>3, Moves DEF StartBackfill, Step
    <2>2. QED
      BY <1>3, <2>1, Outside DEF StartBackfill, candidates, library, AfterBound, Migrating
  <1>4. CASE EndMigration
    <2>1. PcOK' /\ pc'["operator"] = "idle"
      BY <1>1, <1>4 DEF EndMigration, Hold, PcOK, Actor, Step
    <2>2. QED
      BY <1>4, <2>1, Outside DEF EndMigration, candidates, library, AfterBound, Migrating
  <1>5. CASE \E p \in batch : RebuildEvidence(p)
    BY <1>5, Outside DEF RebuildEvidence, candidates, IInv, PcOK
  <1>6. QED
    BY <1>2, <1>3, <1>4, <1>5

\* An old record that was read goes through Backup; one that was not read counts as a
\* failed read.
LEMMA AuditStep ==
  ASSUME IInv, NEW p \in batch, Audit(p)
  PROVE  IInv'
  <1>1. UNCHANGED <<queue, receipts, created, lost, record, backups>> /\ (misread => misread')
    BY DEF Audit, ReadRecord, candidates, library
  <1>2. BoundToEvidence' /\ CreatedKept'
    BY <1>1 DEF IInv, BoundToEvidence, CreatedKept
  <1>3. RecordOK'
    BY <1>1 DEF IInv, RecordOK
  <1>4. CASE UNCHANGED subject /\ To("audit")
    <2>1. PcOK' /\ pc'["operator"] \in {"audit", "idle"}
      BY <1>4, Moves DEF IInv, Step
    <2>2. QED
      BY <1>2, <1>3, <2>1 DEF IInv, BasisBound, NoReceiptYet, OldSaved,
                              BeforeCreate, AfterBound, Migrating
  <1>5. CASE /\ seen' \notin {"current", "backfilled"} /\ subject' = p
             /\ To(IF seen' = "old" THEN "backup" ELSE "migrate")
    <2>1. CASE seen' = "old"
      <3>1. PcOK' /\ pc'["operator"] \in {"backup", "idle"}
        BY <1>5, <2>1, Moves DEF IInv, Step
      <3>2. QED
        BY <1>2, <1>3, <1>5, <3>1 DEF IInv, BasisBound, NoReceiptYet, OldSaved, BeforeCreate,
           AfterBound, Migrating
    <2>2. CASE seen' # "old"
      <3>1. PcOK' /\ pc'["operator"] \in {"migrate", "idle"}
        BY <1>5, <2>2, Moves DEF IInv, Step
      <3>2. record[p] = "old" => misread'
        BY <2>2 DEF Audit, ReadRecord
      <3>3. QED
        BY <1>1, <1>2, <1>3, <1>5, <3>1, <3>2 DEF IInv, BasisBound, NoReceiptYet, OldSaved,
           BeforeCreate, AfterBound, Migrating
    <2>3. QED
      BY <2>1, <2>2
  <1>6. QED
    BY <1>4, <1>5 DEF Audit

LEMMA RecordSteps ==
  ASSUME IInv, Backup \/ Migrate
  PROVE  IInv'
  <1>1. PcOK /\ RecordOK /\ UNCHANGED <<queue, receipts, created, lost, misread>>
    BY DEF IInv, Backup, Migrate, candidates
  <1>2. BoundToEvidence' /\ CreatedKept'
    BY <1>1 DEF IInv, BoundToEvidence, CreatedKept
  <1>3. CASE Backup
    <2>1. PcOK' /\ pc'["operator"] \in {"migrate", "idle"} /\ pc["operator"] = "backup"
      BY <1>1, <1>3, Moves DEF Backup, At, Step
    <2>2. subject' \in backups' /\ RecordOK'
      BY <1>1, <1>3, <2>1 DEF Backup, RecordOK, bridge
    <2>3. QED
      BY <1>2, <2>1, <2>2 DEF IInv, BasisBound, NoReceiptYet, OldSaved,
                              BeforeCreate, AfterBound, Migrating
  <1>4. CASE Migrate
    <2>1. PcOK' /\ pc'["operator"] \in {"audit", "idle"}
      BY <1>1, <1>4, Moves DEF Migrate, Step
    <2>2. RecordOK'
      BY <1>1, <1>4 DEF Migrate, RecordOK
    <2>3. QED
      BY <1>2, <2>1, <2>2 DEF IInv, BasisBound, NoReceiptYet, OldSaved,
                              BeforeCreate, AfterBound, Migrating
  <1>5. QED
    BY <1>3, <1>4

LEMMA Inductive == IInv /\ [Next]_vars => IInv'
  <1> SUFFICES ASSUME IInv, [Next]_vars PROVE IInv'
    OBVIOUS
  <1>1. CASE StartIngest \/ \E p \in Package : StartItem(p) \/ StartBridge(p) \/ Close(p)
    BY <1>1, LibrarySteps, BindSteps
  <1>2. CASE \E a \in Actor : Stage(a) \/ Die(a)
    BY <1>2, StageSteps
  <1>3. CASE StartPlans \/ EndPlans \/ \E x \in todo["operator"] : PlanItem(x)
    BY <1>3, PlanSteps
  <1>4. CASE Bridge
    BY <1>4, BindSteps, CheckSteps, ReadSteps, CreateStep, SettleSteps DEF Bridge
  <1>5. CASE \E key \in queue : Take(key)
    BY <1>5, SettleSteps
  <1>6. CASE StartRebuild \/ StartBackfill \/ EndMigration \/ Backup \/ Migrate
    BY <1>6, RebuildSteps, RecordSteps
  <1>7. CASE \E p \in batch : RebuildEvidence(p) \/ Audit(p)
    BY <1>7, RebuildSteps, AuditStep
  <1>8. CASE UNCHANGED vars
    BY <1>8 DEF vars, library, staged, candidates, stager, bridge, IInv, PcOK,
                RecordOK, BoundToEvidence, BasisBound, CreatedKept, NoReceiptYet, OldSaved
  <1>9. QED
    BY <1>1, <1>2, <1>3, <1>4, <1>5, <1>6, <1>7, <1>8 DEF Next

THEOREM Always == Spec => []IInv
  <1>1. QED
    BY InitInv, Inductive, PTL DEF Spec

\* A candidate is made of the evidence it names, although two programs rewrite
\* envelopes and index at any time.
THEOREM CandidateBound == Spec => []BoundToEvidence
  <1>1. IInv => BoundToEvidence
    BY DEF IInv
  <1>2. QED
    BY <1>1, Always, PTL

\* No evidence is made a candidate twice, unless its first candidate was taken away
\* before a stopped run had its receipt written, or a read failed.
THEOREM CreatedOnce == Spec => CandidateOnce
  <1>1. IInv /\ [Next]_vars =>
          [\A key \in queue' \ queue :
             key \in {c.key : c \in created} => key \in lost \/ misread]_vars
    <2> SUFFICES ASSUME IInv, Next, NEW key \in queue' \ queue,
                        key \in {c.key : c \in created}
                 PROVE  key \in lost \/ misread
      OBVIOUS
    <2>1. Create
      BY DEF Next, StartIngest, StartItem, StartBridge, Close, Stage, Refresh, ReadHandoff,
             MakeEnvelope, WriteEnvelope, VerifyEnvelope, WriteIndex, VerifyIndex, Die,
             StartPlans, PlanItem, EndPlans, Bridge, Select, ReadEnvelope, ReadEvidence,
             ReadReceipt, ReadExisting, AssessEvidence, VerifySource, CallModel,
             ValidatePayload, Render, Check, Seal, Take, candidates, StartRebuild,
             RebuildEvidence, EndMigration, StartBackfill, Audit, Backup, Migrate
    <2>2. key = item /\ (item \notin receipts \/ misread)
      BY <2>1 DEF Create, At, IInv, NoReceiptYet, BeforeCreate, AfterBound
    <2>3. key \in queue \cup receipts \cup lost
      BY DEF IInv, CreatedKept
    <2>4. QED
      BY <2>2, <2>3
  <1>2. QED
    BY <1>1, Always, PTL DEF Spec, CandidateOnce

\* An old record is put aside before the migration replaces it, unless it could not be
\* read.
THEOREM OldRecordKept == Spec => OldKept
  <1>1. IInv /\ [Next]_vars =>
          [\A p \in Package :
             record[p] = "old" /\ record'[p] = "backfilled" => p \in backups \/ misread]_vars
    <2> SUFFICES ASSUME IInv, Next, NEW p \in Package,
                        record[p] = "old", record'[p] = "backfilled"
                 PROVE  p \in backups \/ misread
      OBVIOUS
    <2>1. RecordOK
      BY DEF IInv
    <2>2. record' # record
      OBVIOUS
    <2>3. ~ \E P \in SUBSET Package : Rebuilt(P)
      BY DEF Rebuilt
    <2>4. ~StartIngest /\ ~ \E q \in Package : StartItem(q) \/ StartBridge(q) \/ Close(q)
      BY <2>2, <2>3 DEF StartIngest, StartItem, Processed, StartBridge, Close, library
    <2>5. Migrate
      BY <2>2, <2>4
      DEF Next, Stage, Refresh, ReadHandoff, MakeEnvelope, WriteEnvelope, VerifyEnvelope,
          WriteIndex, VerifyIndex, Die, StartPlans, PlanItem, EndPlans, Bridge, Select,
          ReadEnvelope, ReadEvidence, ReadReceipt, ReadExisting, AssessEvidence,
          VerifySource, CallModel, ValidatePayload, Render, Check, Create, Seal, Take,
          StartRebuild, RebuildEvidence, EndMigration, StartBackfill, Audit, Backup, library
    <2>6. p = subject /\ pc["operator"] = "migrate"
      BY <2>1, <2>5 DEF Migrate, At, RecordOK
    <2>7. QED
      BY <2>6 DEF IInv, OldSaved
  <1>2. QED
    BY <1>1, Always, PTL DEF Spec, OldKept

---------------------------------------------------------------------------
(* CandidateCycle *)

Held == Text \cup {NoText}

\* What every review, stored or about to be stored, must rest on.
RestsOn(decision, t) == decision \in ReadyDecisions => t \in supported

\* What the semantic batch may decide: of a text the index lists.
Decided ==
  {d \in [text : Text, review : [decision : Decision, evidence : Evidence, sources : Nat]] :
     NameOf(indexed, d.text) # NoText /\ RestsOn(d.review.decision, d.text)}

FilesTyped ==
  /\ files \in [Folder -> [Name -> Held]]
  /\ indexed \in [Name -> Held] /\ proposals \in [Name -> Held]
  /\ reviews = [t \in Text |-> reviews[t]]
  /\ puts \in Nat

\* A cycle before its plan and after its resolution has nothing in hand; in between it
\* has texts, then decisions.
CycleOf(c, decided) ==
  /\ c = [at |-> c.at, mode |-> c.mode, todo |-> c.todo, decided |-> c.decided,
          failed |-> c.failed]
  /\ c.at \in {"idle", "queue", "validate", "plan", "semantic", "store", "resolve", "move",
               "delete", "finalize"}
  /\ c.at \in {"idle", "queue", "validate", "plan", "finalize"} =>
       c.todo = <<>> /\ c.decided = <<>>
  /\ c.at = "semantic" => c.todo \in Seq(Text) /\ c.todo # <<>>
  /\ c.at = "store" => c.decided # <<>>
  /\ c.at \in {"store", "resolve", "move", "delete"} =>
       c.todo \in Seq(decided) /\ c.todo # <<>>
  /\ c.decided \in Seq(decided)

CycleItems == CycleOf(cycle, Decided)

ReviewsRest == \A t \in Text : RestsOn(reviews[t].decision, t)

EnvelopesTyped == envelopes \subseteq [name : Name, text : Text \cap DOMAIN Children]

SplitTyped ==
  /\ split = [at |-> split.at, name |-> split.name, text |-> split.text,
              todo |-> split.todo, archived |-> split.archived]
  /\ split.at = "idle" => split.todo = {}
  /\ split.at # "idle" =>
       /\ split.at = "children" /\ split.name \in Name
       /\ split.text \in Text \cap DOMAIN Children /\ split.todo \subseteq Children[split.text]

CycleInv ==
  FilesTyped /\ CycleItems /\ ReviewsRest /\ EnvelopesTyped /\ SplitTyped

\* Nothing is where the cycle is about to move a file to.
MoveFree == cycle.at = "move" => There = NoText

\* What the cycle is about to delete it has left elsewhere.
DeleteCopied ==
  cycle.at = "delete" =>
    /\ There = Current.text \/ Current.text \in published
    /\ Chat[ItemName] \in {NoText, Current.text}

\* Nothing is where the split is about to write, and what it is about to delete is in
\* the archive.
SplitFree ==
  /\ \A c \in split.todo : Chat[c[1]] = NoText
  /\ split.at # "idle" /\ ~split.archived => \A c \in split.todo : c[1] # split.name
SplitCopied ==
  split.at # "idle" /\ ~split.archived /\ Archive[split.name] # NoText =>
    Archive[split.name] = split.text /\ Chat[split.name] \in {NoText, split.text}

TextsInv == MoveFree /\ DeleteCopied /\ SplitFree /\ SplitCopied

\* Texts out of the owner's reach.
Kept == ({files[x][n] : x \in Folder \ {"CHAT"}, n \in Name} \ {NoText}) \cup published

\* A child of the plan that was written is under its name, or the cycle has taken it.
ChildrenKept ==
  split.at # "idle" =>
    \A c \in Children[split.text] \ split.todo : Chat[c[1]] = c[2] \/ c[2] \in Kept

\* No read of a destination fails, and no file comes between a check and the deletion
\* or the write it allows.
ChecksHold == "misread" \notin Perils /\ "race" \notin Perils

\* The owner puts nothing under the name of a child.
OwnerLeavesChildren ==
  \A t \in DOMAIN Children : \A c \in Children[t], f \in OwnerFiles : f[1] # c[1]

\* Names are numbers from 1 on, and there are finitely many.
LEMMA NameFacts == Name \subseteq Nat /\ NoText \notin Name /\ IsFiniteSet(Name)
  BY CycleAssumption, FS_Interval DEF Name, NoText

\* The numbers below a bound have no descending chain.
LEMMA LessWF == IsWellFoundedOn({ss \in Nat \X Nat : ss[1] < ss[2]}, Nat)
  BY NatLessThanWellFounded, Zenon DEF OpToRel

\* A set of names has a last one.
LEMMA LastName ==
  ASSUME NEW S, S \subseteq Name, S # {}
  PROVE  \E n \in S : \A m \in S : m <= n
  <1> DEFINE T == {Names - n : n \in S}
  <1>1. T \subseteq Nat /\ T # {}
    <2>1. \A n \in S : Names - n \in Nat
      BY CycleAssumption DEF Name
    <2>2. PICK n \in S : TRUE
      OBVIOUS
    <2>3. Names - n \in T
      BY <2>2
    <2> QED
      BY <2>1, <2>3
  <1> DEFINE R == {ss \in Nat \X Nat : ss[1] < ss[2]}
  <1>2. PICK x \in T : \A y \in T : ~(<<y, x>> \in R)
    <2> HIDE DEF R, T
    <2>1. IsWellFoundedOn(R, Nat)
      BY LessWF DEF R
    <2> QED
      BY <1>1, <2>1, WFMin
  <1>3. PICK n \in S : x = Names - n
    BY DEF T
  <1>4. ASSUME NEW m \in S PROVE m <= n
    <2>1. Names - m \in T /\ Names - m \in Nat /\ x \in Nat
      BY <1>1
    <2>2. ~(Names - m < x)
      BY <2>1, <1>2
    <2> QED
      BY <2>1, <2>2, <1>3, CycleAssumption DEF Name
  <1> QED
    BY <1>4

\* A document that has a name for a text has it under this name.
LEMMA NameOfText ==
  ASSUME NEW document, NEW t, NameOf(document, t) # NoText
  PROVE  NameOf(document, t) \in Name /\ document[NameOf(document, t)] = t
  <1> DEFINE S == {n \in Name : document[n] = t}
  <1>1. S # {}
    BY DEF NameOf
  <1>2. \E n \in S : \A m \in S : m <= n
    BY <1>1, LastName
  <1>3. NameOf(document, t) = CHOOSE n \in S : \A m \in S : m <= n
    BY <1>1 DEF NameOf
  <1>4. NameOf(document, t) \in S
    BY <1>2, <1>3
  <1> QED
    BY <1>4

\* How the sets of decisions lie in one another.
LEMMA DecisionFacts ==
  /\ Promotions \subseteq ReadyDecisions /\ ReadyDecisions \subseteq Decision
  /\ "NEEDS_REVIEW" \in Decision \ ReadyDecisions
  /\ "SPLIT_REQUIRED" \in Decision \ ReadyDecisions
  /\ "NONE" \notin Decision /\ "LOW" \in Evidence
  BY DEF Promotions, ReadyDecisions, Decision, Strong, Evidence

\* The policy keeps the form of an answer, and a promotion that passes it rests on a
\* source and on enough evidence.
LEMMA PolicyKeeps ==
  ASSUME NEW a \in Answer, a.decision # "NONE"
  PROVE  /\ Policy(a) \in Answer /\ Policy(a).decision # "NONE"
         /\ Policy(a).subjects = a.subjects
         /\ Policy(a).decision \in ReadyDecisions => Policy(a) = a
         /\ Policy(a).decision \in Promotions => a.sources > 0 /\ a.evidence \in Strong
  <1> DEFINE low == [a EXCEPT !.decision = "NEEDS_REVIEW", !.evidence = "LOW"]
             doubt == [a EXCEPT !.decision = "NEEDS_REVIEW"]
  <1>1. Policy(a) \in {a, low, doubt}
    BY DEF Policy
  <1>2. Policy(a) = a =>
          (a.decision \in Promotions => a.sources # 0 /\ a.evidence \in Strong)
    <2> SUFFICES ASSUME a.decision \in Promotions, ~(a.sources # 0 /\ a.evidence \in Strong)
                 PROVE  Policy(a) # a
      OBVIOUS
    <2>1. /\ a.decision # "NEEDS_REVIEW"
          /\ low.decision = "NEEDS_REVIEW" /\ doubt.decision = "NEEDS_REVIEW"
      BY DEF Promotions, Answer
    <2>2. Policy(a) \in {low, doubt}
      BY DEF Policy, Answer
    <2> QED
      BY <2>1, <2>2
  <1>3. low \in Answer /\ doubt \in Answer /\ low.subjects = a.subjects
        /\ doubt.subjects = a.subjects /\ low.decision = "NEEDS_REVIEW"
        /\ doubt.decision = "NEEDS_REVIEW"
    BY DecisionFacts DEF Answer
  <1>4. a.sources \in Nat
    BY DEF Answer
  <1> HIDE DEF low, doubt
  <1> QED
    BY <1>1, <1>2, <1>3, <1>4, DecisionFacts

\* The scope audit keeps a sufficient answer or takes back its decision.
LEMMA AuditKeeps ==
  ASSUME NEW a \in Answer, a.decision # "NONE"
  PROVE  /\ Audited(a) \in Answer /\ Audited(a).decision # "NONE"
         /\ Audited(a).decision \in ReadyDecisions => Audited(a) = a
         /\ Audited(a).decision \in Promotions => a.subjects = 1
  <1> DEFINE low == [a EXCEPT !.decision = "NEEDS_REVIEW", !.evidence = "LOW"]
             broad == [a EXCEPT !.decision = "SPLIT_REQUIRED"]
  <1>1. Audited(a) \in {a, low, broad}
    BY DEF Audited
  <1>2. low \in Answer /\ broad \in Answer /\ low.decision = "NEEDS_REVIEW"
        /\ broad.decision = "SPLIT_REQUIRED"
    BY DecisionFacts DEF Answer
  <1>3. a.decision \in Promotions /\ a.subjects # 1 => Audited(a) \in {low, broad}
    <2>1. a.subjects \in Nat
      BY DEF Answer
    <2> QED
      BY <2>1 DEF Audited, AuditRead
  <1> HIDE DEF low, broad
  <1> QED
    BY <1>1, <1>2, <1>3, DecisionFacts

\* A review is a decision of the known ones, and one that makes a text ready rests on
\* an answer about this very text that suffices.
LEMMA ReviewingRests ==
  ASSUME NEW t, NEW text, NEW a \in Answer
  PROVE  /\ Reviewing(t, text, a) \in
              [decision : Decision, evidence : Evidence, sources : Nat]
         /\ Reviewing(t, text, a).decision \in ReadyDecisions => text = t /\ Sufficient(a)
  <1>1. CASE text # t \/ a.probed = 0 \/ ~ReviewRead(a)
    <2>1. Reviewing(t, text, a) = Fallback
      BY <1>1 DEF Reviewing
    <2> QED
      BY <2>1, DecisionFacts DEF Fallback
  <1>2. CASE text = t /\ a.probed # 0 /\ ReviewRead(a)
    <2> DEFINE p == Policy(a)
               f == Audited(p)
    <2>1. Reviewing(t, text, a) =
            [decision |-> f.decision, evidence |-> f.evidence, sources |-> a.sources]
      BY <1>2 DEF Reviewing, ReviewOf
    <2>2. a.decision # "NONE"
      BY <1>2 DEF ReviewRead
    <2>3. /\ p \in Answer /\ p.decision # "NONE"
          /\ p.decision \in ReadyDecisions => p = a
          /\ p.decision \in Promotions => a.sources > 0 /\ a.evidence \in Strong
      BY <2>2, PolicyKeeps
    <2>4. /\ f \in Answer /\ f.decision # "NONE"
          /\ f.decision \in ReadyDecisions => f = p
          /\ f.decision \in Promotions => p.subjects = 1
      BY <2>3, AuditKeeps
    <2>5. f.decision \in Decision /\ f.evidence \in Evidence /\ a.sources \in Nat
      BY <2>4 DEF Answer
    <2>6. f.decision \in ReadyDecisions => f = a /\ Sufficient(a)
      <3>1. a.probed > 0
        BY <1>2 DEF Answer
      <3> QED
        BY <3>1, <2>3, <2>4, DecisionFacts DEF Sufficient
    <2> QED
      BY <2>1, <2>5, <2>6, <1>2
  <1> QED
    BY <1>1, <1>2

\* Head and tail of a sequence that is not empty.
LEMMA TailOf ==
  ASSUME NEW S, NEW s \in Seq(S), s # <<>>
  PROVE  /\ Head(s) \in S /\ Tail(s) \in Seq(S) /\ Len(s) \in Nat /\ Len(s) > 0
         /\ (Tail(s) = <<>>) <=> Len(s) <= 1
  BY EmptySeq, HeadTailProperties

LEMMA SeqGrows ==
  ASSUME NEW S, NEW T, S \subseteq T, NEW s \in Seq(S)
  PROVE  s \in Seq(T)
  OBVIOUS

\* The first n of a sequence are a sequence of the same kind.
LEMMA FirstOfTyped ==
  ASSUME NEW S, NEW q \in Seq(S), NEW n \in Nat
  PROVE  FirstOf(n, q) \in Seq(S)
  <1> DEFINE m == IF Len(q) < n THEN Len(q) ELSE n
  <1>1. Len(q) \in Nat /\ m \in Int /\ m <= Len(q)
    OBVIOUS
  <1>2. FirstOf(n, q) = SubSeq(q, 1, m)
    BY DEF FirstOf
  <1> HIDE DEF m
  <1>3. \A i \in 1..m : q[i] \in S
    <2> SUFFICES ASSUME NEW i \in 1..m PROVE q[i] \in S
      OBVIOUS
    <2>1. i \in 1..Len(q)
      BY <1>1
    <2> QED
      BY <2>1, ElementOfSeq
  <1> QED
    BY <1>1, <1>2, <1>3, SubSeqProperties

\* What is ready and what waits are finite sets.
LEMMA ReadyNamesFacts ==
  ASSUME FilesTyped
  PROVE  /\ ReadyNames(proposals) \subseteq Name
         /\ Cardinality(ReadyNames(proposals)) \in Nat
         /\ \A n \in ReadyNames(proposals) : proposals[n] \in Text
         /\ Waiting \subseteq Text /\ Cardinality(Waiting) \in Nat
  <1> DEFINE R == ReadyNames(proposals)
             T == {proposals[n] : n \in R}
  <1>1. R \subseteq Name /\ \A n \in R : proposals[n] \in Text
    BY DEF FilesTyped, ReadyNames, Held
  <1>2. IsFiniteSet(R)
    BY <1>1, NameFacts, FS_Subset
  <1>3. IsFiniteSet(T)
    <2> DEFINE f == [n \in R |-> proposals[n]]
    <2>1. f \in Surjection(R, T)
      BY DEF Surjection
    <2> QED
      BY <1>2, <2>1, FS_Surjection
  <1>4. Waiting \subseteq T
    BY DEF Waiting
  <1>5. IsFiniteSet(Waiting)
    BY <1>3, <1>4, FS_Subset
  <1>6. T \subseteq Text
    BY <1>1
  <1> HIDE DEF R, T
  <1>7. Cardinality(R) \in Nat /\ Cardinality(Waiting) \in Nat
    BY <1>2, <1>5, FS_CardinalityType
  <1> QED
    BY <1>1, <1>4, <1>6, <1>7 DEF R

\* The plan selects texts the validator has seen.
LEMMA SelectionsTyped ==
  ASSUME FilesTyped, NEW mode, NEW selected \in Selections(mode)
  PROVE  selected \in Seq(Text)
  <1>1. BatchSize \in Nat
    BY CycleAssumption
  <1>2. ASSUME NEW S, Cardinality(S) \in Nat, NEW s \in Listings(S)
        PROVE  s \in Seq(S) /\ DOMAIN s = 1..Cardinality(S) /\ s \in [1..Cardinality(S) -> S]
    BY <1>2 DEF Listings
  <1>3. CASE selected \in {FirstOf(BatchSize, [i \in DOMAIN s |-> proposals[s[i]]]) :
                             s \in Listings(ReadyNames(proposals))}
    <2>1. PICK s \in Listings(ReadyNames(proposals)) :
                 selected = FirstOf(BatchSize, [i \in DOMAIN s |-> proposals[s[i]]])
      BY <1>3
    <2> DEFINE k == Cardinality(ReadyNames(proposals))
               q == [i \in DOMAIN s |-> proposals[s[i]]]
    <2>2. k \in Nat /\ DOMAIN s = 1..k /\ s \in [1..k -> ReadyNames(proposals)]
      BY <1>2, ReadyNamesFacts
    <2>3. \A i \in 1..k : proposals[s[i]] \in Text
      BY <2>2, ReadyNamesFacts
    <2>4. q \in [1..k -> Text]
      BY <2>2, <2>3
    <2>5. q \in Seq(Text)
      BY <2>2, <2>4
    <2> QED
      BY <2>1, <2>5, <1>1, FirstOfTyped
  <1>4. CASE selected \in {FirstOf(BatchSize, s) : s \in Listings(Waiting)}
    <2>1. PICK s \in Listings(Waiting) : selected = FirstOf(BatchSize, s)
      BY <1>4
    <2>2. s \in Seq(Waiting)
      BY <1>2, ReadyNamesFacts
    <2>3. s \in Seq(Text)
      BY <2>2, ReadyNamesFacts, SeqGrows
    <2> QED
      BY <2>1, <2>3, <1>1, FirstOfTyped
  <1>5. CASE selected = <<>>
    BY <1>5
  <1> QED
    BY <1>3, <1>4, <1>5 DEF Selections

\* What the resolution has in hand has a name and a folder.
LEMMA CurrentFacts ==
  ASSUME CycleInv, cycle.at \in {"store", "resolve", "move", "delete"}
  PROVE  /\ Current \in Decided /\ Current.text \in Text
         /\ ItemName \in Name /\ indexed[ItemName] = Current.text
         /\ ItemFolder \in Folder \ {"CHAT", "SPLIT_PARENT"}
  <1>1. Current \in Decided
    <2>1. cycle.todo \in Seq(Decided) /\ cycle.todo # <<>>
      BY DEF CycleInv, CycleItems, CycleOf
    <2> QED
      BY <2>1, TailOf DEF Current
  <1>2. Current.text \in Text /\ NameOf(indexed, Current.text) # NoText
        /\ Current.review.decision \in Decision
    BY <1>1 DEF Decided
  <1>3. ItemFolder \in Folder \ {"CHAT", "SPLIT_PARENT"}
    BY <1>2 DEF ItemFolder, Destination, Decision, ReadyDecisions, Promotions, Folder, Bucket
  <1> QED
    BY <1>1, <1>2, <1>3, NameOfText DEF ItemName

\* A child still to be written is one of the plan that is applied.
LEMMA ChildFacts ==
  ASSUME CycleInv, NEW c \in split.todo
  PROVE  /\ split.at = "children" /\ c \in Children[split.text]
         /\ c[1] \in Name /\ c[2] \in Text
  <1>1. split.at # "idle"
    BY DEF CycleInv, SplitTyped
  <1>2. split.text \in DOMAIN Children /\ c \in Children[split.text] /\ split.at = "children"
    BY <1>1 DEF CycleInv, SplitTyped
  <1> QED
    BY <1>2, CycleAssumption

\* A place holds a text or nothing.
LEMMA HeldFacts == NoText \in Held /\ Text \subseteq Held /\ NoText \notin Text
  BY CycleAssumption DEF Held

\* Initially no cycle and no split has begun, and nothing was decided.
LEMMA CycleInitInv == CycleInit => CycleInv
  <1> SUFFICES ASSUME CycleInit PROVE CycleInv
    OBVIOUS
  <1>1. FilesTyped
    BY HeldFacts DEF CycleInit, FilesTyped, Empty
  <1>3. CycleItems
    <2>1. <<>> \in Seq(Decided)
      BY EmptySeq
    <2> QED
      BY <2>1 DEF CycleInit, CycleItems, CycleOf, NoCycle
  <1>4. ReviewsRest
    BY DecisionFacts DEF CycleInit, ReviewsRest, RestsOn
  <1>5. EnvelopesTyped /\ SplitTyped
    BY DEF CycleInit, EnvelopesTyped, SplitTyped, NoSplit
  <1> QED
    BY <1>1, <1>3, <1>4, <1>5 DEF CycleInv

\* The files, the index, the proposals and the reviews keep their types.
LEMMA FilesTypedStep == CycleInv /\ [CycleNext]_cycleVars => FilesTyped'
  <1> SUFFICES ASSUME CycleInv, [CycleNext]_cycleVars PROVE FilesTyped'
    OBVIOUS
  <1> USE HeldFacts
  <1>a. files \in [Folder -> [Name -> Held]] /\ indexed \in [Name -> Held]
        /\ proposals \in [Name -> Held] /\ reviews = [t \in Text |-> reviews[t]]
        /\ puts \in Nat /\ "CHAT" \in Folder /\ "READY" \in Folder /\ "SPLIT_PARENT" \in Folder
    BY DEF CycleInv, FilesTyped, Folder, Bucket
  <1>1. CASE Queue
    <2>1. indexed' \in [Name -> Held]
      BY <1>1, <1>a DEF Queue, Chat
    <2>2. UNCHANGED <<files, proposals, reviews, puts>>
      BY <1>1 DEF Queue
    <2> QED
      BY <1>a, <2>1, <2>2 DEF FilesTyped
  <1>2. CASE Validate
    BY <1>2, <1>a DEF Validate, Chat, FilesTyped, documents, bounds
  <1>3. CASE StoreReview
    BY <1>3, <1>a DEF StoreReview, FilesTyped, bounds
  <1>4. CASE MoveItem \/ MoveItemHalf \/ DeleteItem
    <2>1. ItemName \in Name /\ ItemFolder \in Folder
      BY <1>4, CurrentFacts DEF MoveItem, MoveItemHalf, DeleteItem, Goes
    <2>2. Chat[ItemName] \in Held
      BY <2>1, <1>a DEF Chat
    <2>3. files' \in [Folder -> [Name -> Held]]
      <3>1. CASE MoveItem
        <4>1. \/ files' = files
              \/ files' = [files EXCEPT !["CHAT"][ItemName] = NoText,
                                        ![ItemFolder][ItemName] = Chat[ItemName]]
          BY <3>1 DEF MoveItem
        <4> DEFINE there == [files[ItemFolder] EXCEPT ![ItemName] = Chat[ItemName]]
                   chat == [files["CHAT"] EXCEPT ![ItemName] = NoText]
        <4>2. there \in [Name -> Held] /\ chat \in [Name -> Held]
          BY <2>1, <2>2, <1>a
        <4>3. ItemFolder # "CHAT"
          BY <1>4, CurrentFacts DEF MoveItem, MoveItemHalf, DeleteItem, Goes
        <4>4. files' = files \/ files' = [files EXCEPT !["CHAT"] = chat, ![ItemFolder] = there]
          BY <4>1, <4>3, <2>1, <1>a
        <4> HIDE DEF there, chat
        <4> QED
          BY <4>4, <4>2, <2>1, <1>a
      <3>2. CASE MoveItemHalf
        BY <3>2, <2>1, <2>2, <1>a DEF MoveItemHalf
      <3>3. CASE DeleteItem
        BY <3>3, <2>1, <2>2, <1>a DEF DeleteItem
      <3> QED
        BY <1>4, <3>1, <3>2, <3>3
    <2> QED
      <3>1. UNCHANGED <<documents, puts>>
        BY <1>4 DEF MoveItem, MoveItemHalf, DeleteItem, bounds
      <3> QED
        BY <2>3, <3>1, <1>a DEF FilesTyped, documents
  <1>5. ASSUME NEW n \in Name, Publish(n) PROVE FilesTyped'
    BY <1>5, <1>a DEF Publish, FilesTyped, documents, bounds
  <1>6. ASSUME NEW c \in split.todo, SplitChild(c) PROVE FilesTyped'
    <2>1. c[2] \in Held
      BY ChildFacts
    <2> QED
      BY <1>6, <2>1, <1>a DEF SplitChild, FilesTyped, documents, bounds
  <1>7. CASE SplitArchive \/ SplitArchiveHalf
    <2>1. split.name \in Name
      BY <1>7 DEF SplitArchive, SplitArchiveHalf, CycleInv, SplitTyped
    <2>2. Chat[split.name] \in Held
      BY <2>1, <1>a DEF Chat
    <2>3. files' \in [Folder -> [Name -> Held]]
      <3>1. CASE SplitArchiveHalf
        BY <3>1, <2>1, <2>2, <1>a DEF SplitArchiveHalf
      <3>2. CASE SplitArchive
        <4>1. \/ files' = files
              \/ files' = [files EXCEPT !["CHAT"][split.name] = NoText,
                                        !["SPLIT_PARENT"][split.name] = Chat[split.name]]
              \/ files' = [files EXCEPT !["CHAT"][split.name] = NoText]
          BY <3>2 DEF SplitArchive
        <4> QED
          BY <4>1, <2>1, <2>2, <1>a
      <3> QED
        BY <1>7, <3>1, <3>2
    <2> QED
      BY <1>7, <2>3, <1>a DEF SplitArchive, SplitArchiveHalf, FilesTyped, documents, bounds
  <1>8. ASSUME NEW f \in OwnerFiles, Put(f[1], f[2]) PROVE FilesTyped'
    <2>1. f[2] \in Held
      BY CycleAssumption
    <2> QED
      <3>1. files' \in [Folder -> [Name -> Held]]
        BY <1>8, <2>1, <1>a DEF Put
      <3>2. puts' \in Nat /\ UNCHANGED documents
        BY <1>8, <1>a DEF Put
      <3> QED
        BY <3>1, <3>2, <1>a DEF FilesTyped, documents
  <1>9. CASE UNCHANGED <<files, documents, puts>>
    BY <1>9, <1>a DEF FilesTyped, documents, bounds
  <1> QED
    BY <1>1, <1>2, <1>3, <1>4, <1>5, <1>6, <1>7, <1>8, <1>9 DEF CycleNext, CycleStart, Run,
       Assess, Semantic, Resolve, Plan, Review, CheckItem, Finalize, Fails, ItemFails,
       CycleDies, Split, SplitPrepare, SplitApply, SplitDies, cycleVars, documents, bounds

\* So do the plans of splits and the split that is applied.
LEMMA SplitTypedStep == CycleInv /\ [CycleNext]_cycleVars => EnvelopesTyped' /\ SplitTyped'
  <1> SUFFICES ASSUME CycleInv, [CycleNext]_cycleVars PROVE EnvelopesTyped' /\ SplitTyped'
    OBVIOUS
  <1>a. EnvelopesTyped /\ SplitTyped /\ FilesTyped
    BY DEF CycleInv
  <1>1. ASSUME NEW n \in Name, NEW a \in AnyAnswer, SplitPrepare(n, a)
        PROVE  EnvelopesTyped' /\ SplitTyped'
    <2>1. indexed[n] \in Text /\ indexed[n] \in DOMAIN Children
      BY <1>1, <1>a DEF SplitPrepare, FilesTyped, Held
    <2> QED
      BY <1>1, <1>a, <2>1 DEF SplitPrepare, EnvelopesTyped, SplitTyped
  <1>2. ASSUME NEW e \in envelopes, SplitApply(e) PROVE EnvelopesTyped' /\ SplitTyped'
    <2>1. e.name \in Name /\ e.text \in Text \cap DOMAIN Children
      BY <1>a DEF EnvelopesTyped
    <2> QED
      BY <1>2, <1>a, <2>1 DEF SplitApply, EnvelopesTyped, SplitTyped
  <1>3. ASSUME NEW c \in split.todo, SplitChild(c) PROVE EnvelopesTyped' /\ SplitTyped'
    <2> DEFINE s == split
    <2>1. split' = [at |-> split.at, name |-> split.name, text |-> split.text,
                    todo |-> split.todo \ {c}, archived |-> split.archived]
      BY <1>3, <1>a DEF SplitChild, SplitTyped
    <2> QED
      BY <1>3, <1>a, <2>1 DEF SplitChild, EnvelopesTyped, SplitTyped
  <1>4. CASE SplitArchive \/ SplitArchiveHalf \/ SplitDies
    BY <1>4, <1>a DEF SplitArchive, SplitArchiveHalf, SplitDies, EnvelopesTyped, SplitTyped,
       NoSplit
  <1>5. CASE UNCHANGED <<split, envelopes>>
    BY <1>5, <1>a DEF EnvelopesTyped, SplitTyped
  <1> QED
    BY <1>1, <1>2, <1>3, <1>4, <1>5 DEF CycleNext, CycleStart, Run, Assess, Semantic, Resolve,
       Queue, Validate, Plan, Review, StoreReview, CheckItem, MoveItem, DeleteItem, Finalize,
       Fails, MoveItemHalf, ItemFails, CycleDies, Split, Publish, Put, cycleVars

\* What rests on an answer rests on it still when more is supported.
LEMMA DecidedGrows ==
  ASSUME indexed' = indexed, supported \subseteq supported'
  PROVE  Decided \subseteq Decided'
  BY DEF Decided, NameOf, RestsOn

\* A cycle over some decisions is one over more of them.
LEMMA CycleOfGrows ==
  ASSUME NEW D, NEW E, D \subseteq E, NEW c, CycleOf(c, D)
  PROVE  CycleOf(c, E)
  <1>1. c.decided \in Seq(E)
    BY SeqGrows DEF CycleOf
  <1>2. c.at \in {"store", "resolve", "move", "delete"} => c.todo \in Seq(E)
    BY SeqGrows DEF CycleOf
  <1> QED
    BY <1>1, <1>2 DEF CycleOf

LEMMA NoCycleOf == ASSUME NEW D PROVE CycleOf(NoCycle, D)
  BY EmptySeq DEF CycleOf, NoCycle

\* What the semantic batch has in hand after one more text.
LEMMA ReviewsLeftOf ==
  ASSUME NEW D, NEW texts \in Seq(Text), NEW decisions \in Seq(D), NEW failing
  PROVE  CycleOf(ReviewsLeft(texts, decisions, failing), D)
  <1> DEFINE c == ReviewsLeft(texts, decisions, failing)
  <1>1. \/ c = NoCycle
        \/ texts = <<>> /\ decisions # <<>> /\
           c = [at |-> "store", mode |-> "adaptive", todo |-> decisions,
                decided |-> decisions, failed |-> failing]
        \/ texts # <<>> /\
           c = [at |-> "semantic", mode |-> "adaptive", todo |-> texts,
                decided |-> decisions, failed |-> failing]
    BY DEF ReviewsLeft, NoCycle
  <1>2. CycleOf(c, D)
    <2> HIDE DEF c
    <2> QED
      BY <1>1, NoCycleOf DEF CycleOf
  <1> QED
    BY <1>2

\* What the resolution has in hand after one more item.
LEMMA NextItemOf ==
  ASSUME CycleInv, cycle.at \in {"resolve", "move", "delete"}, NEW ok
  PROVE  CycleOf(NextItem(ok), Decided) /\ NextItem(ok).at \notin {"move", "delete"}
  <1>1. /\ cycle.todo \in Seq(Decided) /\ cycle.todo # <<>> /\ cycle.decided \in Seq(Decided)
        /\ cycle = [at |-> cycle.at, mode |-> cycle.mode, todo |-> cycle.todo,
                    decided |-> cycle.decided, failed |-> cycle.failed]
    BY DEF CycleInv, CycleItems, CycleOf
  <1>2. Tail(cycle.todo) \in Seq(Decided) /\ (Len(cycle.todo) > 1 => Tail(cycle.todo) # <<>>)
    BY <1>1, TailOf
  <1>3. \/ NextItem(ok) = NoCycle
        \/ NextItem(ok) = [NoCycle EXCEPT !.at = "finalize"]
        \/ Len(cycle.todo) > 1 /\
           NextItem(ok) = [at |-> "resolve", mode |-> cycle.mode, todo |-> Tail(cycle.todo),
                           decided |-> cycle.decided, failed |-> cycle.failed \/ ~ok]
    BY <1>1 DEF NextItem
  <1>4. CASE NextItem(ok) = NoCycle
    BY <1>4, NoCycleOf DEF NoCycle
  <1>5. CASE NextItem(ok) = [NoCycle EXCEPT !.at = "finalize"]
    BY <1>5, EmptySeq DEF CycleOf, NoCycle
  <1>6. CASE Len(cycle.todo) > 1 /\
             NextItem(ok) = [at |-> "resolve", mode |-> cycle.mode, todo |-> Tail(cycle.todo),
                             decided |-> cycle.decided, failed |-> cycle.failed \/ ~ok]
    BY <1>6, <1>1, <1>2 DEF CycleOf
  <1> QED
    BY <1>3, <1>4, <1>5, <1>6

\* A decision just made, with its support, is one of those that rest on an answer.
LEMMA DecidedNext ==
  ASSUME NEW t \in Text,
         NEW r \in [decision : Decision, evidence : Evidence, sources : Nat],
         NameOf(indexed', t) # NoText, r.decision \in ReadyDecisions => t \in supported'
  PROVE  [text |-> t, review |-> r] \in Decided'
  <1>1. [text |-> t, review |-> r].text = t /\ [text |-> t, review |-> r].review = r
    OBVIOUS
  <1> QED
    BY <1>1 DEF Decided, RestsOn

\* A review adds its decision, on a text the index lists and, if it is ready, supported.
LEMMA ReviewDecides ==
  ASSUME CycleInv, NEW a \in AnyAnswer, Review(a)
  PROVE  CycleItems'
  <1> DEFINE t == Head(cycle.todo)
             text == Chat[NameOf(indexed, t)]
             d == [text |-> t, review |-> Reviewing(t, text, a)]
  <1>1. cycle.todo \in Seq(Text) /\ cycle.todo # <<>> /\ cycle.decided \in Seq(Decided)
    BY DEF Review, Goes, CycleInv, CycleItems, CycleOf
  <1>2. t \in Text /\ Tail(cycle.todo) \in Seq(Text)
    BY <1>1, TailOf
  <1>3. indexed' = indexed /\ supported \subseteq supported'
    BY DEF Review, documents
  <1>4. cycle.decided \in Seq(Decided')
    BY <1>1, <1>3, DecidedGrows, SeqGrows
  <1>5. a \in Answer
    BY CycleAssumption DEF AnyAnswer
  <1>6. CASE Reviewable(t)
    <2>1. NameOf(indexed, t) # NoText
      BY <1>6 DEF Reviewable
    <2>2. Reviewing(t, text, a).decision \in ReadyDecisions => t \in supported'
      BY <1>5, <1>6, ReviewingRests DEF Review
    <2>3. Reviewing(t, text, a) \in
            [decision : Decision, evidence : Evidence, sources : Nat]
      BY <1>5, ReviewingRests
    <2>4. cycle' = ReviewsLeft(Tail(cycle.todo), Append(cycle.decided, d), cycle.failed)
      BY <1>6 DEF Review
    <2>5. NameOf(indexed', t) # NoText
      BY <2>1, <1>3
    <2>6. d \in Decided'
      BY <1>2, <2>2, <2>3, <2>5, DecidedNext
    <2>7. Append(cycle.decided, d) \in Seq(Decided')
      BY <1>4, <2>6, AppendProperties
    <2> QED
      BY <1>2, <2>4, <2>7, ReviewsLeftOf DEF CycleItems
  <1>7. CASE ~Reviewable(t)
    <2>1. cycle' = ReviewsLeft(Tail(cycle.todo), cycle.decided, TRUE)
      BY <1>7 DEF Review
    <2> QED
      BY <1>2, <1>4, <2>1, ReviewsLeftOf DEF CycleItems
  <1> QED
    BY <1>6, <1>7

\* The cycle works through decisions that rest on answers, and only through those.
LEMMA CycleItemsStep == CycleInv /\ [CycleNext]_cycleVars => CycleItems'
  <1> SUFFICES ASSUME CycleInv, [CycleNext]_cycleVars PROVE CycleItems'
    OBVIOUS
  <1>a. CycleOf(cycle, Decided)
    BY DEF CycleInv, CycleItems
  <1>b. ASSUME indexed' = indexed, supported' = supported, CycleOf(cycle', Decided)
        PROVE  CycleItems'
    BY <1>b, DecidedGrows, CycleOfGrows DEF CycleItems
  <1>1. ASSUME NEW mode, CycleStart(mode) PROVE CycleItems'
    BY <1>1, EmptySeq DEF CycleStart, CycleItems, CycleOf, NoCycle
  <1>2. CASE Queue
    <2>1. cycle.todo = <<>> /\ cycle.decided = <<>>
      BY <1>2, <1>a DEF Queue, Goes, CycleOf
    <2> QED
      BY <1>2, <1>a, <2>1, EmptySeq DEF Queue, CycleItems, CycleOf
  <1>3. CASE Validate
    <2>1. cycle.todo = <<>> /\ cycle.decided = <<>>
      BY <1>3, <1>a DEF Validate, Goes, CycleOf
    <2> QED
      BY <1>3, <1>a, <2>1, EmptySeq DEF Validate, CycleItems, CycleOf
  <1>4. CASE Plan
    <2>1. PICK selected \in Selections(cycle.mode) :
            cycle' = IF selected = <<>> THEN NoCycle
                     ELSE [NoCycle EXCEPT !.at = "semantic", !.todo = selected]
      BY <1>4 DEF Plan
    <2>2. selected \in Seq(Text)
      BY SelectionsTyped DEF CycleInv
    <2> QED
      BY <2>1, <2>2, NoCycleOf, EmptySeq DEF CycleItems, CycleOf, NoCycle
  <1>5. ASSUME NEW a \in AnyAnswer, Review(a) PROVE CycleItems'
    BY <1>5, ReviewDecides
  <1>6. CASE StoreReview
    <2>1. /\ cycle.todo \in Seq(Decided) /\ cycle.todo # <<>>
          /\ cycle.decided \in Seq(Decided) /\ cycle.decided # <<>>
          /\ cycle = [at |-> cycle.at, mode |-> cycle.mode, todo |-> cycle.todo,
                      decided |-> cycle.decided, failed |-> cycle.failed]
      BY <1>6, <1>a DEF StoreReview, Goes, CycleOf
    <2>2. Tail(cycle.todo) \in Seq(Decided)
          /\ (Len(cycle.todo) > 1 => Tail(cycle.todo) # <<>>)
      BY <2>1, TailOf
    <2>3. \/ cycle' = NoCycle
          \/ cycle' = [NoCycle EXCEPT !.at = "resolve", !.todo = cycle.decided]
          \/ Len(cycle.todo) > 1 /\ cycle' = [cycle EXCEPT !.todo = Tail(cycle.todo)]
      BY <1>6 DEF StoreReview
    <2>4. cycle.at = "store"
      BY <1>6 DEF StoreReview, Goes
    <2>5. CASE cycle' = NoCycle
      BY <1>6, <2>5, <1>b, NoCycleOf DEF StoreReview, history
    <2>6. CASE cycle' = [NoCycle EXCEPT !.at = "resolve", !.todo = cycle.decided]
      <3>1. CycleOf(cycle', Decided)
        BY <2>6, <2>1, EmptySeq DEF CycleOf, NoCycle
      <3> QED
        BY <1>6, <3>1, <1>b DEF StoreReview, history
    <2>7. CASE Len(cycle.todo) > 1 /\ cycle' = [cycle EXCEPT !.todo = Tail(cycle.todo)]
      <3>1. CycleOf(cycle', Decided)
        BY <2>7, <2>1, <2>2, <2>4 DEF CycleOf
      <3> QED
        BY <1>6, <3>1, <1>b DEF StoreReview, history
    <2> QED
      BY <2>3, <2>5, <2>6, <2>7
  <1>7. CASE CheckItem
    <2>1. cycle.at = "resolve"
      BY <1>7 DEF CheckItem, Goes
    <2>2. (\E ok : cycle' = NextItem(ok)) \/ cycle' = [cycle EXCEPT !.at = "delete"]
          \/ cycle' = [cycle EXCEPT !.at = "move"]
      BY <1>7 DEF CheckItem
    <2>3. CycleOf(cycle', Decided)
      <3>1. ASSUME NEW ok, cycle' = NextItem(ok) PROVE CycleOf(cycle', Decided)
        BY <3>1, <2>1, NextItemOf
      <3>2. CASE cycle' = [cycle EXCEPT !.at = "delete"] \/ cycle' = [cycle EXCEPT !.at = "move"]
        BY <3>2, <2>1, <1>a DEF CycleOf
      <3> QED
        BY <2>2, <3>1, <3>2
    <2> QED
      BY <1>7, <2>3, <1>b DEF CheckItem, documents, history
  <1>8. CASE MoveItem \/ MoveItemHalf \/ DeleteItem \/ ItemFails
    <2>1. cycle.at \in {"move", "delete"} /\ \E ok : cycle' = NextItem(ok)
      BY <1>8 DEF MoveItem, MoveItemHalf, DeleteItem, ItemFails, Goes
    <2>2. CycleOf(cycle', Decided)
      BY <2>1, NextItemOf
    <2> QED
      BY <1>8, <2>2, <1>b DEF MoveItem, MoveItemHalf, DeleteItem, ItemFails, documents, history
  <1>9. CASE Finalize \/ CycleDies
    BY <1>9, <1>b, NoCycleOf DEF Finalize, CycleDies, documents, history
  <1>10. CASE UNCHANGED <<cycle, indexed, supported>>
    BY <1>10, <1>a, <1>b
  <1> QED
    BY <1>1, <1>2, <1>3, <1>4, <1>5, <1>6, <1>7, <1>8, <1>9, <1>10 DEF CycleNext, Run, Assess,
       Semantic, Resolve, Fails, Split, SplitPrepare, SplitApply, SplitChild, SplitArchive,
       SplitArchiveHalf, SplitDies, Publish, Put, cycleVars, documents, history

\* A stored review rests on an answer about its text.
LEMMA ReviewsRestStep == CycleInv /\ [CycleNext]_cycleVars => ReviewsRest'
  <1> SUFFICES ASSUME CycleInv, [CycleNext]_cycleVars PROVE ReviewsRest'
    OBVIOUS
  <1>1. ASSUME NEW a \in AnyAnswer, Review(a) PROVE ReviewsRest'
    BY <1>1 DEF Review, ReviewsRest, RestsOn, CycleInv, documents
  <1>2. CASE StoreReview
    <2>1. Current \in Decided
      BY <1>2, CurrentFacts DEF StoreReview, Goes
    <2>2. RestsOn(Current.review.decision, Current.text)
      BY <2>1 DEF Decided
    <2>3. reviews = [t \in Text |-> reviews[t]]
      BY DEF CycleInv, FilesTyped
    <2>4. reviews' = [reviews EXCEPT ![Current.text] = Current.review] /\ supported' = supported
      BY <1>2 DEF StoreReview, history, Current
    <2>5. \A t \in Text : RestsOn(reviews[t].decision, t)
      BY DEF CycleInv, ReviewsRest
    <2>6. \A t \in Text : reviews'[t] = IF t = Current.text THEN Current.review ELSE reviews[t]
      BY <2>3, <2>4
    <2> HIDE DEF Current
    <2>7. ASSUME NEW t \in Text PROVE reviews'[t].decision \in ReadyDecisions => t \in supported'
      BY <2>2, <2>4, <2>5, <2>6 DEF RestsOn
    <2> QED
      BY <2>7 DEF ReviewsRest, RestsOn
  <1>3. CASE UNCHANGED <<reviews, supported>>
    BY <1>3 DEF ReviewsRest, RestsOn, CycleInv
  <1> QED
    BY <1>1, <1>2, <1>3 DEF CycleNext, CycleStart, Run, Assess, Semantic, Resolve, Queue,
       Validate, Plan, CheckItem, MoveItem, DeleteItem, Finalize, Fails, MoveItemHalf,
       ItemFails, CycleDies, Split, SplitPrepare, SplitApply, SplitChild, SplitArchive,
       SplitArchiveHalf, SplitDies, Publish, Put, cycleVars, documents, history

\* The documents, the cycle and the split have their form, and every decision and
\* every review that makes a text ready rests on answers that suffice.
THEOREM CycleInductive == CycleSpec => []CycleInv
  <1>1. CycleInv /\ [CycleNext]_cycleVars => CycleInv'
    BY FilesTypedStep, CycleItemsStep, ReviewsRestStep, SplitTypedStep DEF CycleInv
  <1> QED
    BY CycleInitInv, <1>1, PTL DEF CycleSpec

\* The finalizer prepares a record only for a text that the model was asked about and
\* found ready on what the answers must have, whatever the owner, the faults and the
\* operator's splits do.
THEOREM RecordsAreJustified == CycleSpec => []Justified
  <1>1. CycleInv => Justified
    <2> SUFFICES ASSUME CycleInv, NEW n \in Name, files["READY"][n] # NoText,
                        Draftable(files["READY"][n])
                 PROVE  files["READY"][n] \in supported
      BY DEF Justified
    <2>1. files["READY"][n] \in Text
      BY DEF CycleInv, FilesTyped, Folder, Bucket, Held
    <2> QED
      BY <2>1 DEF CycleInv, ReviewsRest, RestsOn, Draftable
  <1> QED
    BY <1>1, CycleInductive, PTL

---------------------------------------------------------------------------
(* Texts: what each step does to the files, element by element *)

\* The files as functions, for their updates.
LEMMA FilesForm ==
  ASSUME CycleInv
  PROVE  files = [x \in Folder |-> files[x]]
         /\ \A x \in Folder : files[x] = [n \in Name |-> files[x][n]]
  BY DEF CycleInv, FilesTyped

\* The three folders that are no destination of a decision.
LEMMA FolderFacts ==
  /\ {"CHAT", "READY", "SPLIT_PARENT"} \subseteq Folder
  /\ "CHAT" # "READY" /\ "CHAT" # "SPLIT_PARENT" /\ "READY" # "SPLIT_PARENT"
  BY DEF Folder, Bucket

\* What each step that touches a file does to every place.
LEMMA MoveItemCells ==
  ASSUME CycleInv, MoveItem
  PROVE  /\ ItemName \in Name /\ ItemFolder \in Folder \ {"CHAT", "SPLIT_PARENT"}
         /\ \/ files' = files
            \/ \A y \in Folder, m \in Name :
                 files'[y][m] = IF y = "CHAT" /\ m = ItemName THEN NoText
                                ELSE IF y = ItemFolder /\ m = ItemName THEN files["CHAT"][ItemName]
                                ELSE files[y][m]
  <1>1. ItemName \in Name /\ ItemFolder \in Folder \ {"CHAT", "SPLIT_PARENT"}
    BY CurrentFacts DEF MoveItem, Goes
  <1>2. \/ files' = files
        \/ files' = [files EXCEPT !["CHAT"][ItemName] = NoText,
                                  ![ItemFolder][ItemName] = files["CHAT"][ItemName]]
    BY DEF MoveItem, Chat
  <1> QED
    BY <1>1, <1>2, FolderFacts, FilesForm

LEMMA MoveItemHalfCells ==
  ASSUME CycleInv, MoveItemHalf
  PROVE  /\ ItemName \in Name /\ ItemFolder \in Folder \ {"CHAT", "SPLIT_PARENT"}
         /\ \A y \in Folder, m \in Name :
              files'[y][m] = IF y = ItemFolder /\ m = ItemName THEN files["CHAT"][ItemName]
                             ELSE files[y][m]
  <1>1. ItemName \in Name /\ ItemFolder \in Folder \ {"CHAT", "SPLIT_PARENT"}
    BY CurrentFacts DEF MoveItemHalf, Goes
  <1>2. files' = [files EXCEPT ![ItemFolder][ItemName] = files["CHAT"][ItemName]]
    BY DEF MoveItemHalf, Chat
  <1> QED
    BY <1>1, <1>2, FilesForm

LEMMA DeleteItemCells ==
  ASSUME CycleInv, DeleteItem
  PROVE  /\ ItemName \in Name /\ ItemFolder \in Folder \ {"CHAT", "SPLIT_PARENT"}
         /\ \A y \in Folder, m \in Name :
              files'[y][m] = IF y = "CHAT" /\ m = ItemName THEN NoText ELSE files[y][m]
  <1>1. ItemName \in Name /\ ItemFolder \in Folder \ {"CHAT", "SPLIT_PARENT"}
    BY CurrentFacts DEF DeleteItem, Goes
  <1>2. files' = [files EXCEPT !["CHAT"][ItemName] = NoText]
    BY DEF DeleteItem
  <1> QED
    BY <1>1, <1>2, FolderFacts, FilesForm

LEMMA PublishCells ==
  ASSUME CycleInv, NEW n \in Name, Publish(n)
  PROVE  \A y \in Folder, m \in Name :
           files'[y][m] = IF y = "READY" /\ m = n THEN NoText ELSE files[y][m]
  BY FolderFacts, FilesForm DEF Publish

LEMMA SplitChildCells ==
  ASSUME CycleInv, NEW c \in split.todo, SplitChild(c)
  PROVE  \A y \in Folder, m \in Name :
           files'[y][m] = IF y = "CHAT" /\ m = c[1] THEN c[2] ELSE files[y][m]
  BY FolderFacts, FilesForm, ChildFacts DEF SplitChild

LEMMA SplitArchiveCells ==
  ASSUME CycleInv, SplitArchive
  PROVE  /\ split.name \in Name
         /\ \/ files' = files
            \/ /\ ~split.archived /\ files["SPLIT_PARENT"][split.name] = NoText
               /\ \A y \in Folder, m \in Name :
                    files'[y][m] = IF y = "CHAT" /\ m = split.name THEN NoText
                                   ELSE IF y = "SPLIT_PARENT" /\ m = split.name
                                        THEN files["CHAT"][split.name] ELSE files[y][m]
            \/ /\ ~split.archived /\ files["SPLIT_PARENT"][split.name] # NoText
               /\ \A y \in Folder, m \in Name :
                    files'[y][m] = IF y = "CHAT" /\ m = split.name THEN NoText
                                   ELSE files[y][m]
  <1>1. split.name \in Name
    BY DEF SplitArchive, CycleInv, SplitTyped
  <1>2. \/ files' = files
        \/ /\ ~split.archived /\ files["SPLIT_PARENT"][split.name] = NoText
           /\ files' = [files EXCEPT !["CHAT"][split.name] = NoText,
                                     !["SPLIT_PARENT"][split.name] = files["CHAT"][split.name]]
        \/ /\ ~split.archived /\ files["SPLIT_PARENT"][split.name] # NoText
           /\ files' = [files EXCEPT !["CHAT"][split.name] = NoText]
    BY DEF SplitArchive, Chat, Archive
  <1> QED
    BY <1>1, <1>2, FolderFacts, FilesForm

LEMMA SplitArchiveHalfCells ==
  ASSUME CycleInv, SplitArchiveHalf
  PROVE  /\ split.name \in Name /\ files["SPLIT_PARENT"][split.name] = NoText
         /\ \A y \in Folder, m \in Name :
              files'[y][m] = IF y = "SPLIT_PARENT" /\ m = split.name
                             THEN files["CHAT"][split.name] ELSE files[y][m]
  <1>1. split.name \in Name
    BY DEF SplitArchiveHalf, CycleInv, SplitTyped
  <1>2. files' = [files EXCEPT !["SPLIT_PARENT"][split.name] = files["CHAT"][split.name]]
    BY DEF SplitArchiveHalf, Chat
  <1> QED
    BY <1>1, <1>2, FolderFacts, FilesForm DEF SplitArchiveHalf, Archive

LEMMA PutCells ==
  ASSUME CycleInv, NEW f \in OwnerFiles, Put(f[1], f[2])
  PROVE  /\ f[1] \in Name /\ puts' # puts
         /\ \A y \in Folder, m \in Name :
              files'[y][m] = IF y = "CHAT" /\ m = f[1] THEN f[2] ELSE files[y][m]
  <1>1. f[1] \in Name
    BY CycleAssumption
  <1>2. puts' # puts
    BY DEF Put, CycleInv, FilesTyped
  <1> QED
    BY <1>1, <1>2, FolderFacts, FilesForm DEF Put

\* Outside CHAT_RESEARCH a file is never written over, and only what is published goes.
LEMMA AwayStep ==
  ASSUME CycleInv, MoveFree, [CycleNext]_cycleVars
  PROVE  /\ published \subseteq published'
         /\ \A x \in Folder \ {"CHAT"}, n \in Name :
              \/ files'[x][n] = files[x][n]
              \/ files[x][n] = NoText
              \/ files[x][n] \in published'
  <1> DEFINE Goal == /\ published \subseteq published'
                     /\ \A x \in Folder \ {"CHAT"}, n \in Name :
                          \/ files'[x][n] = files[x][n]
                          \/ files[x][n] = NoText
                          \/ files[x][n] \in published'
  <1>1. CASE MoveItem
    <2>1. files[ItemFolder][ItemName] = NoText
      BY <1>1 DEF MoveItem, Goes, MoveFree, There
    <2>2. published' = published
      BY <1>1 DEF MoveItem, history
    <2>3. /\ ItemName \in Name /\ ItemFolder \in Folder \ {"CHAT", "SPLIT_PARENT"}
          /\ \/ files' = files
             \/ \A y \in Folder, m \in Name :
                  files'[y][m] = IF y = "CHAT" /\ m = ItemName THEN NoText
                                 ELSE IF y = ItemFolder /\ m = ItemName
                                      THEN files["CHAT"][ItemName] ELSE files[y][m]
      BY <1>1, MoveItemCells
    <2> QED
      BY <2>1, <2>2, <2>3
  <1>2. CASE MoveItemHalf
    <2>1. files[ItemFolder][ItemName] = NoText
      BY <1>2 DEF MoveItemHalf, Goes, MoveFree, There
    <2> QED
      BY <1>2, <2>1, MoveItemHalfCells DEF MoveItemHalf, history
  <1>3. CASE DeleteItem
    BY <1>3, DeleteItemCells DEF DeleteItem, history
  <1>4. ASSUME NEW n \in Name, Publish(n) PROVE Goal
    BY <1>4, PublishCells DEF Publish
  <1>5. ASSUME NEW c \in split.todo, SplitChild(c) PROVE Goal
    BY <1>5, SplitChildCells DEF SplitChild, history
  <1>6. CASE SplitArchive
    <2>1. published' = published
      BY <1>6 DEF SplitArchive, history
    <2>2. CASE files' = files
      BY <2>1, <2>2
    <2>3. CASE files' # files
      <3>1. \/ /\ files["SPLIT_PARENT"][split.name] = NoText
               /\ \A y \in Folder, m \in Name :
                    files'[y][m] = IF y = "CHAT" /\ m = split.name THEN NoText
                                   ELSE IF y = "SPLIT_PARENT" /\ m = split.name
                                        THEN files["CHAT"][split.name] ELSE files[y][m]
            \/ \A y \in Folder, m \in Name :
                 files'[y][m] = IF y = "CHAT" /\ m = split.name THEN NoText
                                ELSE files[y][m]
        BY <1>6, <2>3, SplitArchiveCells
      <3> QED
        BY <2>1, <3>1
    <2> QED
      BY <2>2, <2>3
  <1>7. CASE SplitArchiveHalf
    BY <1>7, SplitArchiveHalfCells DEF SplitArchiveHalf, history
  <1>8. ASSUME NEW f \in OwnerFiles, Put(f[1], f[2]) PROVE Goal
    BY <1>8, PutCells DEF Put, history
  <1>9. CASE UNCHANGED <<files, published>>
    BY <1>9
  <1> QED
    BY <1>1, <1>2, <1>3, <1>4, <1>5, <1>6, <1>7, <1>8, <1>9 DEF CycleNext, CycleStart, Run,
       Assess, Semantic, Resolve, Queue, Validate, Plan, Review, StoreReview, CheckItem,
       Finalize, Fails, ItemFails, CycleDies, Split, SplitPrepare, SplitApply, SplitDies,
       cycleVars, history

\* What left CHAT_RESEARCH, or was published, never comes to be lost.
LEMMA KeptGrows ==
  ASSUME CycleInv, MoveFree, [CycleNext]_cycleVars
  PROVE  Kept \subseteq Kept'
  <1> SUFFICES ASSUME NEW t \in Kept, t \notin published PROVE t \in Kept'
    BY AwayStep DEF Kept
  <1>1. PICK x \in Folder \ {"CHAT"}, n \in Name : t = files[x][n] /\ t # NoText
    BY DEF Kept
  <1>2. files'[x][n] = t \/ t \in published'
    BY <1>1, AwayStep
  <1> QED
    BY <1>1, <1>2 DEF Kept

---------------------------------------------------------------------------
(* Texts: the invariant *)

\* The item at hand is a function of the cycle and the index.
LEMMA SameItem ==
  ASSUME cycle' = cycle, indexed' = indexed
  PROVE  Current' = Current /\ ItemName' = ItemName /\ ItemFolder' = ItemFolder
  BY DEF Current, ItemName, ItemFolder, NameOf, Destination

\* Only the resolution writes to the folders of decisions; otherwise a file leaves them
\* only when it is published.
LEMMA ItemStep ==
  ASSUME CycleInv, [CycleNext]_cycleVars, ~CheckItem, cycle'.at \in {"move", "delete"}
  PROVE  /\ cycle' = cycle /\ indexed' = indexed /\ published \subseteq published'
         /\ \A x \in Folder \ {"CHAT", "SPLIT_PARENT"}, n \in Name :
              \/ files'[x][n] = files[x][n]
              \/ files'[x][n] = NoText /\ files[x][n] \in published'
  <1> DEFINE Goal == /\ cycle' = cycle /\ indexed' = indexed /\ published \subseteq published'
                     /\ \A x \in Folder \ {"CHAT", "SPLIT_PARENT"}, n \in Name :
                          \/ files'[x][n] = files[x][n]
                          \/ files'[x][n] = NoText /\ files[x][n] \in published'
  <1>1. ASSUME NEW mode, CycleStart(mode) PROVE FALSE
    BY <1>1 DEF CycleStart, NoCycle
  <1>2. CASE Queue \/ Validate
    <2>1. cycle = [at |-> cycle.at, mode |-> cycle.mode, todo |-> cycle.todo,
                   decided |-> cycle.decided, failed |-> cycle.failed]
      BY DEF CycleInv, CycleItems, CycleOf
    <2> QED
      BY <1>2, <2>1 DEF Queue, Validate
  <1>3. CASE Plan
    BY <1>3 DEF Plan, NoCycle
  <1>4. ASSUME NEW a \in AnyAnswer, Review(a) PROVE FALSE
    BY <1>4 DEF Review, ReviewsLeft, NoCycle
  <1>5. CASE StoreReview
    <2>1. cycle = [at |-> "store", mode |-> cycle.mode, todo |-> cycle.todo,
                   decided |-> cycle.decided, failed |-> cycle.failed]
      BY <1>5 DEF StoreReview, Goes, CycleInv, CycleItems, CycleOf
    <2> QED
      BY <1>5, <2>1 DEF StoreReview, NoCycle
  <1>6. CASE MoveItem \/ MoveItemHalf \/ DeleteItem \/ ItemFails
    <2>1. cycle.at \in {"move", "delete"} /\ \E ok : cycle' = NextItem(ok)
      BY <1>6 DEF MoveItem, MoveItemHalf, DeleteItem, ItemFails, Goes
    <2> QED
      BY <2>1, NextItemOf
  <1>7. CASE Finalize \/ CycleDies
    BY <1>7 DEF Finalize, CycleDies, NoCycle
  <1>8. ASSUME NEW n \in Name, Publish(n) PROVE Goal
    <2>1. cycle' = cycle /\ indexed' = indexed /\ published' = published \cup {files["READY"][n]}
      BY <1>8 DEF Publish, documents
    <2> QED
      BY <1>8, <2>1, PublishCells
  <1>9. ASSUME NEW c \in split.todo, SplitChild(c) PROVE Goal
    <2>1. cycle' = cycle /\ indexed' = indexed /\ published' = published
      BY <1>9 DEF SplitChild, documents, history
    <2> QED
      BY <1>9, <2>1, SplitChildCells
  <1>10. CASE SplitArchive
    <2>1. cycle' = cycle /\ indexed' = indexed /\ published' = published
      BY <1>10 DEF SplitArchive, documents, history
    <2>2. \A x \in Folder \ {"CHAT", "SPLIT_PARENT"}, n \in Name : files'[x][n] = files[x][n]
      BY <1>10, SplitArchiveCells
    <2> QED
      BY <2>1, <2>2
  <1>11. CASE SplitArchiveHalf
    <2>1. cycle' = cycle /\ indexed' = indexed /\ published' = published
      BY <1>11 DEF SplitArchiveHalf, documents, history
    <2> QED
      BY <1>11, <2>1, SplitArchiveHalfCells
  <1>12. ASSUME NEW f \in OwnerFiles, Put(f[1], f[2]) PROVE Goal
    <2>1. cycle' = cycle /\ indexed' = indexed /\ published' = published
      BY <1>12 DEF Put, documents, history
    <2> QED
      BY <1>12, <2>1, PutCells
  <1>13. CASE UNCHANGED <<files, cycle, indexed, published>>
    BY <1>13
  <1> QED
    BY <1>1, <1>2, <1>3, <1>4, <1>5, <1>6, <1>7, <1>8, <1>9, <1>10, <1>11, <1>12, <1>13
    DEF CycleNext, Run, Assess, Semantic, Resolve, Fails, Split, SplitPrepare, SplitApply,
        SplitDies, cycleVars, documents, history

\* What may come into CHAT_RESEARCH: a child, and a file of the owner.
LEMMA ChatWrites ==
  ASSUME ChecksHold, CycleInv, [CycleNext]_cycleVars, NEW n \in Name
  PROVE  \/ files'["CHAT"][n] \in {files["CHAT"][n], NoText}
         \/ ~Deleting(n) /\ \E c \in split.todo : SplitChild(c) /\ n = c[1]
         \/ ~Unguarded(n) /\ \E f \in OwnerFiles : Put(f[1], f[2]) /\ n = f[1]
  <1> DEFINE Same == files'["CHAT"][n] \in {files["CHAT"][n], NoText}
  <1> USE FolderFacts
  <1>1. CASE MoveItem
    BY <1>1, MoveItemCells
  <1>2. CASE MoveItemHalf
    BY <1>2, MoveItemHalfCells
  <1>3. CASE DeleteItem
    BY <1>3, DeleteItemCells
  <1>4. ASSUME NEW k \in Name, Publish(k) PROVE Same
    BY <1>4, PublishCells
  <1>5. ASSUME NEW c \in split.todo, SplitChild(c), n # c[1] PROVE Same
    BY <1>5, SplitChildCells
  <1>6. ASSUME NEW c \in split.todo, SplitChild(c) PROVE ~Deleting(c[1])
    BY <1>6 DEF SplitChild, ChecksHold
  <1>7. CASE SplitArchive
    <2>1. CASE files' = files
      BY <2>1
    <2>2. CASE files' # files
      BY <1>7, <2>2, SplitArchiveCells
    <2> QED
      BY <2>1, <2>2
  <1>8. CASE SplitArchiveHalf
    BY <1>8, SplitArchiveHalfCells
  <1>9. ASSUME NEW f \in OwnerFiles, Put(f[1], f[2]), n # f[1] PROVE Same
    BY <1>9, PutCells
  <1>10. ASSUME NEW f \in OwnerFiles, Put(f[1], f[2]) PROVE ~Unguarded(f[1])
    BY <1>10 DEF Put, ChecksHold
  <1>11. CASE UNCHANGED files
    BY <1>11
  <1> QED
    BY <1>1, <1>2, <1>3, <1>4, <1>5, <1>6, <1>7, <1>8, <1>9, <1>10, <1>11 DEF CycleNext,
       CycleStart, Run, Assess, Semantic, Resolve, Queue, Validate, Plan, Review, StoreReview,
       CheckItem, Finalize, Fails, ItemFails, CycleDies, Split, SplitPrepare, SplitApply,
       SplitDies, cycleVars

\* Only a split writes to the archive.
LEMMA ArchiveWrites ==
  ASSUME CycleInv, [CycleNext]_cycleVars, ~SplitArchive, ~SplitArchiveHalf
  PROVE  Archive' = Archive
  <1> USE FolderFacts DEF Archive
  <1>1. CASE MoveItem \/ MoveItemHalf \/ DeleteItem
    <2>1. ItemFolder # "SPLIT_PARENT"
      BY <1>1, CurrentFacts DEF MoveItem, MoveItemHalf, DeleteItem, Goes
    <2> QED
      BY <1>1, <2>1, FilesForm DEF MoveItem, MoveItemHalf, DeleteItem
  <1>2. ASSUME NEW n \in Name, Publish(n) PROVE Archive' = Archive
    BY <1>2, FilesForm DEF Publish
  <1>3. ASSUME NEW c \in split.todo, SplitChild(c) PROVE Archive' = Archive
    BY <1>3, FilesForm DEF SplitChild
  <1>4. ASSUME NEW f \in OwnerFiles, Put(f[1], f[2]) PROVE Archive' = Archive
    BY <1>4, FilesForm DEF Put
  <1>5. CASE UNCHANGED files
    BY <1>5
  <1> QED
    BY <1>1, <1>2, <1>3, <1>4, <1>5 DEF CycleNext, CycleStart, Run, Assess, Semantic, Resolve,
       Queue, Validate, Plan, Review, StoreReview, CheckItem, Finalize, Fails, ItemFails,
       CycleDies, Split, SplitPrepare, SplitApply, SplitDies, cycleVars

\* A check that goes on has found the source, and its destination free or the same.
LEMMA CheckItemFacts ==
  ASSUME ChecksHold, CycleInv, CheckItem
  PROVE  /\ UNCHANGED <<files, indexed, published>>
         /\ \/ Current' = Current /\ ItemName' = ItemName /\ ItemFolder' = ItemFolder
            \/ cycle'.at \notin {"move", "delete"}
         /\ cycle'.at = "move" => There = NoText
         /\ cycle'.at = "delete" => There = Current.text /\ Chat[ItemName] = Current.text
  <1>1. cycle.at = "resolve" /\ UNCHANGED <<files, indexed, published>>
    BY DEF CheckItem, Goes, documents, history
  <1>2. cycle = [at |-> cycle.at, mode |-> cycle.mode, todo |-> cycle.todo,
                 decided |-> cycle.decided, failed |-> cycle.failed]
    BY DEF CycleInv, CycleItems, CycleOf
  <1>3. ReadThere = {There}
    BY DEF ReadThere, ChecksHold
  <1>4. \/ \E ok : cycle' = NextItem(ok)
        \/ /\ Chat[ItemName] = Current.text /\ There = Current.text
           /\ cycle' = [cycle EXCEPT !.at = "delete"]
        \/ There = NoText /\ cycle' = [cycle EXCEPT !.at = "move"]
    BY <1>3 DEF CheckItem, Copied
  <1>5. CASE \E ok : cycle' = NextItem(ok)
    BY <1>1, <1>5, NextItemOf
  <1>6. CASE cycle' = [cycle EXCEPT !.at = "delete"] \/ cycle' = [cycle EXCEPT !.at = "move"]
    <2>1. Head(cycle'.todo) = Head(cycle.todo)
      BY <1>2, <1>6
    <2>2. Current' = Current
      BY <2>1 DEF Current
    <2>3. ItemName' = ItemName /\ ItemFolder' = ItemFolder
      BY <1>1, <2>2 DEF ItemName, ItemFolder, NameOf, Destination
    <2>4. (cycle'.at = "move" => There = NoText)
          /\ (cycle'.at = "delete" => There = Current.text /\ Chat[ItemName] = Current.text)
      <3>1. CASE \E ok : cycle' = NextItem(ok)
        BY <1>1, <3>1, NextItemOf
      <3>2. CASE ~\E ok : cycle' = NextItem(ok)
        BY <1>2, <1>4, <3>2
      <3> QED
        BY <3>1, <3>2
    <2> QED
      BY <1>1, <2>2, <2>3, <2>4
  <1> QED
    BY <1>4, <1>5, <1>6

\* Nothing comes to the place the cycle has found free.
LEMMA MoveFreeStep ==
  ChecksHold /\ CycleInv /\ TextsInv /\ [CycleNext]_cycleVars => MoveFree'
  <1> SUFFICES ASSUME ChecksHold, CycleInv, TextsInv, [CycleNext]_cycleVars,
                      cycle'.at = "move"
               PROVE  files'[ItemFolder'][ItemName'] = NoText
    BY DEF MoveFree, There
  <1>1. CASE CheckItem
    BY <1>1, CheckItemFacts DEF There
  <1>2. CASE ~CheckItem
    <2>1. cycle' = cycle /\ indexed' = indexed
      BY <1>2, ItemStep
    <2>2. ItemName' = ItemName /\ ItemFolder' = ItemFolder
      BY <2>1, SameItem
    <2>3. ItemName \in Name /\ ItemFolder \in Folder \ {"CHAT", "SPLIT_PARENT"}
      BY <2>1, CurrentFacts
    <2>4. files[ItemFolder][ItemName] = NoText
      BY <2>1 DEF TextsInv, MoveFree, There
    <2>5. files'[ItemFolder][ItemName] \in {files[ItemFolder][ItemName], NoText}
      BY <1>2, <2>3, ItemStep
    <2> QED
      BY <2>2, <2>4, <2>5
  <1> QED
    BY <1>1, <1>2

\* Nothing takes away the copy for which a file is deleted, nor replaces that file.
LEMMA DeleteCopiedStep ==
  ChecksHold /\ CycleInv /\ TextsInv /\ [CycleNext]_cycleVars => DeleteCopied'
  <1> SUFFICES ASSUME ChecksHold, CycleInv, TextsInv, [CycleNext]_cycleVars,
                      cycle'.at = "delete"
               PROVE  /\ files'[ItemFolder'][ItemName'] = Current'.text
                         \/ Current'.text \in published'
                      /\ files'["CHAT"][ItemName'] \in {NoText, Current'.text}
    BY DEF DeleteCopied, There, Chat
  <1>1. CASE CheckItem
    BY <1>1, CheckItemFacts DEF There, Chat
  <1>2. CASE ~CheckItem
    <2>1. cycle' = cycle /\ indexed' = indexed /\ published \subseteq published'
      BY <1>2, ItemStep
    <2>2. ItemName' = ItemName /\ ItemFolder' = ItemFolder /\ Current' = Current
      BY <2>1, SameItem
    <2>3. ItemName \in Name /\ ItemFolder \in Folder \ {"CHAT", "SPLIT_PARENT"}
      BY <2>1, CurrentFacts
    <2>4. /\ files[ItemFolder][ItemName] = Current.text \/ Current.text \in published
          /\ files["CHAT"][ItemName] \in {NoText, Current.text}
      BY <2>1 DEF TextsInv, DeleteCopied, There, Chat
    <2>5. \/ files'[ItemFolder][ItemName] = files[ItemFolder][ItemName]
          \/ files[ItemFolder][ItemName] \in published'
      BY <1>2, <2>3, ItemStep
    <2>6. Deleting(ItemName) /\ Unguarded(ItemName)
      BY <2>1 DEF Deleting, Goes, Unguarded
    <2>7. files'["CHAT"][ItemName] \in {files["CHAT"][ItemName], NoText}
      BY <2>3, <2>6, ChatWrites
    <2> QED
      BY <2>1, <2>2, <2>4, <2>5, <2>7
  <1> QED
    BY <1>1, <1>2

\* What a step does to a run of the split.
LEMMA SplitStep ==
  ASSUME CycleInv, [CycleNext]_cycleVars
  PROVE  \/ split' = split /\ ~\E c \in split.todo : SplitChild(c)
         \/ \E e \in envelopes : SplitApply(e)
         \/ \E c \in split.todo :
              /\ SplitChild(c)
              /\ split' = [at |-> split.at, name |-> split.name, text |-> split.text,
                           todo |-> split.todo \ {c}, archived |-> split.archived]
         \/ split' = NoSplit
  <1>1. split = [at |-> split.at, name |-> split.name, text |-> split.text,
                 todo |-> split.todo, archived |-> split.archived]
    BY DEF CycleInv, SplitTyped
  <1>2. ASSUME NEW c \in split.todo, SplitChild(c)
        PROVE  split' = [at |-> split.at, name |-> split.name, text |-> split.text,
                         todo |-> split.todo \ {c}, archived |-> split.archived]
    BY <1>1, <1>2 DEF SplitChild
  <1>3. CASE \E c \in split.todo : SplitChild(c)
    BY <1>2, <1>3
  <1>4. CASE SplitArchive \/ SplitArchiveHalf \/ SplitDies
    BY <1>4 DEF SplitArchive, SplitArchiveHalf, SplitDies
  <1>5. CASE \E e \in envelopes : SplitApply(e)
    BY <1>5
  <1>6. CASE UNCHANGED split
    BY <1>3, <1>6
  <1> QED
    BY <1>3, <1>4, <1>5, <1>6 DEF CycleNext, CycleStart, Run, Assess, Semantic, Resolve,
       Queue, Validate, Plan, Review, StoreReview, CheckItem, MoveItem, DeleteItem, Finalize,
       Fails, MoveItemHalf, ItemFails, CycleDies, Split, SplitPrepare, Publish, Put, cycleVars

\* What the preflight of a split has established.
LEMMA ApplyFacts ==
  ASSUME CycleInv, NEW e \in envelopes, SplitApply(e)
  PROVE  /\ files' = files /\ split'.at = "children"
         /\ split'.name = e.name /\ split'.text = e.text
         /\ split'.todo = {c \in Children[e.text] : files["CHAT"][c[1]] = NoText}
         /\ split'.archived = (files["CHAT"][e.name] = NoText)
         /\ \A c \in Children[e.text] : files["CHAT"][c[1]] \in {NoText, c[2]}
         /\ files["CHAT"][e.name] # NoText =>
              /\ files["CHAT"][e.name] = e.text
              /\ files["SPLIT_PARENT"][e.name] \in {NoText, e.text}
         /\ e.text \in DOMAIN Children
  <1>1. e.text \in DOMAIN Children
    BY DEF CycleInv, EnvelopesTyped
  <1> QED
    BY <1>1 DEF SplitApply, Chat, Archive

\* Nothing comes to the places of the children that are still to be written.
LEMMA SplitFreeStep ==
  ChecksHold /\ CycleInv /\ TextsInv /\ [CycleNext]_cycleVars => SplitFree'
  <1> SUFFICES ASSUME ChecksHold, CycleInv, TextsInv, [CycleNext]_cycleVars
               PROVE  SplitFree'
    OBVIOUS
  <1>a. /\ \A c \in split.todo : files["CHAT"][c[1]] = NoText
        /\ split.at # "idle" /\ ~split.archived => \A c \in split.todo : c[1] # split.name
    BY DEF TextsInv, SplitFree, Chat
  <1>b. SplitFree' <=>
          /\ \A c \in split'.todo : files'["CHAT"][c[1]] = NoText
          /\ split'.at # "idle" /\ ~split'.archived =>
               \A c \in split'.todo : c[1] # split'.name
    BY DEF SplitFree, Chat
  <1>1. CASE split' = split /\ ~\E c \in split.todo : SplitChild(c)
    <2>1. ASSUME NEW c \in split.todo PROVE files'["CHAT"][c[1]] = NoText
      <3>1. c[1] \in Name
        BY ChildFacts
      <3>2. Unguarded(c[1])
        BY DEF Unguarded
      <3> QED
        BY <3>1, <3>2, <1>1, <1>a, ChatWrites
    <2> QED
      BY <1>1, <1>a, <1>b, <2>1
  <1>2. ASSUME NEW e \in envelopes, SplitApply(e) PROVE SplitFree'
    <2>1. \A c \in split'.todo : files["CHAT"][c[1]] = NoText
      BY <1>2, ApplyFacts
    <2>2. ~split'.archived => \A c \in split'.todo : c[1] # split'.name
      <3>1. ~split'.archived => files["CHAT"][split'.name] # NoText
        BY <1>2, ApplyFacts
      <3> QED
        BY <2>1, <3>1
    <2>3. files' = files
      BY <1>2, ApplyFacts
    <2> QED
      BY <1>b, <2>1, <2>2, <2>3
  <1>3. ASSUME NEW c \in split.todo, SplitChild(c),
               split' = [at |-> split.at, name |-> split.name, text |-> split.text,
                         todo |-> split.todo \ {c}, archived |-> split.archived]
        PROVE  SplitFree'
    <2>1. ASSUME NEW d \in split.todo \ {c} PROVE files'["CHAT"][d[1]] = NoText
      <3>1. /\ c \in Children[split.text] /\ d \in Children[split.text]
            /\ split.at = "children" /\ d[1] \in Name
        BY ChildFacts
      <3>2. split.text \in DOMAIN Children
        BY <3>1 DEF CycleInv, SplitTyped
      <3>3. d[1] # c[1]
        BY <3>1, <3>2, CycleAssumption
      <3> QED
        BY <1>3, <1>a, <3>1, <3>3, SplitChildCells, FolderFacts
    <2>2. /\ split'.at = split.at /\ split'.name = split.name
          /\ split'.todo = split.todo \ {c} /\ split'.archived = split.archived
      BY <1>3
    <2> QED
      BY <2>1, <2>2, <1>a, <1>b
  <1>4. CASE split' = NoSplit
    BY <1>4, <1>b DEF NoSplit
  <1> QED
    BY <1>1, <1>2, <1>3, <1>4, SplitStep

\* An archived parent is the one that was split.
LEMMA SplitCopiedStep ==
  ChecksHold /\ CycleInv /\ TextsInv /\ [CycleNext]_cycleVars => SplitCopied'
  <1> SUFFICES ASSUME ChecksHold, CycleInv, TextsInv, [CycleNext]_cycleVars
               PROVE  SplitCopied'
    OBVIOUS
  <1> DEFINE Here(f, s) == s.at # "idle" /\ ~s.archived /\ f["SPLIT_PARENT"][s.name] # NoText =>
                             /\ f["SPLIT_PARENT"][s.name] = s.text
                             /\ f["CHAT"][s.name] \in {NoText, s.text}
  <1>a. Here(files, split)
    BY DEF TextsInv, SplitCopied, Chat, Archive
  <1>b. SplitCopied' <=> Here(files', split')
    BY DEF SplitCopied, Chat, Archive
  <1>1. CASE split' = split /\ ~\E c \in split.todo : SplitChild(c)
    <2> SUFFICES ASSUME split.at # "idle", ~split.archived,
                        files'["SPLIT_PARENT"][split.name] # NoText
                 PROVE  /\ files'["SPLIT_PARENT"][split.name] = split.text
                        /\ files'["CHAT"][split.name] \in {NoText, split.text}
      BY <1>1, <1>b
    <2>1. split.name \in Name /\ split # NoSplit
      BY DEF CycleInv, SplitTyped, NoSplit
    <2>2. files'["SPLIT_PARENT"] = files["SPLIT_PARENT"]
      <3>1. ~SplitArchive /\ ~SplitArchiveHalf
        BY <1>1, <2>1 DEF SplitArchive, SplitArchiveHalf
      <3> QED
        BY <3>1, ArchiveWrites DEF Archive
    <2>3. Unguarded(split.name)
      BY <2>2 DEF Unguarded, Archive
    <2>4. files'["CHAT"][split.name] \in {files["CHAT"][split.name], NoText}
      BY <1>1, <2>1, <2>3, ChatWrites
    <2> QED
      BY <1>a, <2>2, <2>4
  <1>2. ASSUME NEW e \in envelopes, SplitApply(e) PROVE SplitCopied'
    <2>1. /\ files' = files /\ split'.name = e.name /\ split'.text = e.text
          /\ split'.archived = (files["CHAT"][e.name] = NoText)
          /\ files["CHAT"][e.name] # NoText =>
               /\ files["CHAT"][e.name] = e.text
               /\ files["SPLIT_PARENT"][e.name] \in {NoText, e.text}
      BY <1>2, ApplyFacts
    <2> QED
      BY <1>b, <2>1
  <1>3. ASSUME NEW c \in split.todo, SplitChild(c),
               split' = [at |-> split.at, name |-> split.name, text |-> split.text,
                         todo |-> split.todo \ {c}, archived |-> split.archived]
        PROVE  SplitCopied'
    <2>1. /\ split'.at = split.at /\ split'.name = split.name /\ split'.text = split.text
          /\ split'.archived = split.archived
      BY <1>3
    <2> SUFFICES ASSUME split.at # "idle", ~split.archived
                 PROVE  /\ files'["SPLIT_PARENT"][split.name] = files["SPLIT_PARENT"][split.name]
                        /\ files'["CHAT"][split.name] = files["CHAT"][split.name]
      BY <1>a, <1>b, <2>1
    <2>2. c[1] # split.name
      BY DEF TextsInv, SplitFree
    <2>3. split.name \in Name
      BY DEF CycleInv, SplitTyped
    <2> QED
      BY <1>3, <2>2, <2>3, SplitChildCells, FolderFacts
  <1>4. CASE split' = NoSplit
    BY <1>4, <1>b DEF NoSplit
  <1> QED
    BY <1>1, <1>2, <1>3, <1>4, SplitStep

\* A text leaves CHAT_RESEARCH for a folder out of the owner's reach, or the owner
\* replaces it.
LEMMA ChatStep ==
  ASSUME CycleInv, TextsInv, [CycleNext]_cycleVars, NEW n \in Name
  PROVE  \/ files'["CHAT"][n] = files["CHAT"][n]
         \/ files["CHAT"][n] = NoText
         \/ files["CHAT"][n] \in Kept'
         \/ \E f \in OwnerFiles : f[1] = n /\ Put(f[1], f[2])
  <1> DEFINE Goal == \/ files'["CHAT"][n] = files["CHAT"][n]
                     \/ files["CHAT"][n] = NoText
                     \/ files["CHAT"][n] \in Kept'
  <1> USE FolderFacts
  <1>a. ASSUME NEW x \in Folder \ {"CHAT"}, NEW k \in Name,
               files'[x][k] = files["CHAT"][n]
        PROVE  files["CHAT"][n] \in Kept' \cup {NoText}
    BY <1>a DEF Kept
  <1>1. CASE MoveItem
    <2>1. CASE n = ItemName
      BY <1>1, <2>1, <1>a, MoveItemCells
    <2>2. CASE n # ItemName
      BY <1>1, <2>2, MoveItemCells
    <2> QED
      BY <2>1, <2>2
  <1>2. CASE MoveItemHalf
    BY <1>2, MoveItemHalfCells
  <1>3. CASE DeleteItem
    <2>1. CASE n = ItemName
      <3>1. /\ files[ItemFolder][ItemName] = Current.text \/ Current.text \in published
            /\ files["CHAT"][ItemName] \in {NoText, Current.text}
        BY <1>3 DEF DeleteItem, Goes, TextsInv, DeleteCopied, There, Chat
      <3>2. files'[ItemFolder][ItemName] = files[ItemFolder][ItemName]
        BY <1>3, DeleteItemCells
      <3>3. published' = published
        BY <1>3 DEF DeleteItem, history
      <3>4. ItemFolder \in Folder \ {"CHAT"} /\ ItemName \in Name
        BY <1>3, DeleteItemCells
      <3>5. published \subseteq Kept'
        BY <3>3 DEF Kept
      <3> QED
        BY <2>1, <3>1, <3>2, <3>4, <3>5, <1>a
    <2>2. CASE n # ItemName
      BY <1>3, <2>2, DeleteItemCells
    <2> QED
      BY <2>1, <2>2
  <1>4. ASSUME NEW k \in Name, Publish(k) PROVE Goal
    BY <1>4, PublishCells
  <1>5. ASSUME NEW c \in split.todo, SplitChild(c) PROVE Goal
    <2>1. files["CHAT"][c[1]] = NoText
      BY DEF TextsInv, SplitFree, Chat
    <2> QED
      BY <1>5, <2>1, SplitChildCells
  <1>6. CASE SplitArchive
    <2>1. CASE files' = files \/ n # split.name
      <3>1. CASE files' = files
        BY <3>1
      <3>2. CASE files' # files /\ n # split.name
        BY <1>6, <3>2, SplitArchiveCells
      <3> QED
        BY <2>1, <3>1, <3>2
    <2>2. CASE files' # files /\ n = split.name /\ files["SPLIT_PARENT"][split.name] = NoText
      <3>1. files'["SPLIT_PARENT"][n] = files["CHAT"][n]
        BY <1>6, <2>2, SplitArchiveCells
      <3> QED
        BY <3>1, <1>a
    <2>3. CASE files' # files /\ n = split.name /\ files["SPLIT_PARENT"][split.name] # NoText
      <3>1. ~split.archived
            /\ files'["SPLIT_PARENT"][split.name] = files["SPLIT_PARENT"][split.name]
        BY <1>6, <2>3, SplitArchiveCells
      <3>2. split.at # "idle"
        BY <1>6 DEF SplitArchive
      <3>3. /\ files["SPLIT_PARENT"][split.name] = split.text
            /\ files["CHAT"][split.name] \in {NoText, split.text}
        BY <3>1, <3>2, <2>3 DEF TextsInv, SplitCopied, Chat, Archive
      <3> QED
        BY <2>3, <3>1, <3>3, <1>a
    <2> QED
      BY <2>1, <2>2, <2>3
  <1>7. CASE SplitArchiveHalf
    BY <1>7, SplitArchiveHalfCells
  <1>8. ASSUME NEW f \in OwnerFiles, Put(f[1], f[2]), f[1] # n PROVE Goal
    BY <1>8, PutCells
  <1>9. CASE UNCHANGED files
    BY <1>9
  <1> QED
    BY <1>1, <1>2, <1>3, <1>4, <1>5, <1>6, <1>7, <1>8, <1>9 DEF CycleNext, CycleStart, Run,
       Assess, Semantic, Resolve, Queue, Validate, Plan, Review, StoreReview, CheckItem,
       Finalize, Fails, ItemFails, CycleDies, Split, SplitPrepare, SplitApply, SplitDies,
       cycleVars

\* A child that was written stays, or the cycle takes it to a folder.
LEMMA ChildrenKeptStep ==
  ChecksHold /\ OwnerLeavesChildren /\ CycleInv /\ TextsInv /\ ChildrenKept
    /\ [CycleNext]_cycleVars => ChildrenKept'
  <1> SUFFICES ASSUME OwnerLeavesChildren, CycleInv, TextsInv, ChildrenKept,
                      [CycleNext]_cycleVars, split'.at # "idle",
                      NEW c \in Children[split'.text] \ split'.todo
               PROVE  files'["CHAT"][c[1]] = c[2] \/ c[2] \in Kept'
    BY DEF ChildrenKept, Chat
  <1>a. ASSUME split.at # "idle", split'.text = split.text, c \notin split.todo
        PROVE  files'["CHAT"][c[1]] = c[2] \/ c[2] \in Kept'
    <2>1. files["CHAT"][c[1]] = c[2] \/ c[2] \in Kept
      BY <1>a DEF ChildrenKept, Chat
    <2>2. split.text \in DOMAIN Children /\ c \in Children[split.text]
      BY <1>a DEF CycleInv, SplitTyped
    <2>3. c[1] \in Name /\ c[2] \in Text
      BY <2>2, CycleAssumption
    <2>4. ~\E f \in OwnerFiles : f[1] = c[1]
      BY <2>2 DEF OwnerLeavesChildren
    <2>5. Kept \subseteq Kept'
      BY KeptGrows DEF TextsInv
    <2> QED
      BY <2>1, <2>3, <2>4, <2>5, ChatStep, HeldFacts
  <1>1. CASE split' = split
    BY <1>1, <1>a
  <1>2. ASSUME NEW e \in envelopes, SplitApply(e)
        PROVE  files'["CHAT"][c[1]] = c[2] \/ c[2] \in Kept'
    BY <1>2, ApplyFacts
  <1>3. ASSUME NEW d \in split.todo, SplitChild(d),
               split' = [at |-> split.at, name |-> split.name, text |-> split.text,
                         todo |-> split.todo \ {d}, archived |-> split.archived]
        PROVE  files'["CHAT"][c[1]] = c[2] \/ c[2] \in Kept'
    <2>1. d[1] \in Name /\ split.at = "children"
      BY ChildFacts
    <2>2. CASE c = d
      BY <1>3, <2>1, <2>2, SplitChildCells, FolderFacts
    <2>3. CASE c # d
      BY <1>3, <1>a, <2>1, <2>3
    <2> QED
      BY <2>2, <2>3
  <1>4. CASE split' = NoSplit
    BY <1>4 DEF NoSplit
  <1> QED
    BY <1>1, <1>2, <1>3, <1>4, SplitStep

LEMMA TextsInit == CycleInit => TextsInv /\ ChildrenKept
  BY DEF CycleInit, TextsInv, ChildrenKept, MoveFree, DeleteCopied, SplitFree, SplitCopied,
     NoCycle, NoSplit

\* With sound checks the four parts above always hold.
LEMMA TextsAlways ==
  ASSUME ChecksHold
  PROVE  CycleSpec => [](CycleInv /\ TextsInv)
  <1>1. CycleInv /\ TextsInv /\ [CycleNext]_cycleVars => TextsInv'
    BY MoveFreeStep, DeleteCopiedStep, SplitFreeStep, SplitCopiedStep DEF TextsInv
  <1>2. CycleInit => TextsInv
    BY TextsInit
  <1> QED
    BY <1>1, <1>2, CycleInductive, PTL DEF CycleSpec

\* No step of a program removes the last copy of a text.
LEMMA TextsStayStep ==
  ASSUME CycleInv, TextsInv, [CycleNext]_cycleVars
  PROVE  TextsStay
  <1> SUFFICES ASSUME puts' = puts, NEW t \in Texts(files) \ Texts(files')
               PROVE  t \in published'
    BY DEF TextsStay
  <1>1. PICK x \in Folder, n \in Name : t = files[x][n] /\ t # NoText
    BY DEF Texts
  <1>2. files'[x][n] # t
    BY <1>1 DEF Texts
  <1>3. t \in Kept'
    <2>1. CASE x = "CHAT"
      <3>1. ASSUME NEW f \in OwnerFiles, Put(f[1], f[2]) PROVE FALSE
        BY <3>1, PutCells
      <3> QED
        BY <1>1, <1>2, <2>1, <3>1, ChatStep
    <2>2. CASE x # "CHAT"
      BY <1>1, <2>2, KeptGrows DEF Kept, TextsInv
    <2> QED
      BY <2>1, <2>2
  <1>4. t \in published' \/ \E y \in Folder, m \in Name : files'[y][m] = t
    BY <1>3 DEF Kept
  <1> QED
    BY <1>1, <1>4 DEF Texts

\* The archive is written when no child is left to write.
LEMMA ParentLastStep ==
  ASSUME CycleInv, ChildrenKept, [CycleNext]_cycleVars
  PROVE  ParentLast
  <1> SUFFICES ASSUME Archive' # Archive, NEW c \in Children[split.text]
               PROVE  c[2] \in Texts(files) \cup published
    BY DEF ParentLast
  <1>1. split.at = "children" /\ split.todo = {}
    BY ArchiveWrites DEF SplitArchive, SplitArchiveHalf
  <1>2. files["CHAT"][c[1]] = c[2] \/ c[2] \in Kept
    BY <1>1 DEF ChildrenKept, Chat
  <1>3. c[1] \in Name /\ c[2] \in Text
    <2>1. split.text \in DOMAIN Children
      BY <1>1 DEF CycleInv, SplitTyped
    <2> QED
      BY <2>1, CycleAssumption
  <1>4. CASE files["CHAT"][c[1]] = c[2]
    BY <1>3, <1>4, HeldFacts, FolderFacts DEF Texts
  <1>5. CASE c[2] \in Kept
    BY <1>3, <1>5, HeldFacts DEF Kept, Texts
  <1> QED
    BY <1>2, <1>4, <1>5

\* The cycle, the finalizer and the splits never lose a text, in whatever order they
\* run and wherever they stop, as long as no failed read passes for a missing file and
\* nothing comes between a check and the deletion or the write it allows.
THEOREM NoTextIsLost ==
  ASSUME ChecksHold
  PROVE  CycleSpec => [][TextsStay]_cycleVars
  <1>1. CycleInv /\ TextsInv /\ [CycleNext]_cycleVars => [TextsStay]_cycleVars
    BY TextsStayStep
  <1> QED
    BY <1>1, TextsAlways, PTL DEF CycleSpec

\* With an owner who leaves the names of children alone, a split besides archives
\* nothing before all its children are in CHAT_RESEARCH, decided or published.
THEOREM TextsAndParents ==
  ASSUME ChecksHold, OwnerLeavesChildren
  PROVE  CycleSpec => NothingLost
  <1>1. CycleInv /\ TextsInv /\ ChildrenKept /\ [CycleNext]_cycleVars => ChildrenKept'
    BY ChildrenKeptStep
  <1>2. CycleInv /\ TextsInv /\ ChildrenKept /\ [CycleNext]_cycleVars =>
          [TextsStay /\ ParentLast]_cycleVars
    BY TextsStayStep, ParentLastStep
  <1>3. CycleInit => ChildrenKept
    BY TextsInit
  <1> QED
    BY <1>1, <1>2, <1>3, TextsAlways, PTL DEF CycleSpec, NothingLost
=============================================================================
