--------------------------- MODULE CurationSyncProofs ---------------------------
(***************************************************************************)
(* Theorems about CurationSync, for any packages, any paths of their         *)
(* records, and any number of acts of the curator and of faults.             *)
(***************************************************************************)
EXTENDS CurationSync, FiniteSetTheorems, TLAPS

Kinds ==
  /\ evidence \in [Package -> Nat]
  /\ index \subseteq [id : Package, rev : Rev, place : 1..Window]
  /\ offer \cup handoff \cup outbox \cup items \cup receipt \subseteq Item
  /\ library \in [Path -> Item \cup {Free}]
  /\ routes \in [{"domain", "master"} -> SUBSET Item]

\* Nothing is offered, curated or published ahead of the index or of READY.
Texts == handoff \cup outbox \cup Records
Behind ==
  /\ \A x \in index : x.rev <= evidence[x.id]
  /\ \A x, z \in index : x.id = z.id => x.rev = z.rev
  /\ \A y \in Texts : y.rev <= evidence[y.id]
  /\ \A y \in Texts, x \in index : x.id = y.id => y.rev <= x.rev

\* What is about to be offered is of the revisions of the index.
Offered == pc = "handoff file" => \A x \in offer : x.id \in ReadyIds /\ x.rev = RevisionOf(x.id)

\* The handoff has the latest revision of what it offers, the outbox that of
\* what it publishes.
Latest ==
  /\ \A x \in handoff, y \in Texts : x.id = y.id => y.rev <= x.rev
  /\ \A x \in outbox, y \in Records : x.id = y.id => y.rev <= x.rev

\* The outbox has one record for a path.
OneText == \A x, y \in outbox : Target[x.id] = Target[y.id] => x = y

\* The library has what has a receipt, or a later text of the same record.
Receipted ==
  \/ "target" \in misread
  \/ \A x \in receipt :
       library[Target[x.id]].id = x.id /\ x.rev <= library[Target[x.id]].rev

\* Before the decisions are applied, MASTER_INDEX has every record.
Routed == pc = "apply" => Records \subseteq routes["master"] \/ "listing" \in misread

IInv == Kinds /\ Behind /\ Offered /\ Latest /\ OneText /\ Receipted /\ Routed

-----------------------------------------------------------------------------
(* Facts about the operators.                                               *)

LEMMA Assumed ==
  /\ Rev \subseteq Nat /\ MaxRev \in Nat /\ "nobody" \notin Package
  /\ \A p \in Package : Target[p] \in Path
  BY CurationAssumption DEF Rev, Path

LEMMA RecordsTyped == Kinds => Records \subseteq Item
  BY DEF Kinds, Records

LEMMA RevisionIndexed ==
  ASSUME NEW p \in ReadyIds
  PROVE  \E x \in index : x.id = p /\ x.rev = RevisionOf(p)
  BY DEF ReadyIds, RevisionOf

\* What Offer takes is in the index, at the revision of the index.
LEMMA OfferedFromIndex ==
  ASSUME Kinds, NEW before, NEW active, NEW y \in Offer(Refreshed(before, active))
  PROVE  y \in Item /\ y.id \in ReadyIds /\ y.rev = RevisionOf(y.id)
  <1> DEFINE after == Refreshed(before, active)
  <1>1. PICK x \in index : after[x.id].state = "pending" /\ y = [id |-> x.id, rev |-> after[x.id].rev]
    BY DEF Offer
  <1>2. x.id \in Package /\ x.id \in ReadyIds
    BY <1>1 DEF Kinds, ReadyIds
  <1>3. after[x.id] = IF x.id \in active THEN Transition(x.id, batch[x.id].state)
                      ELSE ReconcileOne(x.id, before[x.id])
    BY <1>2 DEF Refreshed
  <1>4. after[x.id].rev = RevisionOf(x.id)
    BY <1>1, <1>2, <1>3 DEF Transition, ReconcileOne, Terminal
  <1>5. RevisionOf(x.id) \in Rev
    BY <1>2, RevisionIndexed DEF Kinds
  <1>6. QED
    BY <1>1, <1>2, <1>4, <1>5 DEF Item

\* A package becomes analyzed by a decision of the batch only.
LEMMA AnalyzedByDecision ==
  ASSUME NEW before, NEW order, NEW active, WriteState(before, order, active),
         NEW p \in Package, NewlyAnalyzed(p), before \in {state, None}
  PROVE  p \in active /\ batch[p].state = "analyzed"
  <1> DEFINE after == Refreshed(before, active)
  <1>1. state'[p] \in {after[p], Nothing}
    BY DEF WriteState
  <1>2. state'[p] = after[p] /\ after[p].state = "analyzed" /\ after[p] # state[p]
    BY <1>1 DEF NewlyAnalyzed, Nothing
  <1>3. after[p] = IF p \in active THEN Transition(p, batch[p].state)
                   ELSE ReconcileOne(p, before[p])
    BY DEF Refreshed
  <1>4. before[p] # after[p]
    BY <1>2 DEF None, Nothing
  <1>5. QED
    BY <1>2, <1>3, <1>4 DEF ReconcileOne, Transition

-----------------------------------------------------------------------------
(* Steps that disturb nothing but the place of the run.                     *)

LEMMA BehindKept ==
  ASSUME Behind, UNCHANGED <<evidence, index>>, Texts' \subseteq Texts
  PROVE  Behind'
  BY DEF Behind

LEMMA LatestKept ==
  ASSUME Latest, handoff' = handoff, outbox' = outbox, Records' = Records
  PROVE  Latest'
  <1>1. Texts' = Texts
    BY DEF Texts
  <1>2. QED
    BY <1>1 DEF Latest

LEMMA ReceiptedKept ==
  ASSUME Receipted, UNCHANGED <<library, receipt>>, misread \subseteq misread'
  PROVE  Receipted'
  BY DEF Receipted

\* Neither the texts nor the receipt change.
LEMMA TextsKept ==
  ASSUME IInv, UNCHANGED <<evidence, index, handoff, outbox, library, receipt>>,
         misread \subseteq misread'
  PROVE  Behind' /\ Latest' /\ OneText' /\ Receipted' /\ Records' = Records
  <1>1. Records' = Records /\ Texts' = Texts
    BY DEF Texts, Records
  <1>2. OneText'
    BY DEF IInv, OneText
  <1>3. QED
    BY <1>1, <1>2, BehindKept, LatestKept, ReceiptedKept DEF IInv

LEMMA Quiet ==
  ASSUME IInv, UNCHANGED <<evidence, index, offer, handoff, outbox, shelf>>,
         misread \subseteq misread', items' \subseteq Item,
         pc' \in {"idle", "publish", "list", "item", "master"}
  PROVE  IInv'
  <1>1. UNCHANGED <<library, routes, receipt>>
    BY DEF shelf
  <1>2. Kinds'
    BY <1>1 DEF IInv, Kinds
  <1>3. Offered' /\ Routed'
    BY DEF Offered, Routed
  <1>4. QED
    BY <1>1, <1>2, <1>3, TextsKept DEF IInv

LEMMA QuietSteps ==
  ASSUME IInv,
         \/ StartDecisions \/ PublishSkip \/ PublishBegin \/ PublishRefused
         \/ NothingActive \/ ApplyRefused \/ Die
  PROVE  IInv'
  <1>1. UNCHANGED <<evidence, index, offer, handoff, outbox, shelf, misread>>
    BY DEF StartDecisions, PublishSkip, PublishBegin, PublishRefused, NothingActive,
           ApplyRefused, Die, ready, curator
  <1>2. items' \in {items, outbox}
    BY DEF StartDecisions, PublishSkip, PublishBegin, PublishRefused, NothingActive,
           ApplyRefused, Die, publish
  <1>3. pc' \in {"idle", "publish", "list", "item", "master"}
    BY DEF StartDecisions, PublishSkip, PublishBegin, PublishRefused, NothingActive,
           ApplyRefused, Die, Goto
  <1>4. items' \subseteq Item
    BY <1>2 DEF IInv, Kinds
  <1>5. QED
    BY <1>1, <1>3, <1>4, Quiet

-----------------------------------------------------------------------------
(* The ingest run.                                                          *)

LEMMA StartIngestStep ==
  ASSUME IInv, StartIngest
  PROVE  IInv'
  <1>1. /\ UNCHANGED <<index, offer, handoff, outbox, items, library, routes, receipt, misread>>
        /\ pc' = "index"
    BY DEF StartIngest, Goto, curator, shelf, publish
  <1>2. /\ evidence' \in [Package -> Nat] /\ evidence \in [Package -> Nat]
        /\ \A p \in Package : evidence[p] <= evidence'[p]
    BY DEF StartIngest, IInv, Kinds
  <1>3. Records' = Records /\ Texts' = Texts /\ Texts \subseteq Item
    BY <1>1, RecordsTyped DEF Texts, Records, IInv, Kinds
  <1>4. Kinds'
    BY <1>1, <1>2 DEF IInv, Kinds
  <1>5. Behind'
    <2>1. \A x \in index : x.rev <= evidence'[x.id]
      <3> SUFFICES ASSUME NEW x \in index PROVE x.rev <= evidence'[x.id]
        OBVIOUS
      <3>1. x.rev \in Nat /\ x.id \in Package /\ x.rev <= evidence[x.id]
        BY Assumed DEF IInv, Kinds, Behind
      <3>2. QED
        BY <1>2, <3>1
    <2>2. \A y \in Texts : y.rev <= evidence'[y.id]
      <3> SUFFICES ASSUME NEW y \in Texts PROVE y.rev <= evidence'[y.id]
        OBVIOUS
      <3>1. y.rev \in Nat /\ y.id \in Package /\ y.rev <= evidence[y.id]
        BY <1>3, Assumed DEF IInv, Behind, Item
      <3>2. QED
        BY <1>2, <3>1
    <2>3. QED
      BY <1>1, <1>3, <2>1, <2>2 DEF IInv, Behind
  <1>6. Latest' /\ OneText' /\ Receipted' /\ Offered' /\ Routed'
    BY <1>1, <1>3, LatestKept, ReceiptedKept DEF IInv, OneText, Offered, Routed
  <1>7. QED
    BY <1>4, <1>5, <1>6 DEF IInv

LEMMA ReadyIndexStep ==
  ASSUME IInv, ReadyIndex
  PROVE  IInv'
  <1>1. /\ UNCHANGED <<evidence, offer, handoff, outbox, items, library, routes, receipt, misread>>
        /\ pc' = "handoff"
    BY DEF ReadyIndex, Goto, ready, curator, shelf, publish
  <1>2. index' = index \/ \E P : index' = Indexed(P)
    BY DEF ReadyIndex
  <1>3. Records' = Records /\ Texts' = Texts /\ Texts \subseteq Item
    BY <1>1, RecordsTyped DEF Texts, Records, IInv, Kinds
  <1>4. Kinds' /\ Behind'
    <2>1. CASE index' = index
      BY <1>1, <1>3, <2>1, BehindKept DEF IInv, Kinds
    <2>2. ASSUME NEW P, index' = Indexed(P) PROVE Kinds' /\ Behind'
      <3>1. \A x \in index' : /\ x \in [id : Package, rev : Rev, place : 1..Window]
                              /\ x.rev = evidence[x.id]
        BY <2>2 DEF Indexed
      <3>2. Kinds'
        BY <1>1, <3>1 DEF IInv, Kinds
      <3>3. \A x \in index' : x.rev <= evidence[x.id]
        <4> SUFFICES ASSUME NEW x \in index' PROVE x.rev <= evidence[x.id]
          OBVIOUS
        <4>1. x.rev \in Nat /\ x.rev = evidence[x.id]
          BY <3>1, Assumed
        <4>2. QED
          BY <4>1
      <3>4. \A x, z \in index' : x.id = z.id => x.rev = z.rev
        BY <3>1
      <3>5. \A y \in Texts, x \in index' : x.id = y.id => y.rev <= x.rev
        BY <3>1 DEF IInv, Behind
      <3>6. QED
        BY <1>1, <1>3, <3>2, <3>3, <3>4, <3>5 DEF IInv, Behind
    <2>3. QED
      BY <1>2, <2>1, <2>2
  <1>5. Latest' /\ OneText' /\ Receipted' /\ Offered' /\ Routed'
    BY <1>1, <1>3, LatestKept, ReceiptedKept DEF IInv, OneText, Offered, Routed
  <1>6. QED
    BY <1>4, <1>5 DEF IInv

LEMMA RefreshSteps ==
  ASSUME IInv, HandoffState \/ ApplyState
  PROVE  IInv'
  <1>1. /\ UNCHANGED <<evidence, index, handoff, outbox, items, shelf>>
        /\ pc' = "handoff file"
    BY DEF HandoffState, ApplyState, Goto, ready, curator, publish
  <1>2. PICK active : RefreshState(active)
    BY DEF HandoffState, ApplyState
  <1>3. misread \subseteq misread' /\ \E before : offer' = Offer(Refreshed(before, active))
    BY <1>2 DEF RefreshState, WriteState
  <1>4. \A x \in offer' : x \in Item /\ x.id \in ReadyIds /\ x.rev = RevisionOf(x.id)
    BY <1>3, OfferedFromIndex DEF IInv
  <1>5. Kinds' /\ Offered'
    BY <1>1, <1>4 DEF IInv, Kinds, Offered, ReadyIds, RevisionOf, shelf
  <1>6. Behind' /\ Latest' /\ OneText' /\ Receipted' /\ Routed'
    BY <1>1, <1>3, TextsKept DEF shelf, Routed
  <1>7. QED
    BY <1>5, <1>6 DEF IInv

LEMMA HandoffFileStep ==
  ASSUME IInv, HandoffFile
  PROVE  IInv'
  <1>1. /\ UNCHANGED <<evidence, index, offer, outbox, items, shelf, misread>>
        /\ pc = "handoff file" /\ pc' = "idle" /\ handoff' = offer
    BY DEF HandoffFile, Goto, ready, curator, publish
  <1>2. \A x \in handoff' : \E z \in index : z.id = x.id /\ z.rev = x.rev /\ x.rev = RevisionOf(x.id)
    <2> SUFFICES ASSUME NEW x \in handoff'
                 PROVE  \E z \in index : z.id = x.id /\ z.rev = x.rev /\ x.rev = RevisionOf(x.id)
      OBVIOUS
    <2>1. x.id \in ReadyIds /\ x.rev = RevisionOf(x.id)
      BY <1>1 DEF IInv, Offered
    <2>2. QED
      BY <2>1, RevisionIndexed
  <1>3. Kinds' /\ Records' = Records /\ Records \subseteq Item
    BY <1>1, RecordsTyped DEF IInv, Kinds, Records, shelf
  <1>4. Texts' = handoff' \cup outbox \cup Records
    BY <1>1, <1>3 DEF Texts
  <1>5. \A x \in handoff', y \in outbox \cup Records : x.id = y.id => y.rev <= x.rev
    BY <1>2 DEF IInv, Behind, Texts
  <1>6. \A x, y \in handoff' : x.id = y.id => y.rev <= x.rev
    <2> SUFFICES ASSUME NEW x \in handoff', NEW y \in handoff', x.id = y.id PROVE y.rev <= x.rev
      OBVIOUS
    <2>1. x.rev = RevisionOf(x.id) /\ y.rev = RevisionOf(y.id)
      BY <1>2
    <2>2. x.rev \in Nat
      BY <1>3, Assumed DEF Kinds, Item
    <2>3. QED
      BY <2>1, <2>2
  <1>7. Latest'
    BY <1>1, <1>3, <1>4, <1>5, <1>6 DEF IInv, Latest
  <1>8. \A y \in handoff' : y.rev <= evidence[y.id]
    BY <1>2 DEF IInv, Behind
  <1>9. \A y \in handoff', x \in index : x.id = y.id => y.rev <= x.rev
    <2> SUFFICES ASSUME NEW y \in handoff', NEW x \in index, x.id = y.id PROVE y.rev <= x.rev
      OBVIOUS
    <2>1. PICK z \in index : z.id = y.id /\ z.rev = y.rev
      BY <1>2
    <2>2. x.rev = z.rev
      BY <2>1 DEF IInv, Behind
    <2>3. x.rev \in Nat
      BY Assumed DEF IInv, Kinds
    <2> QED
      BY <2>1, <2>2, <2>3
  <1>10. Behind'
    BY <1>1, <1>4, <1>8, <1>9 DEF IInv, Behind, Texts
  <1>11. Offered' /\ OneText' /\ Receipted' /\ Routed'
    BY <1>1, <1>3 DEF IInv, Offered, OneText, Receipted, Routed, shelf
  <1>12. QED
    BY <1>3, <1>7, <1>10, <1>11 DEF IInv

-----------------------------------------------------------------------------
(* The decision run.                                                        *)

\* A write puts a text of the outbox at its path, over an earlier one of the
\* same record, or where the target could not be read.
LEMMA PublishItemStep ==
  ASSUME IInv, NEW x \in items, PublishItem(x)
  PROVE  IInv'
  <1> DEFINE t == Target[x.id]
  <1>1. /\ UNCHANGED <<evidence, index, offer, handoff, outbox, items, routes, receipt>>
        /\ pc' \in {"item", "idle"} /\ x \in outbox /\ x \in Item
        /\ library' = [library EXCEPT ![t] = x]
    BY DEF PublishItem, ready, curator, IInv, Kinds
  <1>2. t \in Path /\ library \in [Path -> Item \cup {Free}]
    BY <1>1, Assumed DEF IInv, Kinds, Item
  <1>3. library'[t] = x /\ \A u \in Path \ {t} : library'[u] = library[u]
    BY <1>1, <1>2
  <1>4. Records' \subseteq Records \cup {x} /\ Records \subseteq Item
    BY <1>3, RecordsTyped DEF Records, IInv
  <1>5. Texts' \subseteq Texts
    BY <1>1, <1>4 DEF Texts
  <1>6. Kinds'
    BY <1>1, <1>2 DEF IInv, Kinds
  <1>7. Behind' /\ Offered' /\ OneText' /\ Routed'
    BY <1>1, <1>5 DEF IInv, Behind, Offered, OneText, Routed, ReadyIds, RevisionOf
  <1>8. Latest'
    <2>1. \A z \in handoff, y \in Texts' : z.id = y.id => y.rev <= z.rev
      BY <1>5 DEF IInv, Latest
    <2>2. \A z \in outbox, y \in Records' : z.id = y.id => y.rev <= z.rev
      <3> SUFFICES ASSUME NEW z \in outbox, NEW y \in Records', z.id = y.id
                   PROVE  y.rev <= z.rev
        OBVIOUS
      <3>1. CASE y \in Records
        BY <3>1 DEF IInv, Latest
      <3>2. CASE y = x
        <4>1. z = x
          BY <1>1, <3>2 DEF IInv, OneText
        <4>2. x.rev \in Nat
          BY <1>1, Assumed DEF Item
        <4>3. QED
          BY <3>2, <4>1, <4>2
      <3>3. QED
        BY <1>4, <3>1, <3>2
    <2>3. QED
      BY <1>1, <2>1, <2>2 DEF Latest
  <1>9. Receipted'
    <2>1. CASE "target" \in misread'
      BY <2>1 DEF Receipted
    <2>2. CASE "target" \notin misread'
      <3>1. misread' = misread /\ MayWrite(x)
        BY <2>2 DEF PublishItem
      <3>2. \A r \in receipt : library[Target[r.id]].id = r.id /\ r.rev <= library[Target[r.id]].rev
        BY <2>2, <3>1 DEF IInv, Receipted
      <3> SUFFICES ASSUME NEW r \in receipt
                   PROVE  /\ library'[Target[r.id]].id = r.id
                          /\ r.rev <= library'[Target[r.id]].rev
        BY <1>1 DEF Receipted
      <3>3. Target[r.id] \in Path /\ r \in Item
        BY Assumed DEF IInv, Kinds, Item
      <3>4. CASE Target[r.id] # t
        BY <1>3, <3>2, <3>3, <3>4
      <3>5. CASE Target[r.id] = t
        <4>1. library[t].id = r.id /\ r.rev <= library[t].rev
          BY <3>2, <3>5
        <4>2. library[t].id \in {"nobody", x.id}
          BY <3>1 DEF MayWrite
        <4>3. x.id = r.id
          BY <3>3, <4>1, <4>2, Assumed DEF Item
        <4>4. library[t] \in Records
          BY <1>2, <3>3, <4>1, Assumed DEF Records, Free, Item
        <4>5. library[t].rev <= x.rev
          BY <1>1, <4>1, <4>3, <4>4 DEF IInv, Latest
        <4>6. {r.rev, x.rev, library[t].rev} \subseteq Nat
          BY <1>1, <1>4, <3>3, <4>4, Assumed DEF Item
        <4>7. r.rev <= x.rev
          BY <4>1, <4>5, <4>6
        <4>8. QED
          BY <1>3, <3>5, <4>3, <4>7
      <3>6. QED
        BY <3>4, <3>5
    <2>3. QED
      BY <2>1, <2>2
  <1>10. QED
    BY <1>6, <1>7, <1>8, <1>9 DEF IInv

LEMMA PublishReceiptStep ==
  ASSUME IInv, PublishReceipt
  PROVE  IInv'
  <1>1. /\ UNCHANGED <<evidence, index, offer, handoff, outbox, items, library, routes, misread>>
        /\ pc' = "list" /\ receipt' = items /\ Verified
    BY DEF PublishReceipt, Goto, ready, curator, publish
  <1>2. \A x \in receipt' : x.rev \in Nat
    BY <1>1, Assumed DEF IInv, Kinds, Item
  <1>3. Receipted'
    BY <1>1, <1>2 DEF Receipted, Verified
  <1>4. Records' = Records /\ Texts' = Texts
    BY <1>1 DEF Texts, Records
  <1>5. Kinds'
    BY <1>1 DEF IInv, Kinds
  <1>6. Behind' /\ Latest' /\ OneText' /\ Offered' /\ Routed'
    BY <1>1, <1>4, BehindKept, LatestKept DEF IInv, OneText, Offered, Routed
  <1>7. QED
    BY <1>3, <1>5, <1>6 DEF IInv

LEMMA IndexSteps ==
  ASSUME IInv, IndexSkip \/ IndexDomains \/ IndexMaster
  PROVE  IInv'
  <1>1. /\ UNCHANGED <<evidence, index, offer, handoff, outbox, items, library, receipt>>
        /\ misread \subseteq misread' /\ pc' \in {"apply", "master"}
    BY DEF IndexSkip, IndexDomains, IndexMaster, WriteRoutes, Goto, ready, curator, shelf, publish
  <1>2. Records' = Records /\ Records \subseteq Item
    BY <1>1, RecordsTyped DEF Records, IInv
  <1>3. routes' \in [{"domain", "master"} -> SUBSET Item]
    BY <1>2 DEF IndexSkip, IndexDomains, IndexMaster, WriteRoutes, IInv, Kinds, shelf
  <1>4. Routed'
    <2>1. CASE IndexSkip
      BY <1>2, <2>1 DEF IndexSkip, Routed
    <2>2. CASE IndexDomains
      BY <2>2 DEF IndexDomains, WriteRoutes, Goto, Routed
    <2>3. CASE IndexMaster
      <3>1. routes'["master"] = Records
        BY <2>3 DEF IndexMaster, WriteRoutes, IInv, Kinds
      <3>2. QED
        BY <1>2, <3>1 DEF Routed
    <2>4. QED
      BY <2>1, <2>2, <2>3
  <1>5. QED
    BY <1>1, <1>2, <1>3, <1>4 DEF IInv, Kinds, Behind, Texts, Offered, Latest, OneText,
                                  Receipted, ReadyIds, RevisionOf

-----------------------------------------------------------------------------
(* The curator.                                                             *)

LEMMA CurateStep ==
  ASSUME IInv, NEW x \in handoff, NEW verdict \in Verdict, Curate(x, verdict)
  PROVE  IInv'
  <1>1. UNCHANGED <<evidence, index, offer, handoff, items, shelf, pc, misread>>
    BY DEF Curate, ready, publish
  <1>2. \/ outbox' = outbox
        \/ outbox' = {y \in outbox : Target[y.id] # Target[x.id]} \cup {x}
    BY DEF Curate
  <1>3. Records' = Records /\ Texts' \subseteq Texts /\ outbox' \subseteq outbox \cup {x}
    BY <1>1, <1>2 DEF Texts, Records, shelf
  <1>4. Kinds'
    BY <1>1, <1>3 DEF IInv, Kinds, shelf
  <1>5. Behind' /\ Offered' /\ Receipted' /\ Routed'
    BY <1>1, <1>3 DEF IInv, Behind, Offered, Receipted, Routed, ReadyIds, RevisionOf, shelf
  <1>6. Latest'
    BY <1>1, <1>3 DEF IInv, Latest, Texts
  <1>7. OneText'
    BY <1>2 DEF IInv, OneText
  <1>8. QED
    BY <1>4, <1>5, <1>6, <1>7 DEF IInv

-----------------------------------------------------------------------------
(* The invariant, and the theorems.                                         *)

LEMMA InitInv == Init => IInv
  <1> SUFFICES ASSUME Init PROVE IInv
    OBVIOUS
  <1>1. Kinds /\ Records = {}
    BY DEF Init, Kinds, Records
  <1>2. Behind /\ Offered /\ Latest /\ OneText /\ Receipted /\ Routed
    BY <1>1 DEF Init, Behind, Texts, Offered, Latest, OneText, Receipted, Routed
  <1>3. QED
    BY <1>1, <1>2 DEF IInv

LEMMA NextInv == IInv /\ [Next]_vars => IInv'
  <1> SUFFICES ASSUME IInv, [Next]_vars PROVE IInv'
    OBVIOUS
  <1>1. CASE Next
    BY <1>1, QuietSteps, StartIngestStep, ReadyIndexStep, RefreshSteps, HandoffFileStep,
       PublishItemStep, PublishReceiptStep, IndexSteps, CurateStep
       DEF Next, Ingest, Decide, Publish
  <1>2. CASE UNCHANGED vars
    <2>1. /\ UNCHANGED <<evidence, index, offer, handoff, outbox, items, pc, misread>>
          /\ UNCHANGED <<library, routes, receipt>>
      BY <1>2 DEF vars, ready, curator, shelf, publish
    <2>2. Kinds' /\ Offered'
      BY <2>1 DEF IInv, Kinds, Offered, ReadyIds, RevisionOf
    <2>3. Behind' /\ Latest' /\ OneText' /\ Receipted' /\ Records' = Records
      BY <2>1, TextsKept
    <2>4. Routed'
      BY <2>1, <2>3 DEF IInv, Routed
    <2>5. QED
      BY <2>2, <2>3, <2>4 DEF IInv
  <1>3. QED
    BY <1>1, <1>2

LEMMA Inductive == Spec => []IInv
  BY InitInv, NextInv, PTL DEF Spec

\* A record of library_publish.py is replaced by a later text of the same record
\* only, unless its target could not be read.
OwnerStep ==
  \A t \in Path : library[t] # Free /\ library'[t].id # library[t].id => "target" \in misread'

LEMMA OwnerKeptStep == IInv /\ [Next]_vars => OwnerStep
  <1> SUFFICES ASSUME IInv, [Next]_vars, NEW t \in Path, library[t] # Free,
                      library'[t].id # library[t].id
               PROVE  "target" \in misread'
    BY DEF OwnerStep
  <1>1. PICK x \in items : PublishItem(x)
    BY DEF Next, vars, Ingest, Decide, Publish, Die, Curate, StartIngest, ReadyIndex,
           HandoffState, HandoffFile, StartDecisions, PublishSkip, PublishBegin,
           PublishRefused, PublishReceipt, IndexSkip, IndexDomains, IndexMaster,
           WriteRoutes, NothingActive, ApplyRefused, ApplyState, shelf
  <1>2. library[t] \in Item /\ library[t].id # "nobody"
    BY Assumed DEF IInv, Kinds, Item
  <1>3. t = Target[x.id] /\ library'[t] = x
    BY <1>1 DEF PublishItem, IInv, Kinds
  <1>4. ~MayWrite(x)
    BY <1>2, <1>3 DEF MayWrite
  <1>5. QED
    BY <1>1, <1>4 DEF PublishItem

THEOREM OwnerKeptAlways == Spec => OwnerKept
  BY Inductive, OwnerKeptStep, PTL DEF Spec, OwnerKept, OwnerStep

AnalyzedStep ==
  \A p \in Package : NewlyAnalyzed(p) =>
    \/ \E x \in routes["master"] : x.id = p /\ x.rev = batch[p].rev
    \/ misread \cap {"target", "listing"} # {}

LEMMA AnalyzedPublishedStep == IInv /\ [Next]_vars => AnalyzedStep
  <1> SUFFICES ASSUME IInv, [Next]_vars, NEW p \in Package, NewlyAnalyzed(p),
                      misread \cap {"target", "listing"} = {}
               PROVE  \E x \in routes["master"] : x.id = p /\ x.rev = batch[p].rev
    BY DEF AnalyzedStep
  <1>1. HandoffState \/ ApplyState
    BY DEF NewlyAnalyzed, Next, vars, Ingest, Decide, Publish, Die, Curate, StartIngest,
           ReadyIndex, HandoffFile, StartDecisions, PublishSkip, PublishBegin,
           PublishRefused, PublishItem, PublishReceipt, IndexSkip, IndexDomains, IndexMaster,
           WriteRoutes, NothingActive, ApplyRefused, curation
  <1>2. \A active : RefreshState(active) => p \in active /\ batch[p].state = "analyzed"
    BY AnalyzedByDecision DEF RefreshState
  <1>3. ApplyState /\ p \in Active /\ batch[p].state = "analyzed"
    BY <1>1, <1>2 DEF HandoffState, ApplyState
  <1> DEFINE decided == [id |-> p, rev |-> batch[p].rev]
             record == library[Target[p]]
  <1>4. decided \in handoff /\ decided \in receipt
    BY <1>3 DEF ApplyState, Active, Covered
  <1>5. record.id = p /\ batch[p].rev <= record.rev
    BY <1>4 DEF IInv, Receipted
  <1>6. record \in Records /\ record \in Item
    BY <1>5, Assumed DEF IInv, Kinds, Records, Free
  <1>7. record.rev <= batch[p].rev
    BY <1>4, <1>5, <1>6 DEF IInv, Latest, Texts
  <1>8. record.rev \in Nat /\ batch[p].rev \in Nat
    BY <1>4, <1>6, Assumed DEF IInv, Kinds, Item
  <1>9. record.rev = batch[p].rev
    BY <1>5, <1>7, <1>8
  <1>10. pc = "apply"
    BY <1>3 DEF ApplyState, Goto
  <1>11. record \in routes["master"]
    BY <1>6, <1>10 DEF IInv, Routed
  <1>12. QED
    BY <1>5, <1>9, <1>11

\* When a package becomes analyzed its record is in the library at the revision that was
\* decided, and MASTER_INDEX routes to it, unless a failed read was taken for an absence.
THEOREM AnalyzedIsPublished == Spec => AnalyzedPublished
  BY Inductive, AnalyzedPublishedStep, PTL DEF Spec, AnalyzedPublished, AnalyzedStep

-----------------------------------------------------------------------------
(* Holds.                                                                   *)

\* Who is decided on has a verdict and a revision.
Decided(table) == table \in [Package -> {Nothing} \cup [state : Verdict, rev : Rev]]
DInv == Decided(decisions) /\ Decided(batch)

LEMMA DecidedStep == IInv /\ DInv /\ [Next]_vars => DInv'
  <1> SUFFICES ASSUME IInv, DInv, [Next]_vars PROVE DInv'
    OBVIOUS
  <1>1. CASE UNCHANGED <<decisions, batch>>
    BY <1>1 DEF DInv, Decided
  <1>2. CASE StartDecisions
    <2>1. decisions' = decisions /\ batch' = decisions
      BY <1>2 DEF StartDecisions, curator
    <2>2. QED
      BY <2>1 DEF DInv, Decided
  <1>3. ASSUME NEW x \in handoff, NEW verdict \in Verdict, Curate(x, verdict) PROVE DInv'
    <2>1. batch' = batch /\ x \in Item
      BY <1>3 DEF Curate, IInv, Kinds
    <2>2. decisions' = [decisions EXCEPT ![x.id] = [state |-> verdict, rev |-> x.rev]]
      BY <1>3 DEF Curate
    <2>3. [state |-> verdict, rev |-> x.rev] \in [state : Verdict, rev : Rev]
      BY <2>1 DEF Item
    <2>4. QED
      BY <2>1, <2>2, <2>3 DEF DInv, Decided
  <1>4. QED
    BY <1>1, <1>2, <1>3
       DEF Next, vars, Ingest, Decide, Publish, Die, StartIngest, ReadyIndex, HandoffState,
           HandoffFile, PublishSkip, PublishBegin, PublishRefused, PublishItem,
           PublishReceipt, IndexSkip, IndexDomains, IndexMaster, WriteRoutes, NothingActive,
           ApplyRefused, ApplyState, curator

LEMMA DecidedInductive == Spec => []DInv
  <1>1. Init => DInv
    BY DEF Init, DInv, Decided, None
  <1>2. QED
    BY <1>1, Inductive, DecidedStep, PTL DEF Spec

LEMMA Packages == IsFiniteSet(Package)
  <1>1. Ids \in [1..Len(Ids) -> Package] /\ Len(Ids) \in Nat
    BY CurationAssumption
  <1>2. \A p \in Package : \E k \in 1..Len(Ids) : Ids[k] = p
    BY <1>1 DEF Package, Elements
  <1>3. Ids \in Surjection(1..Len(Ids), Package)
    BY <1>1, <1>2 DEF Surjection
  <1>4. IsFiniteSet(1..Len(Ids))
    BY <1>1, FS_Interval
  <1>5. QED
    BY <1>3, <1>4, FS_Surjection

\* Nothing is forgotten while there is room for all packages.
LEMMA AllFirst ==
  ASSUME Cardinality(Package) <= MaxState, NEW order, NEW S \in SUBSET Package, NEW p \in S
  PROVE  p \in First(order, S, MaxState)
  <1>1. Ahead(order, S, p) \in SUBSET (Package \ {p})
    BY DEF Ahead
  <1>2. IsFiniteSet(Package \ {p}) /\ Cardinality(Package \ {p}) = Cardinality(Package) - 1
    BY Packages, FS_RemoveElement
  <1>3. /\ Cardinality(Ahead(order, S, p)) \in Nat /\ Cardinality(Package) \in Nat
        /\ Cardinality(Ahead(order, S, p)) <= Cardinality(Package \ {p})
    BY <1>1, <1>2, Packages, FS_Subset, FS_CardinalityType
  <1>4. MaxState \in Nat
    BY CurationAssumption
  <1>5. QED
    BY <1>2, <1>3, <1>4 DEF First

LEMMA HoldWritten ==
  ASSUME Cardinality(Package) <= MaxState, NEW active, NEW p \in Package,
         state[p].state \in Terminal, p \in active => batch[p].state \in Verdict,
         WriteState(state, updated, active)
  PROVE  state'[p].state \in Verdict
  <1> DEFINE after == Refreshed(state, active)
             listed == {q \in Package : after[q] # Nothing}
             order == ToFront(updated, {q \in Package : after[q] # state[q]})
  <1>1. after[p].state \in Verdict
    BY DEF Refreshed, Transition, ReconcileOne, Verdict
  <1>2. p \in listed
    BY <1>1 DEF Nothing, Verdict, Final, Terminal
  <1>3. state' = [q \in Package |-> IF q \in First(order, listed, MaxState) THEN after[q]
                                                                          ELSE Nothing]
    BY DEF WriteState
  <1>4. p \in First(order, listed, MaxState)
    <2> HIDE DEF after, order
    <2>1. listed \in SUBSET Package
      OBVIOUS
    <2>2. QED
      BY <1>2, <2>1, AllFirst
  <1>5. QED
    BY <1>1, <1>3, <1>4

HoldStep ==
  \A p \in Package : state[p].state \in Terminal =>
    state'[p].state \in Verdict \/ "state" \in misread'

LEMMA HoldKeptStep ==
  ASSUME Cardinality(Package) <= MaxState
  PROVE  IInv /\ DInv /\ [Next]_vars => HoldStep
  <1> SUFFICES ASSUME IInv, DInv, [Next]_vars, NEW p \in Package,
                      state[p].state \in Terminal, "state" \notin misread'
               PROVE  state'[p].state \in Verdict
    BY DEF HoldStep
  <1>1. CASE state' = state
    BY <1>1 DEF Verdict
  <1>2. ASSUME NEW active, RefreshState(active), p \in active => batch[p].state \in Verdict
        PROVE  state'[p].state \in Verdict
    <2>1. WriteState(state, updated, active)
      BY <1>2 DEF RefreshState
    <2>2. QED
      BY <1>2, <2>1, HoldWritten
  <1>3. CASE HandoffState
    BY <1>2, <1>3 DEF HandoffState
  <1>4. CASE ApplyState
    <2>1. ASSUME p \in Active PROVE batch[p].state \in Verdict
      <3>1. batch[p].rev \in Rev
        BY <2>1 DEF Active, IInv, Kinds, Item
      <3>2. batch[p] # Nothing
        BY <3>1, CurationAssumption DEF Rev, Nothing
      <3>3. QED
        BY <3>2 DEF DInv, Decided
    <2>2. QED
      BY <1>2, <1>4, <2>1 DEF ApplyState
  <1>5. QED
    BY <1>1, <1>3, <1>4
       DEF Next, vars, Ingest, Decide, Publish, Die, Curate, StartIngest, ReadyIndex,
           HandoffFile, StartDecisions, PublishSkip, PublishBegin, PublishRefused,
           PublishItem, PublishReceipt, IndexSkip, IndexDomains, IndexMaster, WriteRoutes,
           NothingActive, ApplyRefused, curation

\* A package on hold is never offered again, unless STATE could not be read, as long as
\* STATE has room for all packages (reconcile_state, MAX_STATE_ITEMS).
THEOREM HoldIsKept ==
  ASSUME Cardinality(Package) <= MaxState
  PROVE  Spec => HoldKept
  BY Inductive, DecidedInductive, HoldKeptStep, PTL DEF Spec, HoldKept, HoldStep
=============================================================================
