---------------------------- MODULE IntakeSessionProofs ----------------------------
(***************************************************************************)
(* Theorems about IntakeSession, for any items, any revisions and contents, *)
(* any limits of workers and sessions, any number of edits and faults.       *)
(***************************************************************************)
EXTENDS IntakeSession, FiniteSetTheorems, WellFoundedInduction, TLAPS

Blob == {Content[r] : r \in Rev} \cup {NoCopy}
Point ==
  {"idle", "opening", "counting", "listing", "scanning", "leased", "checked", "copied",
   "verified", "dispatching"}
WorkType ==
  [todo : SUBSET Version, count : 0..MaxItems, bytes : 0..MaxBytes, done : SUBSET Version,
   present : SUBSET Version, late : BOOLEAN, current : Version \cup {<<>>},
   mode : {"start", "continue", "baseline"}]

\* Types, the history included.
Shape ==
  /\ inbox \in [Item -> Rev \cup {Removed}]
  /\ queue \in [Version -> Blob] /\ sent \in [Version -> Seq(Blob)]
  /\ completed \in [Item -> SUBSET Rev]
  /\ lease \in [Item -> Rev \cup {NoLease}]
  /\ baseline \in BOOLEAN /\ aged \in BOOLEAN
  /\ session \in [status : {"none", "open", "closed"}, today : BOOLEAN,
                  runs : 0..MaxRuns, targets : SUBSET Version]
  /\ trigger \in {"none", "start", "continue", "baseline"}
  /\ pc \in Point
  /\ work \in WorkType /\ work.todo \subseteq work.present
  /\ faults \in 0..MaxFaults /\ edits \in 0..MaxEdits
  /\ baselined \subseteq Version /\ dispatched \in Nat

Handling == {"leased", "checked", "copied", "verified"}

\* What a worker knows at each point.
Stage ==
  /\ pc = "idle" => work = NoWork
  /\ pc \in {"opening", "counting", "listing"} => work.count = 0 /\ work.bytes = 0
  /\ pc = "counting" => work.mode # "baseline"
  /\ pc \notin {"idle", "opening"} => (baseline <=> work.mode # "baseline")
  /\ pc \in Handling =>
       /\ work.mode # "baseline"
       /\ Current \in work.todo /\ ~Done(Current)
       /\ work.count < MaxItems /\ work.bytes + Size[Current[2]] <= MaxBytes
  /\ pc = "dispatching" => work.count > 0

SentLast(v, bytes) == sent[v] # <<>> /\ sent[v][Len(sent[v])] = bytes

\* What was sent last is in the queue until it is taken out.
Delivery ==
  /\ \A v \in Version : queue[v] # NoCopy => SentLast(v, queue[v])
  /\ pc = "verified" => SentLast(Current, Content[Current[2]])
  /\ CompletedDelivered

\* Before the baseline nothing is sent, and what the baseline recorded stays done.
Backlog ==
  /\ ~baseline => \A v \in Version : sent[v] = <<>>
  /\ "receipt" \notin Misread => (\A v \in baselined : Done(v)) /\ BaselineNeverQueued

\* Every worker with a successor has completed a version.
Delivered == {v \in Version : Done(v) /\ v \notin baselined}
Owing == IF work.count > 0 THEN 1 ELSE 0
Paid ==
  "receipt" \notin Misread =>
    /\ IsFiniteSet(Delivered)
    /\ dispatched + Owing <= Cardinality(Delivered)

IInv == Shape /\ Stage /\ Delivery /\ Backlog /\ Paid

-----------------------------------------------------------------------------
(* The oldest item of a list is one of the list.                            *)

\* A set of numbers that is not empty has a least one.
LEMMA Least == ASSUME NEW S \in SUBSET Nat, S # {} PROVE \E m \in S : \A n \in S : m <= n
  <1>1. \E R : IsWellFoundedOn(R, Nat) /\ \A x, y \in Nat : x < y => <<x, y>> \in R
    <2>1. IsWellFoundedOn(OpToRel(<, Nat), Nat)
      BY NatLessThanWellFounded
    <2>2. \A x, y \in Nat : x < y => <<x, y>> \in OpToRel(<, Nat)
      BY Zenon DEF OpToRel
    <2>3. QED
      BY <2>1, <2>2, Zenon
  <1>2. ASSUME NEW R, IsWellFoundedOn(R, Nat), \A x, y \in Nat : x < y => <<x, y>> \in R
        PROVE  \E m \in S : \A n \in S : m <= n
    <2>1. S \subseteq Nat
      OBVIOUS
    <2>. IsWellFoundedOn(R, Nat)
      BY <1>2
    <2>2. \E x \in S : \A y \in S : ~(<<y, x>> \in R)
      BY <2>1, WFMin
    <2>3. PICK x \in S : \A y \in S : ~(<<y, x>> \in R)
      BY <2>2
    <2>4. ASSUME NEW n \in S PROVE x <= n
      <3>1. ~(n < x)
        BY <1>2, <2>1, <2>3, Zenon
      <3>2. QED
        BY <2>1, <3>1
    <2>5. QED
      BY <2>4
  <1>3. QED
    BY <1>1, <1>2, Zenon

LEMMA OldestOf ==
  ASSUME NEW todo \in SUBSET Version, todo # {}
  PROVE  Oldest(todo) \in todo
  <1> DEFINE R == {w[2] : w \in todo}
  <1>1. R \subseteq Nat /\ R # {}
    BY IntakeAssumption DEF Version, Rev
  <1>2. PICK r \in R : \A s \in R : r <= s
    BY <1>1, Least
  <1> DEFINE I == {i \in Item : <<i, r>> \in todo}
  <1>3. I \subseteq Nat /\ I # {}
    <2>1. PICK w \in todo : w[2] = r
      BY <1>2
    <2>2. w = <<w[1], r>> /\ w[1] \in Item
      BY <2>1 DEF Version
    <2>3. w[1] \in I
      BY <2>2
    <2>4. QED
      BY <2>3, IntakeAssumption
  <1>4. PICK i \in I : \A j \in I : i <= j
    BY <1>3, Least
  <1>5. <<i, r>> \in todo
    BY <1>4
  <1>6. \A w \in todo : Older(<<i, r>>, w)
    <2> SUFFICES ASSUME NEW w \in todo PROVE Older(<<i, r>>, w)
      OBVIOUS
    <2>1. w[2] \in R /\ r \in Nat /\ w[2] \in Nat /\ w = <<w[1], w[2]>> /\ w[1] \in Item
      BY <1>1, <1>2 DEF Version
    <2>2. CASE w[2] = r
      <3>1. w[1] \in I
        BY <2>1, <2>2
      <3>2. QED
        BY <3>1, <1>4, <2>2 DEF Older
    <2>3. CASE w[2] # r
      BY <1>2, <2>1, <2>3 DEF Older
    <2>4. QED
      BY <2>2, <2>3
  <1>7. QED
    BY <1>5, <1>6 DEF Oldest

-----------------------------------------------------------------------------
(* Steps that leave receipts and queues alone.                              *)

LEMMA Constants ==
  /\ MaxItems \in Nat /\ MaxRuns \in Nat /\ MaxBytes \in Nat /\ MaxEdits \in Nat
  /\ MaxFaults \in Nat /\ Rev \subseteq Nat /\ Size \in [Rev -> Nat]
  /\ \A r \in Rev : Content[r] # NoCopy
  BY IntakeAssumption DEF Rev

LEMMA NoWorkTyped ==
  /\ NoWork \in WorkType /\ NoWork.todo \subseteq NoWork.present
  /\ NoWork.count = 0 /\ NoWork.bytes = 0
  BY Constants DEF NoWork, WorkType

LEMMA FaultTyped == ASSUME Shape, Fault \/ UNCHANGED faults PROVE faults' \in 0..MaxFaults
  BY Constants DEF Shape, Fault

kept == <<queue, completed, sent, baselined, baseline>>

LEMMA KeptPaid ==
  ASSUME IInv, UNCHANGED <<completed, baselined>>, dispatched' + Owing' <= dispatched + Owing,
         dispatched' \in Nat, Owing' \in Nat
  PROVE  Paid'
  <1>1. Delivered' = Delivered
    BY DEF Delivered, Done
  <1>2. dispatched \in Nat /\ Owing \in Nat
    BY DEF IInv, Shape, Owing
  <1> SUFFICES ASSUME "receipt" \notin Misread
               PROVE  IsFiniteSet(Delivered) /\ dispatched' + Owing' <= Cardinality(Delivered)
    BY <1>1 DEF Paid
  <1>3. IsFiniteSet(Delivered) /\ dispatched + Owing <= Cardinality(Delivered)
    BY DEF IInv, Paid
  <1>4. Cardinality(Delivered) \in Nat
    BY <1>3, FS_CardinalityType
  <1>5. dispatched' + Owing' <= Cardinality(Delivered)
    <2>1. ASSUME NEW a \in Nat, NEW b \in Nat, NEW c \in Nat, NEW d \in Nat, NEW e \in Nat,
                 a + b <= c + d, c + d <= e
          PROVE  a + b <= e
      BY <2>1
    <2>2. QED
      BY <1>2, <1>3, <1>4, <2>1
  <1>6. QED
    BY <1>3, <1>5

LEMMA QuietStep ==
  ASSUME IInv, Shape', Stage', UNCHANGED <<kept, dispatched>>,
         pc' = "verified" => SentLast(Current, Content[Current[2]])',
         work'.count > 0 => work.count > 0
  PROVE  IInv'
  <1>1. UNCHANGED <<queue, completed, sent, baselined, baseline>>
    BY DEF kept
  <1>2. \A v \in Version : \A b : SentLast(v, b)' = SentLast(v, b)
    BY <1>1 DEF SentLast
  <1>3. \A v : Done(v)' = Done(v)
    BY <1>1 DEF Done
  <1>4. Delivery'
    BY <1>1, <1>3 DEF IInv, Delivery, SentLast, CompletedDelivered
  <1>5. Backlog'
    BY <1>1, <1>3 DEF IInv, Backlog, BaselineNeverQueued
  <1>6. Paid'
    <2>1. dispatched' + Owing' <= dispatched + Owing /\ dispatched' \in Nat /\ Owing' \in Nat
      BY DEF IInv, Shape, Owing
    <2>2. QED
      BY <1>1, <2>1, KeptPaid
  <1>7. QED
    BY <1>4, <1>5, <1>6 DEF IInv

\* The worker ends.
LEMMA EndStep ==
  ASSUME IInv, Shape', End, UNCHANGED <<kept, dispatched>>
  PROVE  IInv'
  <1>1. work' = NoWork /\ pc' = "idle"
    BY DEF End
  <1>2. Stage'
    BY <1>1 DEF Stage, Handling
  <1>3. QED
    BY <1>1, <1>2, NoWorkTyped, QuietStep

LEMMA EndTyped ==
  ASSUME Shape, End
  PROVE  pc' \in Point /\ work' \in WorkType /\ work'.todo \subseteq work'.present
  BY NoWorkTyped DEF End, Point

-----------------------------------------------------------------------------
(* The session.                                                             *)

LEMMA BeginStep == ASSUME IInv, Begin PROVE IInv'
  <1>1. /\ pc = "idle" /\ trigger \in {"start", "continue", "baseline"} /\ pc' = "opening"
        /\ work' = [work EXCEPT !.mode = trigger] /\ trigger' = "none"
        /\ UNCHANGED <<inbox, queue, completed, lease, baseline, session, aged, faults, edits,
                       sent, baselined, dispatched>>
    BY DEF Begin, store, history, IInv, Shape
  <1>2. work = NoWork
    BY <1>1 DEF IInv, Stage
  <1>3. /\ work' \in WorkType /\ work'.todo \subseteq work'.present
        /\ work'.count = 0 /\ work'.bytes = 0
    <2>1. /\ work' = [NoWork EXCEPT !.mode = trigger] /\ NoWork \in WorkType
          /\ NoWork.todo \subseteq NoWork.present /\ NoWork.count = 0 /\ NoWork.bytes = 0
          /\ trigger \in {"start", "continue", "baseline"}
      BY <1>1, <1>2, NoWorkTyped
    <2> HIDE DEF NoWork
    <2>2. QED
      BY <2>1 DEF WorkType
  <1>4. Shape'
    BY <1>1, <1>3 DEF IInv, Shape, Point
  <1>5. Stage'
    BY <1>1, <1>3 DEF Stage, Handling
  <1>6. QED
    BY <1>1, <1>3, <1>4, <1>5, QuietStep DEF kept

LEMMA StartSessionStep == ASSUME IInv, StartSession PROVE IInv'
  <1>1. /\ pc = "opening" /\ work.mode = "start"
        /\ UNCHANGED <<inbox, queue, completed, lease, baseline, trigger, edits, sent, baselined,
                       dispatched>>
    BY DEF StartSession
  <1>2. CASE End /\ UNCHANGED <<session, aged, faults>>
    <2>1. Shape'
      BY <1>1, <1>2, EndTyped DEF IInv, Shape
    <2>2. QED
      BY <1>1, <1>2, <2>1, EndStep DEF kept
  <1>3. CASE /\ Deployed /\ (Fault \/ UNCHANGED faults) /\ UNCHANGED work /\ aged' = FALSE
             /\ session' = [status |-> "open", today |-> TRUE, runs |-> 0, targets |-> Snapshot]
             /\ pc' = "counting"
    <2>1. session' \in [status : {"none", "open", "closed"}, today : BOOLEAN,
                        runs : 0..MaxRuns, targets : SUBSET Version]
      BY <1>3, Constants DEF Snapshot, Present
    <2>2. Shape'
      BY <1>1, <1>3, <2>1, FaultTyped DEF IInv, Shape, Point
    <2>3. Stage'
      BY <1>1, <1>3 DEF IInv, Stage, Handling, Deployed
    <2>4. QED
      BY <1>1, <1>3, <2>2, <2>3, QuietStep DEF kept
  <1>4. QED
    BY <1>2, <1>3 DEF StartSession, Misses

LEMMA ContinueSessionStep == ASSUME IInv, ContinueSession PROVE IInv'
  <1>1. /\ pc = "opening" /\ work.mode = "continue"
        /\ UNCHANGED <<inbox, queue, completed, lease, baseline, session, aged, trigger, faults,
                       edits, sent, baselined, dispatched>>
    BY DEF ContinueSession, store, history
  <1>2. CASE End
    <2>1. Shape'
      BY <1>1, <1>2, EndTyped DEF IInv, Shape
    <2>2. QED
      BY <1>1, <1>2, <2>1, EndStep DEF kept
  <1>3. CASE Deployed /\ pc' = "counting" /\ UNCHANGED work
    <2>1. Shape'
      BY <1>1, <1>3 DEF IInv, Shape, Point
    <2>2. Stage'
      BY <1>1, <1>3 DEF IInv, Stage, Handling, Deployed
    <2>3. QED
      BY <1>1, <1>3, <2>1, <2>2, QuietStep DEF kept
  <1>4. QED
    BY <1>2, <1>3 DEF ContinueSession

LEMMA StartBaselineStep == ASSUME IInv, StartBaseline PROVE IInv'
  <1>1. /\ pc = "opening" /\ work.mode = "baseline"
        /\ UNCHANGED <<inbox, queue, completed, lease, baseline, session, aged, trigger, faults,
                       edits, sent, baselined, dispatched>>
    BY DEF StartBaseline, store, history
  <1>2. CASE End
    <2>1. Shape'
      BY <1>1, <1>2, EndTyped DEF IInv, Shape
    <2>2. QED
      BY <1>1, <1>2, <2>1, EndStep DEF kept
  <1>3. CASE ~baseline /\ pc' = "listing" /\ UNCHANGED work
    <2>1. Shape'
      BY <1>1, <1>3 DEF IInv, Shape, Point
    <2>2. Stage'
      BY <1>1, <1>3 DEF IInv, Stage, Handling
    <2>3. QED
      BY <1>1, <1>3, <2>1, <2>2, QuietStep DEF kept
  <1>4. QED
    BY <1>2, <1>3 DEF StartBaseline, IInv, Shape

LEMMA CountRunStep == ASSUME IInv, CountRun PROVE IInv'
  <1>1. /\ pc = "counting"
        /\ UNCHANGED <<inbox, queue, completed, lease, baseline, aged, trigger, faults, edits,
                       sent, baselined, dispatched>>
    BY DEF CountRun
  <1>2. CASE session' = [session EXCEPT !.status = "closed"] /\ End
    <2>1. Shape'
      BY <1>1, <1>2, EndTyped DEF IInv, Shape
    <2>2. QED
      BY <1>1, <1>2, <2>1, EndStep DEF kept
  <1>3. CASE /\ session.runs < MaxRuns /\ session' = [session EXCEPT !.runs = @ + 1]
             /\ pc' = "listing" /\ UNCHANGED work
    <2>1. session' \in [status : {"none", "open", "closed"}, today : BOOLEAN,
                        runs : 0..MaxRuns, targets : SUBSET Version]
      <3>1. session.runs + 1 \in 0..MaxRuns
        BY <1>3, Constants DEF IInv, Shape
      <3>2. QED
        BY <1>3, <3>1 DEF IInv, Shape
    <2>2. Shape'
      BY <1>1, <1>3, <2>1 DEF IInv, Shape, Point
    <2>3. Stage'
      BY <1>1, <1>3 DEF IInv, Stage, Handling
    <2>4. QED
      BY <1>1, <1>3, <2>2, <2>3, QuietStep DEF kept
  <1>4. QED
    <2>1. session.runs \in Nat
      BY DEF IInv, Shape
    <2>2. QED
      BY <1>2, <1>3, <2>1, Constants DEF CountRun

LEMMA FinishSessionStep == ASSUME IInv, FinishSession PROVE IInv'
  <1>1. /\ pc = "scanning" /\ work.mode # "baseline"
        /\ session' = [session EXCEPT !.targets = Remaining,
                                      !.status = IF StaysOpen THEN "open" ELSE "closed"]
        /\ UNCHANGED <<inbox, queue, completed, lease, baseline, aged, trigger, faults, edits,
                       sent, baselined, dispatched>>
    BY DEF FinishSession, history
  <1>2. session' \in [status : {"none", "open", "closed"}, today : BOOLEAN,
                      runs : 0..MaxRuns, targets : SUBSET Version]
    BY <1>1 DEF IInv, Shape, Remaining
  <1>3. CASE End
    <2>1. Shape'
      BY <1>1, <1>2, <1>3, EndTyped DEF IInv, Shape
    <2>2. QED
      BY <1>1, <1>3, <2>1, EndStep DEF kept
  <1>4. CASE StaysOpen /\ pc' = "dispatching" /\ UNCHANGED work
    <2>1. Shape'
      BY <1>1, <1>2, <1>4 DEF IInv, Shape, Point
    <2>2. Stage'
      BY <1>1, <1>4 DEF IInv, Stage, Handling, StaysOpen
    <2>3. QED
      BY <1>1, <1>4, <2>1, <2>2, QuietStep DEF kept
  <1>5. QED
    BY <1>3, <1>4 DEF FinishSession

LEMMA DispatchStep == ASSUME IInv, Dispatch PROVE IInv'
  <1>1. /\ pc = "dispatching" /\ trigger' = "continue" /\ dispatched' = dispatched + 1 /\ End
        /\ UNCHANGED <<inbox, queue, completed, lease, baseline, session, aged, faults, edits,
                       sent, baselined>>
    BY DEF Dispatch, store
  <1>2. Shape'
    BY <1>1, EndTyped DEF IInv, Shape
  <1>3. work' = NoWork /\ pc' = "idle" /\ work.count > 0
    BY <1>1 DEF End, IInv, Stage
  <1>4. Stage'
    BY <1>3 DEF Stage, Handling
  <1>5. Delivery' /\ Backlog'
    BY <1>1, <1>3 DEF IInv, Delivery, Backlog, BaselineNeverQueued, CompletedDelivered, SentLast,
       Done
  <1>6. Paid'
    <2>1. dispatched' + Owing' <= dispatched + Owing /\ dispatched' \in Nat /\ Owing' \in Nat
      BY <1>1, <1>3, NoWorkTyped DEF IInv, Shape, Owing
    <2>2. QED
      BY <1>1, <2>1, KeptPaid
  <1>7. QED
    BY <1>2, <1>4, <1>5, <1>6 DEF IInv

LEMMA FinishBaselineStep == ASSUME IInv, FinishBaseline PROVE IInv'
  <1>1. /\ pc = "scanning" /\ work.mode = "baseline" /\ baseline' = ~work.late /\ End
        /\ UNCHANGED <<inbox, queue, completed, lease, session, aged, trigger, faults, edits,
                       sent, baselined, dispatched>>
    BY DEF FinishBaseline, history
  <1>2. ~baseline /\ work' = NoWork /\ pc' = "idle"
    BY <1>1 DEF IInv, Stage, End
  <1>3. Shape'
    BY <1>1, EndTyped DEF IInv, Shape, WorkType
  <1>4. Stage'
    BY <1>2 DEF Stage, Handling
  <1>5. Delivery' /\ Backlog'
    BY <1>1, <1>2 DEF IInv, Delivery, Backlog, BaselineNeverQueued, CompletedDelivered, SentLast,
       Done
  <1>6. Paid'
    <2>1. dispatched' + Owing' <= dispatched + Owing /\ dispatched' \in Nat /\ Owing' \in Nat
      BY <1>1, <1>2, NoWorkTyped DEF IInv, Shape, Owing
    <2>2. QED
      BY <1>1, <2>1, KeptPaid
  <1>7. QED
    BY <1>3, <1>4, <1>5, <1>6 DEF IInv

-----------------------------------------------------------------------------
(* The worker.                                                              *)

LEMMA ListInboxStep == ASSUME IInv, ListInbox PROVE IInv'
  <1>1. /\ pc = "listing" /\ work' = [work EXCEPT !.todo = Present, !.present = Present]
        /\ pc' = "scanning"
        /\ UNCHANGED <<inbox, queue, completed, lease, baseline, session, aged, trigger, faults,
                       edits, sent, baselined, dispatched>>
    BY DEF ListInbox, store, history
  <1>2. /\ work' \in WorkType /\ work'.todo \subseteq work'.present
        /\ work'.count = work.count /\ work'.mode = work.mode
    BY <1>1 DEF IInv, Shape, WorkType, Present
  <1>3. Shape'
    BY <1>1, <1>2 DEF IInv, Shape, Point
  <1>4. Stage'
    BY <1>1, <1>2 DEF IInv, Stage, Handling
  <1>5. QED
    BY <1>1, <1>2, <1>3, <1>4, QuietStep DEF kept

LEMMA UpcomingTyped ==
  ASSUME IInv, Scanning
  PROVE  /\ Upcoming \in work.todo /\ Upcoming \in Version
         /\ Upcoming = <<Upcoming[1], Upcoming[2]>> /\ Upcoming[1] \in Item /\ Upcoming[2] \in Rev
  <1>1. work.todo \in SUBSET Version /\ work.todo # {}
    BY DEF IInv, Shape, WorkType, Scanning
  <1>2. Upcoming \in work.todo
    BY <1>1, OldestOf DEF Upcoming
  <1>3. Upcoming \in Version
    BY <1>1, <1>2
  <1>4. QED
    BY <1>2, <1>3 DEF Version

LEMMA PassOverStep == ASSUME IInv, PassOver PROVE IInv'
  <1> DEFINE v == Upcoming
  <1>1. /\ pc = "scanning" /\ v \in Version
        /\ work' = [work EXCEPT !.todo = @ \ {v},
                                !.done = IF Eligible(v) /\ Done(v) THEN @ \cup {v} ELSE @]
        /\ UNCHANGED <<inbox, queue, completed, lease, baseline, session, aged, trigger, pc,
                       faults, edits, sent, baselined, dispatched>>
    BY UpcomingTyped DEF PassOver, store, history, Scanning
  <1> HIDE DEF v
  <1>2. /\ work' \in WorkType /\ work'.todo \subseteq work'.present
        /\ work'.count = work.count /\ work'.mode = work.mode
    BY <1>1 DEF IInv, Shape, WorkType
  <1>3. Shape'
    BY <1>1, <1>2 DEF IInv, Shape
  <1>4. Stage'
    BY <1>1, <1>2 DEF IInv, Stage, Handling
  <1>5. QED
    BY <1>1, <1>2, <1>3, <1>4, QuietStep DEF kept

LEMMA OutOfTimeStep == ASSUME IInv, OutOfTime PROVE IInv'
  <1>1. /\ pc = "scanning" /\ Fault
        /\ work' = [work EXCEPT !.todo = {}, !.late = TRUE]
        /\ UNCHANGED <<inbox, queue, completed, lease, baseline, session, aged, trigger, pc,
                       edits, sent, baselined, dispatched>>
    BY DEF OutOfTime, store, history, Scanning
  <1>2. /\ work' \in WorkType /\ work'.todo \subseteq work'.present
        /\ work'.count = work.count /\ work'.mode = work.mode
    BY <1>1 DEF IInv, Shape, WorkType
  <1>3. Shape'
    BY <1>1, <1>2, FaultTyped DEF IInv, Shape
  <1>4. Stage'
    BY <1>1, <1>2 DEF IInv, Stage, Handling
  <1>5. QED
    BY <1>1, <1>2, <1>3, <1>4, QuietStep DEF kept

\* The receipt of one more revision.
LEMMA Receipt ==
  ASSUME Shape, NEW v \in Version,
         completed' = [completed EXCEPT ![v[1]] = @ \cup {v[2]}]
  PROVE  /\ completed' \in [Item -> SUBSET Rev]
         /\ \A w \in Version : Done(w)' <=> Done(w) \/ w = v
  <1>1. PICK i \in Item, r \in Rev : v = <<i, r>>
    BY DEF Version
  <1>2. completed' = [completed EXCEPT ![i] = completed[i] \cup {r}]
    BY <1>1
  <1>3. completed \in [Item -> SUBSET Rev]
    BY DEF Shape
  <1>4. completed' \in [Item -> SUBSET Rev]
    BY <1>1, <1>2, <1>3
  <1>5. ASSUME NEW j \in Item, NEW q \in Rev
        PROVE  q \in completed'[j] <=> q \in completed[j] \/ (j = i /\ q = r)
    BY <1>1, <1>2, <1>3
  <1>6. ASSUME NEW w \in Version PROVE Done(w)' <=> Done(w) \/ w = v
    <2>1. PICK j \in Item, q \in Rev : w = <<j, q>>
      BY DEF Version
    <2>2. QED
      BY <1>1, <1>5, <2>1 DEF Done
  <1>7. QED
    BY <1>4, <1>6

LEMMA RecordBaselineStep == ASSUME IInv, RecordBaseline PROVE IInv'
  <1> DEFINE v == Upcoming
  <1>1. /\ pc = "scanning" /\ work.mode = "baseline" /\ v \in Version /\ v[1] \in Item /\ ~Done(v)
        /\ completed' = [completed EXCEPT ![v[1]] = @ \cup {v[2]}]
        /\ lease' = [lease EXCEPT ![v[1]] = NoLease]
        /\ work' = [work EXCEPT !.todo = @ \ {v}]
        /\ baselined' = baselined \cup {v}
        /\ UNCHANGED <<inbox, queue, baseline, session, aged, trigger, pc, faults, edits, sent,
                       dispatched>>
    BY UpcomingTyped DEF RecordBaseline, Scanning
  <1> HIDE DEF v
  <1>2. /\ work' \in WorkType /\ work'.todo \subseteq work'.present
        /\ work'.count = work.count /\ work'.mode = work.mode
    BY <1>1 DEF IInv, Shape, WorkType
  <1>3. /\ completed' \in [Item -> SUBSET Rev]
        /\ \A w \in Version : Done(w)' <=> Done(w) \/ w = v
    BY <1>1, Receipt DEF IInv
  <1>4. Shape'
    BY <1>1, <1>2, <1>3 DEF IInv, Shape
  <1>5. Stage'
    BY <1>1, <1>2 DEF IInv, Stage, Handling
  <1>6. Delivery'
    BY <1>1, <1>3 DEF IInv, Delivery, CompletedDelivered, SentLast
  <1>7. ~baseline
    BY <1>1 DEF IInv, Stage
  <1>8. Backlog'
    BY <1>1, <1>3, <1>7 DEF IInv, Shape, Backlog, BaselineNeverQueued
  <1>9. Paid'
    <2>1. Delivered' = Delivered
      BY <1>1, <1>3 DEF Delivered
    <2>2. Owing' = Owing
      BY <1>2 DEF Owing
    <2>3. QED
      BY <1>1, <2>1, <2>2 DEF IInv, Paid
  <1>10. QED
    BY <1>4, <1>5, <1>6, <1>8, <1>9 DEF IInv

LEMMA TakeLeaseStep == ASSUME IInv, TakeLease PROVE IInv'
  <1>1. PICK v \in Version :
        /\ pc = "scanning" /\ work.mode # "baseline" /\ ~Deferred(v)
        /\ v \in work.todo /\ v[1] \in Item /\ v[2] \in Rev
        /\ \/ ~Done(v) /\ UNCHANGED <<completed, faults>>
           \/ /\ "receipt" \in Misread /\ Fault
              /\ completed' = [completed EXCEPT ![v[1]] = {}]
        /\ lease' = [lease EXCEPT ![v[1]] = v[2]]
        /\ work' = [work EXCEPT !.current = v]
        /\ pc' = "leased"
        /\ UNCHANGED <<inbox, queue, baseline, session, aged, trigger, edits, sent, baselined,
                       dispatched>>
    BY UpcomingTyped DEF TakeLease, Scanning, history, Misses
  <1>2. /\ work' \in WorkType /\ work'.todo = work.todo /\ work'.present = work.present
        /\ work'.count = work.count /\ work'.mode = work.mode /\ work'.bytes = work.bytes
        /\ work'.current = v
    BY <1>1 DEF IInv, Shape, WorkType
  <1>3. /\ completed' \in [Item -> SUBSET Rev] /\ ~Done(v)'
        /\ \A w \in Version : Done(w)' => Done(w)
    <2>1. CASE UNCHANGED completed /\ ~Done(v)
      BY <1>1, <2>1 DEF IInv, Shape, Done
    <2>2. CASE completed' = [completed EXCEPT ![v[1]] = {}]
      <3>1. completed \in [Item -> SUBSET Rev]
        BY DEF IInv, Shape
      <3>2. completed' \in [Item -> SUBSET Rev] /\ completed'[v[1]] = {}
            /\ \A i \in Item : completed'[i] \subseteq completed[i]
        BY <1>1, <2>2, <3>1
      <3>3. \A w \in Version : w[1] \in Item
        BY DEF Version
      <3>4. QED
        BY <3>2, <3>3 DEF Done
    <2>3. QED
      BY <1>1, <2>1, <2>2
  <1>4. "receipt" \notin Misread => UNCHANGED completed
    BY <1>1
  <1>5. Shape'
    BY <1>1, <1>2, <1>3, FaultTyped DEF IInv, Shape, Point
  <1>6. Stage'
    <2>1. work.count < MaxItems /\ work.bytes + Size[v[2]] <= MaxBytes
      <3>1. work.count \in Nat /\ work.bytes \in Nat /\ Size[v[2]] \in Nat
        BY <1>1, Constants DEF IInv, Shape, WorkType
      <3>2. QED
        BY <1>1, <3>1, Constants DEF Deferred
    <2>2. /\ pc' = "leased" /\ (baseline' <=> work'.mode # "baseline") /\ work'.mode # "baseline"
      BY <1>1, <1>2 DEF IInv, Shape, Stage
    <2>3. Current' = v
      BY <1>2 DEF Current
    <2>4. ~Done(Current)' /\ Current' \in work'.todo
      BY <1>1, <1>2, <1>3, <2>3 DEF Done
    <2>5. work'.count < MaxItems /\ work'.bytes + Size[Current'[2]] <= MaxBytes
      BY <1>2, <2>1, <2>3
    <2>6. QED
      BY <2>2, <2>4, <2>5 DEF Stage, Handling
  <1>7. Delivery'
    BY <1>1, <1>3 DEF IInv, Delivery, CompletedDelivered, SentLast
  <1>8. Backlog'
    BY <1>1, <1>4 DEF IInv, Backlog, BaselineNeverQueued, Done
  <1>9. Paid'
    <2>1. "receipt" \notin Misread => Delivered' = Delivered
      BY <1>1, <1>4 DEF Delivered, Done
    <2>2. Owing' = Owing
      BY <1>2 DEF Owing
    <2>3. QED
      BY <1>1, <2>1, <2>2 DEF IInv, Paid
  <1>10. QED
    BY <1>5, <1>6, <1>7, <1>8, <1>9 DEF IInv

\* The item that a worker has at hand.
LEMMA AtHand ==
  ASSUME IInv, pc \in Handling
  PROVE  /\ Current \in Version /\ Current[1] \in Item /\ Current[2] \in Rev
         /\ Current \in work.todo /\ ~Done(Current) /\ baseline /\ work.mode # "baseline"
         /\ work.count < MaxItems /\ work.bytes + Size[Current[2]] <= MaxBytes
  <1>1. /\ Current \in work.todo /\ ~Done(Current) /\ work.mode # "baseline"
        /\ work.count < MaxItems /\ work.bytes + Size[Current[2]] <= MaxBytes
    BY DEF IInv, Stage
  <1>2. baseline
    BY <1>1 DEF IInv, Shape, Stage, Handling
  <1>3. Current \in Version
    BY <1>1 DEF IInv, Shape, WorkType
  <1>4. QED
    BY <1>1, <1>2, <1>3 DEF Version

LEMMA CheckSteps == ASSUME IInv, CheckSource \/ Verify PROVE IInv'
  <1>1. /\ pc \in {"leased", "copied"}
        /\ UNCHANGED <<inbox, queue, completed, lease, baseline, session, aged, trigger, faults,
                       edits, sent, baselined, dispatched>>
    BY DEF CheckSource, Verify, store, history
  <1>2. CASE End
    <2>1. Shape'
      BY <1>1, <1>2, EndTyped DEF IInv, Shape
    <2>2. QED
      BY <1>1, <1>2, <2>1, EndStep DEF kept
  <1>3. CASE /\ UNCHANGED work
             /\ \/ pc' = "checked"
                \/ pc' = "verified" /\ queue[Current] = Content[Current[2]]
    <2>1. Shape'
      BY <1>1, <1>3 DEF IInv, Shape, Point
    <2>2. Stage'
      BY <1>1, <1>3 DEF IInv, Stage, Handling, Current, Done
    <2>3. pc' = "verified" => SentLast(Current, Content[Current[2]])
      <3>1. Current \in Version /\ Current[2] \in Rev
        BY <1>1, AtHand DEF Handling
      <3>2. QED
        BY <1>3, <3>1, Constants DEF IInv, Delivery
    <2>4. pc' = "verified" => SentLast(Current, Content[Current[2]])'
      BY <1>1, <1>3, <2>3 DEF SentLast, Current
    <2>5. QED
      BY <1>1, <1>3, <2>1, <2>2, <2>4, QuietStep DEF kept
  <1>4. QED
    BY <1>2, <1>3 DEF CheckSource, Verify

LEMMA Sends ==
  ASSUME NEW s \in Seq(Blob), NEW b \in Blob
  PROVE  /\ Append(s, b) \in Seq(Blob) /\ Append(s, b) # <<>>
         /\ Append(s, b)[Len(Append(s, b))] = b
  OBVIOUS

LEMMA EnqueueStep == ASSUME IInv, Enqueue PROVE IInv'
  <1>1. /\ pc = "checked"
        /\ UNCHANGED <<inbox, completed, lease, baseline, session, aged, trigger, faults, edits,
                       baselined, dispatched>>
    BY DEF Enqueue
  <1>2. /\ Current \in Version /\ Current[1] \in Item /\ ~Done(Current) /\ baseline
    BY <1>1, AtHand DEF Handling
  <1>3. CASE End /\ UNCHANGED <<queue, sent>>
    <2>1. Shape'
      BY <1>1, <1>3, EndTyped DEF IInv, Shape
    <2>2. QED
      BY <1>1, <1>3, <2>1, EndStep DEF kept
  <1>4. CASE pc' = "copied" /\ UNCHANGED <<queue, sent, work>>
    <2>1. Shape'
      BY <1>1, <1>4 DEF IInv, Shape, Point
    <2>2. Stage'
      BY <1>1, <1>4 DEF IInv, Stage, Handling, Current, Done
    <2>3. QED
      BY <1>1, <1>4, <2>1, <2>2, QuietStep DEF kept
  <1>5. CASE /\ queue[Current] = NoCopy /\ inbox[Current[1]] # Removed
             /\ queue' = [queue EXCEPT ![Current] = Content[inbox[Current[1]]]]
             /\ sent' = [sent EXCEPT ![Current] = Append(@, Content[inbox[Current[1]]])]
             /\ pc' = "copied" /\ UNCHANGED work
    <2>1. PICK b \in Blob : b = Content[inbox[Current[1]]]
      BY <1>2, <1>5 DEF IInv, Shape, Blob
    <2>2. /\ queue' \in [Version -> Blob] /\ sent' \in [Version -> Seq(Blob)]
          /\ queue'[Current] = b /\ sent'[Current] = Append(sent[Current], b)
          /\ \A w \in Version \ {Current} : queue'[w] = queue[w] /\ sent'[w] = sent[w]
          /\ sent[Current] \in Seq(Blob)
      <3>1. queue \in [Version -> Blob] /\ sent \in [Version -> Seq(Blob)]
        BY DEF IInv, Shape
      <3>2. sent[Current] \in Seq(Blob)
        BY <1>2, <3>1
      <3>3. Append(sent[Current], b) \in Seq(Blob)
        BY <2>1, <3>2, Sends
      <3>4. queue' = [queue EXCEPT ![Current] = b]
            /\ sent' = [sent EXCEPT ![Current] = Append(sent[Current], b)]
        BY <1>5, <2>1
      <3>5. QED
        BY <1>2, <2>1, <3>1, <3>2, <3>3, <3>4
    <2>3. Shape'
      BY <1>1, <1>5, <2>2 DEF IInv, Shape, Point
    <2>4. Stage'
      BY <1>1, <1>5 DEF IInv, Stage, Handling, Current, Done
    <2>5. SentLast(Current, b)'
      <3>1. Current' = Current
        BY <1>5 DEF Current
      <3>2. sent'[Current'] = Append(sent[Current], b)
        BY <2>2, <3>1
      <3>3. QED
        BY <2>2, <3>2, Sends DEF SentLast
    <2>6. \A w \in Version \ {Current} : \A c : SentLast(w, c)' <=> SentLast(w, c)
      BY <2>2 DEF SentLast
    <2>7. Delivery'
      <3>1. \A w \in Version : Done(w)' <=> Done(w)
        BY <1>1 DEF Done
      <3>2. CompletedDelivered'
        BY <1>1, <1>2, <2>2, <3>1 DEF IInv, Delivery, CompletedDelivered
      <3>3. sent'[Current] # <<>> /\ sent'[Current][Len(sent'[Current])] = queue'[Current]
        <4>1. PICK s : s = Append(sent[Current], b)
          OBVIOUS
        <4>2. s # <<>> /\ s[Len(s)] = b
          BY <2>1, <2>2, <4>1, Sends
        <4>3. sent'[Current] = s /\ queue'[Current] = b
          BY <2>2, <4>1
        <4>4. QED
          BY <4>2, <4>3
      <3>4. \A w \in Version \ {Current} :
              queue'[w] # NoCopy => sent'[w] # <<>> /\ sent'[w][Len(sent'[w])] = queue'[w]
        BY <2>2 DEF IInv, Delivery, SentLast
      <3>5. \A w \in Version :
              queue'[w] # NoCopy => sent'[w] # <<>> /\ sent'[w][Len(sent'[w])] = queue'[w]
        BY <3>3, <3>4
      <3>6. QED
        BY <1>5, <3>2, <3>5 DEF Delivery, SentLast
    <2>8. Backlog'
      <3>1. "receipt" \notin Misread => Current \notin baselined
        BY <1>2 DEF IInv, Backlog
      <3>2. QED
        BY <1>1, <1>2, <2>2, <3>1 DEF IInv, Shape, Backlog, BaselineNeverQueued, Done
    <2>9. Paid'
      BY <1>1, <1>5 DEF IInv, Paid, Delivered, Owing, Done
    <2>10. QED
      BY <2>3, <2>4, <2>7, <2>8, <2>9 DEF IInv
  <1>6. QED
    BY <1>3, <1>4, <1>5 DEF Enqueue

LEMMA CompleteStep == ASSUME IInv, Complete PROVE IInv'
  <1> DEFINE v == Current
  <1>1. /\ pc = "verified" /\ pc' = "scanning"
        /\ completed' = [completed EXCEPT ![v[1]] = @ \cup {v[2]}]
        /\ lease' = [lease EXCEPT ![v[1]] = NoLease]
        /\ work' = [work EXCEPT !.todo = @ \ {v}, !.done = @ \cup {v}, !.count = @ + 1,
                                !.bytes = @ + Size[v[2]], !.current = <<>>]
        /\ UNCHANGED <<inbox, queue, baseline, session, aged, trigger, faults, edits, sent,
                       baselined, dispatched>>
    BY DEF Complete, history
  <1>2. /\ v \in Version /\ v[1] \in Item /\ v[2] \in Rev /\ ~Done(v) /\ baseline
        /\ work.mode # "baseline" /\ work.count < MaxItems
        /\ work.bytes + Size[v[2]] <= MaxBytes
    BY <1>1, AtHand DEF Handling
  <1>3. SentLast(v, Content[v[2]])
    BY <1>1 DEF IInv, Delivery
  <1> HIDE DEF v
  <1>4. /\ work' \in WorkType /\ work'.todo \subseteq work'.present
        /\ work'.mode = work.mode /\ work'.count = work.count + 1
    <2>1. work \in WorkType /\ work.todo \subseteq work.present
      BY DEF IInv, Shape
    <2>2. work.count + 1 \in 0..MaxItems /\ work.bytes + Size[v[2]] \in 0..MaxBytes
      <3>1. work.count \in Nat /\ work.bytes \in Nat
        BY <2>1, Constants DEF WorkType
      <3>2. Size[v[2]] \in Nat
        BY <1>2, Constants
      <3>3. QED
        BY <1>2, <3>1, <3>2, Constants
    <2>3. QED
      BY <1>1, <1>2, <2>1, <2>2 DEF WorkType
  <1>5. /\ completed' \in [Item -> SUBSET Rev]
        /\ \A w \in Version : Done(w)' <=> Done(w) \/ w = v
    BY <1>1, <1>2, Receipt DEF IInv
  <1>6. Shape'
    BY <1>1, <1>2, <1>4, <1>5 DEF IInv, Shape, Point
  <1>7. Stage'
    BY <1>1, <1>2, <1>4 DEF IInv, Stage, Handling
  <1>8. Delivery'
    BY <1>1, <1>3, <1>5 DEF IInv, Delivery, CompletedDelivered, SentLast
  <1>9. Backlog'
    BY <1>1, <1>2, <1>5 DEF IInv, Shape, Backlog, BaselineNeverQueued
  <1>10. Paid'
    <2> SUFFICES ASSUME "receipt" \notin Misread
                 PROVE  IsFiniteSet(Delivered') /\ dispatched' + Owing' <= Cardinality(Delivered')
      BY DEF Paid
    <2>1. /\ IsFiniteSet(Delivered) /\ dispatched + Owing <= Cardinality(Delivered)
          /\ v \notin baselined
      BY <1>2 DEF IInv, Paid, Backlog
    <2>2. Delivered' = Delivered \cup {v} /\ v \notin Delivered
      BY <1>1, <1>2, <1>5, <2>1 DEF Delivered
    <2>3. IsFiniteSet(Delivered') /\ Cardinality(Delivered') = Cardinality(Delivered) + 1
      BY <2>1, <2>2, FS_AddElement
    <2>4. Cardinality(Delivered) \in Nat /\ dispatched \in Nat /\ work.count \in Nat
      BY <2>1, FS_CardinalityType DEF IInv, Shape, WorkType
    <2>5. dispatched' + Owing' <= dispatched + Owing + 1
      BY <1>1, <1>4, <2>4 DEF Owing
    <2>6. QED
      BY <1>1, <2>1, <2>3, <2>4, <2>5 DEF Owing
  <1>11. QED
    BY <1>6, <1>7, <1>8, <1>9, <1>10 DEF IInv

-----------------------------------------------------------------------------
(* Everything around the worker.                                            *)

LEMMA DieStep == ASSUME IInv, Die PROVE IInv'
  <1>1. /\ Fault /\ End
        /\ UNCHANGED <<inbox, queue, completed, lease, baseline, session, aged, trigger, edits,
                       sent, baselined, dispatched>>
    BY DEF Die, store, history
  <1>2. Shape'
    BY <1>1, EndTyped, FaultTyped DEF IInv, Shape
  <1>3. QED
    BY <1>1, <1>2, EndStep DEF kept

\* A step that leaves the worker, the receipts and the counters alone.
LEMMA AsideStep ==
  ASSUME IInv, Shape', UNCHANGED <<kept, dispatched, pc, work>>
  PROVE  IInv'
  <1>1. Stage'
    BY DEF IInv, Stage, Current, Done, kept
  <1>2. pc' = "verified" => SentLast(Current, Content[Current[2]])'
    BY DEF IInv, Delivery, SentLast, Current, kept
  <1>3. QED
    BY <1>1, <1>2, QuietStep

LEMMA AsideSteps ==
  ASSUME IInv,
         \/ Displace \/ NewDay \/ Age
         \/ \E kind \in {"start", "continue", "baseline"} : Request(kind)
         \/ \E i \in Item : Expire(i)
         \/ \E i \in Item, r \in Rev \cup {Removed} : Edit(i, r)
  PROVE  IInv'
  <1>1. CASE Displace \/ \E kind \in {"start", "continue", "baseline"} : Request(kind)
    <2>1. /\ trigger' \in {"none", "start", "continue", "baseline"}
          /\ Fault \/ UNCHANGED faults
          /\ UNCHANGED <<inbox, queue, completed, lease, baseline, session, aged, pc, work,
                         edits, sent, baselined, dispatched>>
      BY <1>1 DEF Displace, Request, store, history
    <2>2. Shape'
      BY <2>1, FaultTyped DEF IInv, Shape
    <2>3. QED
      BY <2>1, <2>2, AsideStep DEF kept
  <1>2. CASE NewDay \/ Age
    <2>1. /\ session' = session \/ session' = [session EXCEPT !.today = FALSE]
          /\ aged' = aged \/ aged' = TRUE
          /\ UNCHANGED <<inbox, queue, completed, lease, baseline, trigger, pc, work, faults,
                         edits, sent, baselined, dispatched>>
      BY <1>2 DEF NewDay, Age, store, history
    <2>2. Shape'
      BY <2>1 DEF IInv, Shape
    <2>3. QED
      BY <2>1, <2>2, AsideStep DEF kept
  <1>3. ASSUME NEW i \in Item, Expire(i) PROVE IInv'
    <2>1. /\ lease' = [lease EXCEPT ![i] = NoLease]
          /\ UNCHANGED <<inbox, queue, completed, baseline, session, aged, trigger, pc, work,
                         faults, edits, sent, baselined, dispatched>>
      BY <1>3 DEF Expire, history
    <2>2. Shape'
      BY <2>1 DEF IInv, Shape
    <2>3. QED
      BY <2>1, <2>2, AsideStep DEF kept
  <1>4. ASSUME NEW i \in Item, NEW r \in Rev \cup {Removed}, Edit(i, r) PROVE IInv'
    <2>1. /\ inbox' = [inbox EXCEPT ![i] = r] /\ edits < MaxEdits /\ edits' = edits + 1
          /\ UNCHANGED <<queue, completed, lease, baseline, session, aged, trigger, pc, work,
                         faults, sent, baselined, dispatched>>
      BY <1>4 DEF Edit, store, history
    <2>2. Shape'
      BY <2>1, Constants DEF IInv, Shape
    <2>3. QED
      BY <2>1, <2>2, AsideStep DEF kept
  <1>5. QED
    BY <1>1, <1>2, <1>3, <1>4

LEMMA IngestStep == ASSUME IInv, NEW v \in Version, Ingest(v) PROVE IInv'
  <1>1. /\ pc = "idle" /\ queue' = [queue EXCEPT ![v] = NoCopy]
        /\ UNCHANGED <<inbox, completed, lease, baseline, session, aged, trigger, pc, work,
                       faults, edits, sent, baselined, dispatched>>
    BY DEF Ingest, history
  <1>2. Shape'
    BY <1>1 DEF IInv, Shape, Blob
  <1>3. Stage'
    BY <1>1 DEF IInv, Stage, Handling
  <1>4. Delivery'
    BY <1>1 DEF IInv, Shape, Delivery, CompletedDelivered, SentLast, Done
  <1>5. Backlog' /\ Paid'
    BY <1>1 DEF IInv, Backlog, BaselineNeverQueued, Paid, Delivered, Owing, Done
  <1>6. QED
    BY <1>2, <1>3, <1>4, <1>5 DEF IInv

-----------------------------------------------------------------------------
(* The invariant.                                                           *)

LEMMA InitInv == Init => IInv
  <1> SUFFICES ASSUME Init PROVE IInv
    OBVIOUS
  <1>1. /\ work = NoWork /\ pc = "idle" /\ dispatched = 0 /\ baselined = {}
        /\ \A v \in Version : sent[v] = <<>> /\ queue[v] = NoCopy
    BY DEF Init
  <1>2. \A v \in Version : ~Done(v)
    BY DEF Init, Done, Version
  <1>3. Shape
    <2>1. /\ queue \in [Version -> Blob] /\ sent \in [Version -> Seq(Blob)]
      BY DEF Init, Blob
    <2>2. /\ inbox \in [Item -> Rev \cup {Removed}] /\ completed \in [Item -> SUBSET Rev]
          /\ lease \in [Item -> Rev \cup {NoLease}]
      BY IntakeAssumption DEF Init
    <2>3. session \in [status : {"none", "open", "closed"}, today : BOOLEAN,
                       runs : 0..MaxRuns, targets : SUBSET Version]
      BY Constants DEF Init
    <2>4. /\ work \in WorkType /\ work.todo \subseteq work.present
          /\ pc \in Point /\ dispatched \in Nat /\ baselined \subseteq Version
      BY <1>1, NoWorkTyped DEF Point
    <2>5. baseline \in BOOLEAN /\ aged \in BOOLEAN
      BY DEF Init
    <2>6. trigger \in {"none", "start", "continue", "baseline"}
      BY DEF Init
    <2>7. faults \in 0..MaxFaults /\ edits \in 0..MaxEdits
      BY Constants DEF Init
    <2>8. QED
      BY <2>1, <2>2, <2>3, <2>4, <2>5, <2>6, <2>7 DEF Shape
  <1>4. Stage
    BY <1>1 DEF Stage, Handling
  <1>5. Delivery /\ Backlog
    BY <1>1, <1>2 DEF Delivery, CompletedDelivered, Backlog, BaselineNeverQueued
  <1>6. Paid
    <2>1. Delivered = {}
      BY <1>2 DEF Delivered
    <2>2. Owing = 0
      BY <1>1, NoWorkTyped DEF Owing
    <2>3. QED
      BY <1>1, <2>1, <2>2, FS_EmptySet DEF Paid
  <1>7. QED
    BY <1>3, <1>4, <1>5, <1>6 DEF IInv

LEMMA NextInv == ASSUME IInv, [Next]_vars PROVE IInv'
  <1>1. CASE Worker
    BY <1>1, BeginStep, StartSessionStep, ContinueSessionStep, StartBaselineStep, CountRunStep,
       ListInboxStep, PassOverStep, RecordBaselineStep, TakeLeaseStep, CheckSteps, EnqueueStep,
       CompleteStep, FinishSessionStep, FinishBaselineStep, DispatchStep DEF Worker
  <1>2. CASE UNCHANGED vars
    <2>1. Shape'
      BY <1>2 DEF vars, store, history, IInv, Shape
    <2>2. QED
      BY <1>2, <2>1, AsideStep DEF vars, store, history, kept
  <1>3. QED
    BY <1>1, <1>2, OutOfTimeStep, DieStep, AsideSteps, IngestStep DEF Next

LEMMA Inductive == Spec => []IInv
  <1>1. QED
    BY InitInv, NextInv, PTL DEF Spec

-----------------------------------------------------------------------------
(* What follows from it.                                                    *)

\* Types and limits: no worker enqueues more than MAX_ITEMS files or MAX_BYTES bytes
\* (process), and no session has more than MAX_SESSION_RUNS workers (run_session).
THEOREM TypeCorrect == Spec => []TypeOK
  <1>1. IInv => TypeOK
    BY Constants DEF IInv, Shape, TypeOK, WorkType, Blob, Point
  <1>2. QED
    BY <1>1, Inductive, PTL

\* What a receipt calls completed was copied with the bytes of its revision or belongs
\* to the baseline (process), also after edits, deaths and receipts that were misread.
THEOREM CompletedIsDelivered == Spec => []CompletedDelivered
  <1>1. IInv => CompletedDelivered
    BY DEF IInv, Delivery
  <1>2. QED
    BY <1>1, Inductive, PTL

\* What the baseline recorded is never copied (run_baseline, process), as long as no
\* receipt is taken for a missing one.
THEOREM BacklogStaysOut ==
  ASSUME "receipt" \notin Misread PROVE Spec => []BaselineNeverQueued
  <1>1. IInv => BaselineNeverQueued
    BY DEF IInv, Backlog
  <1>2. QED
    BY <1>1, Inductive, PTL

\* A worker that is dispatched was paid for by a version that its predecessor completed
\* (run_session, the job dispatch_next), under the same assumption.
THEOREM DispatchesArePaid ==
  ASSUME "receipt" \notin Misread PROVE Spec => []NoDispatchLoop
  <1>1. IInv => NoDispatchLoop
    <2> SUFFICES ASSUME IInv PROVE NoDispatchLoop
      OBVIOUS
    <2>1. /\ IsFiniteSet(Delivered) /\ dispatched + Owing <= Cardinality(Delivered)
          /\ Owing \in Nat /\ dispatched \in Nat
      BY DEF IInv, Paid, Shape, Owing
    <2>2. Cardinality(Delivered) \in Nat
      BY <2>1, FS_CardinalityType
    <2>3. dispatched <= Cardinality(Delivered)
      BY <2>1, <2>2
    <2>4. QED
      BY <2>3 DEF Delivered, NoDispatchLoop
  <1>2. QED
    BY <1>1, Inductive, PTL

\* A receipt never loses a revision (write_state), under the same assumption.
THEOREM ReceiptsAreKept ==
  ASSUME "receipt" \notin Misread PROVE Spec => ReceiptsKept
  <1>1. IInv /\ [Next]_vars => [\A i \in Item : completed[i] \subseteq completed'[i]]_vars
    <2> SUFFICES ASSUME IInv, [Next]_vars, NEW i \in Item PROVE completed[i] \subseteq completed'[i]
      OBVIOUS
    <2>1. CASE RecordBaseline \/ Complete
      <3>1. PICK v : completed' = [completed EXCEPT ![v[1]] = @ \cup {v[2]}]
        BY <2>1 DEF RecordBaseline, Complete
      <3>2. completed \in [Item -> SUBSET Rev]
        BY DEF IInv, Shape
      <3>3. QED
        BY <3>1, <3>2
    <2>2. CASE TakeLease
      BY <2>2 DEF TakeLease, Misses
    <2>3. CASE Worker /\ ~(RecordBaseline \/ Complete \/ TakeLease)
      BY <2>3 DEF Worker, Begin, StartSession, ContinueSession, StartBaseline, CountRun, ListInbox,
         PassOver, CheckSource, Enqueue, Verify, FinishSession, FinishBaseline, Dispatch, store
    <2>4. CASE ~Worker
      BY <2>4 DEF Next, OutOfTime, Die, Displace, NewDay, Age, Request, Expire, Ingest, Edit, store,
         vars
    <2>5. QED
      BY <2>1, <2>2, <2>3, <2>4
  <1>2. QED
    BY <1>1, Inductive, PTL DEF Spec, ReceiptsKept
=============================================================================
