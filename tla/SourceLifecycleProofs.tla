------------------------ MODULE SourceLifecycleProofs ------------------------
(***************************************************************************)
(* Theorems about SourceLifecycle, for any sources of different names, of    *)
(* any lanes and classes, any limits, and any number of failed calls, lost    *)
(* answers and deaths of the runner.                                          *)
(***************************************************************************)
EXTENDS SourceLifecycle, TLAPS

\* The names a source has had: they begin with the one it arrived with.
Label == {Name[s] : s \in Source} \cup Source \cup {"token"}
Own(s) == {n \in Seq(Label) : n # <<>> /\ n[1] = Name[s]}

DistinctNames == \A s, t \in Source : Name[s] = Name[t] => s = t

\* A source has not arrived, is purged, or lies in a folder of its own lane under a
\* name of its own.
Placed(s, place) ==
  \/ place \in {Outside, Purged}
  \/ place[1] \in Folder /\ place[3] \in Own(s) /\ place = At(place[1], place[3], s)

RecordType(s) ==
  [status : {"processed", "error", "retry_queued"}, code : {"none", "move", "other"},
   retryable : BOOLEAN, name : Own(s), dest : {"inbox", "error", "processed"}, at : Nat,
   retention : {"kept", "quarantined", "purged"}, since : Nat, trash : Own(s) \cup {<<>>}]

\* What may be in a record of a source: once it is in the quarantine its retention is over.
WellFormed(s, r) ==
  \/ r = NoRecord
  \/ /\ r \in RecordType(s)
     /\ r.retention = "quarantined" => r.trash \in Own(s) /\ r.at + Retention <= r.since

Types ==
  /\ package \in [Source -> {"none", "partial", "complete"}]
  /\ attempts \in [Source -> 0..MaxRetries]
  /\ pc \in Step /\ subject \in Source \cup {NoSource}
  /\ todo \subseteq Source /\ errors \in BOOLEAN /\ plan \subseteq Lane
  /\ outcome \in [Source -> {"none", "lost", "bad", "ok"}]
  /\ day \in 0..MaxDay /\ faults \in 0..MaxFaults
  /\ kind \in Kinds /\ lossy \in BOOLEAN

Places == DOMAIN loc = Source /\ \A s \in Source : Placed(s, loc[s])

Records ==
  /\ DOMAIN record = Source /\ DOMAIN packageRecord = Source
  /\ \A s \in Source : WellFormed(s, record[s]) /\ WellFormed(s, packageRecord[s])

\* The steps of the reconciliation with a retryable failure, of a bridge with an
\* item, and of the cleanup with a record.
FailureStep == {"exhausted", "finalized", "unmoved", "requeued", "unqueued"}
ItemStep ==
  {"reuse", "restore", "fetch", "extract", "unprocessed", "unextracted", "in_error",
   "not_in_error", "upload", "move", "log", "left"}
CleanStep == {"quarantined", "purged"}

Stages ==
  /\ pc \in FailureStep \cup ItemStep \cup CleanStep \cup {"settled"} => subject \in Source
  /\ pc \in FailureStep => record[subject].status = "error"
  /\ pc \in {"unmoved", "requeued", "unqueued"} => attempts[subject] < MaxRetries
  /\ pc \in {"bridge", "batch"} => \A s \in todo : In("inbox", s)
  /\ pc \in ItemStep =>
       /\ item \in Own(subject) /\ loc[subject][1] \in Folder
       /\ \A s \in todo \ {subject} : In("inbox", s)
  /\ pc \in {"reuse", "move"} => package[subject] = "complete"
  /\ pc \in CleanStep =>
       item \in Own(subject) /\ record[subject].status = "processed"
  /\ pc = "quarantined" => record[subject].at + Retention <= day

IInv == Types /\ Places /\ Records /\ Stages /\ MovedIsPackaged /\ PurgedInTime

-----------------------------------------------------------------------------
(* Names and paths.                                                         *)

LEMMA Constants ==
  /\ NoSource \notin Source /\ MaxRetries \in Nat /\ Retention \in Nat /\ Grace \in Nat
  /\ MaxDay \in Nat /\ MaxFaults \in Nat
  BY LifecycleAssumption

LEMMA PathParts ==
  /\ \A f, n, s : At(f, n, s)[1] = f /\ At(f, n, s)[3] = n
  /\ Outside[1] = "outside" /\ Purged[1] = "purged" /\ Outside # Purged
  /\ Overwritten # Outside /\ Overwritten # Purged /\ Overwritten[1] = "overwritten"
  BY DEF At, Outside, Purged, Overwritten

LEMMA OwnNames ==
  ASSUME NEW s \in Source, NEW n \in Own(s)
  PROVE  Append(n, s) \in Own(s)
  <1>1. n \in Seq(Label) /\ s \in Label /\ n # <<>> /\ n[1] = Name[s]
    BY DEF Own, Label
  <1>2. Append(n, s) \in Seq(Label) /\ Append(n, s) # <<>> /\ Append(n, s)[1] = n[1]
    BY <1>1
  <1>3. QED
    BY <1>1, <1>2 DEF Own

LEMMA ArrivalNames ==
  ASSUME NEW s \in Source
  PROVE  <<Name[s]>> \in Own(s) /\ <<Name[s], "token", s>> \in Own(s)
  <1>1. Name[s] \in Label /\ "token" \in Label /\ s \in Label
    BY DEF Label
  <1>2. QED
    BY <1>1 DEF Own

LEMMA PlacedAt ==
  ASSUME NEW s \in Source, NEW f \in Folder, NEW n \in Own(s)
  PROVE  Placed(s, At(f, n, s))
  BY PathParts DEF Placed

\* Nobody but a source is found under a name of its own.
LEMMA Owner ==
  ASSUME DistinctNames, Places, NEW s \in Source, NEW t \in Source, NEW f \in Folder,
         NEW n \in Own(s), loc[t] = At(f, n, s)
  PROVE  t = s
  <1>1. loc[t][1] = f /\ loc[t][3] = n
    BY PathParts
  <1>2. n \in Own(t)
    BY <1>1, PathParts DEF Places, Placed, Folder
  <1>3. QED
    BY <1>2 DEF Own, DistinctNames

LEMMA ExistsOwn ==
  ASSUME DistinctNames, Places, NEW s \in Source, NEW f \in Folder, NEW n \in Own(s),
         Exists(f, n, s)
  PROVE  loc[s] = At(f, n, s) /\ \A t \in Source \ {s} : loc[t] # At(f, n, s)
  <1>1. PICK x \in Source : loc[x] = At(f, n, s)
    BY DEF Exists
  <1>2. x = s
    BY <1>1, Owner
  <1>3. \A t \in Source \ {s} : loc[t] # At(f, n, s)
    BY Owner
  <1>4. QED
    BY <1>1, <1>2, <1>3

LEMMA SafeOwn ==
  ASSUME NEW s \in Source, NEW g, NEW n \in Own(s)
  PROVE  \E m \in Own(s) : SafeDestination(g, n, s) = At(g, m, s)
  BY OwnNames DEF SafeDestination

\* A source of its own lane moves to folder g.
Moved(s, g) ==
  /\ loc[s][1] \in Folder /\ DOMAIN loc' = Source
  /\ \E m \in Own(s) : loc'[s] = At(g, m, s)
  /\ \A t \in Source \ {s} : loc'[t] = loc[t]

LEMMA MoveOwn ==
  ASSUME DistinctNames, Places, NEW s \in Source, NEW f \in Folder, NEW n \in Own(s),
         NEW g \in Folder, NEW m \in Own(s), Exists(f, n, s),
         PutAt(At(f, n, s), At(g, m, s)) \/ FailedMove(At(f, n, s), At(g, m, s))
  PROVE  Moved(s, g) \/ UNCHANGED loc
  <1>1. /\ loc[s] = At(f, n, s) /\ \A t \in Source \ {s} : loc[t] # At(f, n, s)
        /\ \A t \in Source \ {s} : loc[t] # At(g, m, s)
    BY ExistsOwn, Owner
  <1>2. loc[s][1] \in Folder
    BY <1>1, PathParts
  <1>3. ASSUME PutAt(At(f, n, s), At(g, m, s)) PROVE Moved(s, g)
    <2>1. DOMAIN loc' = Source
      BY <1>3 DEF PutAt
    <2>2. loc'[s] = At(g, m, s)
      BY <1>1, <1>3 DEF PutAt
    <2>3. \A t \in Source \ {s} : loc'[t] = loc[t]
      BY <1>1, <1>3 DEF PutAt
    <2>4. QED
      BY <1>2, <2>1, <2>2, <2>3 DEF Moved
  <1>4. QED
    BY <1>3 DEF FailedMove

-----------------------------------------------------------------------------
(* Three kinds of steps: those that change no place and no record, moves,    *)
(* and writes of records.                                                   *)

LEMMA FaultTyped ==
  ASSUME Types, Fault \/ UNCHANGED faults
  PROVE  faults' \in 0..MaxFaults
  BY Constants DEF Types, Fault

LEMMA PlacesKept ==
  ASSUME Places, UNCHANGED <<loc, kind>>
  PROVE  Places'
  BY DEF Places, Placed, At

LEMMA RecordsKept ==
  ASSUME Records, UNCHANGED <<record, packageRecord>>
  PROVE  Records'
  BY DEF Records

LEMMA QuietStep ==
  ASSUME IInv, Types', Stages', UNCHANGED <<loc, package, packageRecord, record, given>>,
         day' >= day
  PROVE  IInv'
  <1>1. Places' /\ Records'
    BY PlacesKept, RecordsKept DEF IInv, given
  <1>2. MovedIsPackaged'
    BY DEF IInv, MovedIsPackaged
  <1>3. PurgedInTime'
    <2> SUFFICES ASSUME NEW s \in Source
                 PROVE  /\ loc[s] # Overwritten
                        /\ loc[s] = Purged =>
                             /\ record[s].status = "processed"
                             /\ day' >= record[s].at + Retention + Grace
      BY DEF PurgedInTime, Overwritten, Purged
    <2>1. /\ loc[s] # Overwritten
          /\ loc[s] = Purged =>
               record[s].status = "processed" /\ day >= record[s].at + Retention + Grace
      BY DEF IInv, PurgedInTime
    <2>2. record[s].status = "processed" => record[s].at \in Nat
      BY DEF IInv, Records, WellFormed, RecordType, NoRecord
    <2>3. day \in Nat /\ day' \in Nat
      BY Constants DEF IInv, Types
    <2>4. QED
      BY <2>1, <2>2, <2>3, Constants
  <1>4. QED
    BY <1>1, <1>2, <1>3 DEF IInv

LEMMA MoveStep ==
  ASSUME IInv, Types', Stages', NEW s \in Source, NEW g \in Folder,
         Moved(s, g) \/ UNCHANGED loc,
         g \in {"processed", "trash"} => package[s] = "complete",
         UNCHANGED <<package, packageRecord, record, given, day>>
  PROVE  IInv'
  <1>1. CASE UNCHANGED loc
    <2>1. day' >= day
      BY Constants DEF IInv, Types
    <2>2. QED
      BY <1>1, <2>1, QuietStep
  <1>2. CASE Moved(s, g)
    <2>1. PICK m \in Own(s) : loc'[s] = At(g, m, s)
      BY <1>2 DEF Moved
    <2>2. \A t \in Source \ {s} : loc'[t] = loc[t]
      BY <1>2 DEF Moved
    <2>3. \A f, n, x : At(f, n, x)' = At(f, n, x)
      BY DEF At, given
    <2>4. Places'
      <3>1. \A t \in Source : Placed(t, loc'[t])
        BY <2>1, <2>2, PlacedAt DEF IInv, Places
      <3>2. \A t \in Source : Placed(t, loc[t])' <=> Placed(t, loc'[t])
        BY <2>3 DEF Placed, Outside, Purged
      <3>3. QED
        BY <1>2, <3>1, <3>2 DEF Places, Moved
    <2>5. Records'
      BY RecordsKept DEF IInv
    <2>6. loc'[s][1] = g /\ g \in Folder
      BY <2>1, PathParts
    <2>7. MovedIsPackaged'
      BY <2>2, <2>6 DEF IInv, MovedIsPackaged, Folder
    <2>8. loc'[s] # Overwritten /\ loc'[s] # Purged
      BY <2>6, PathParts DEF Folder
    <2>9. PurgedInTime'
      BY <2>2, <2>8 DEF IInv, PurgedInTime, Overwritten, Purged
    <2>10. QED
      BY <2>4, <2>5, <2>7, <2>9 DEF IInv
  <1>3. QED
    BY <1>1, <1>2

\* r is written into the central record, into that of the package, or both or neither.
Written(s, r) ==
  /\ record' \in {record, [record EXCEPT ![s] = r]}
  /\ packageRecord' \in {packageRecord, [packageRecord EXCEPT ![s] = r]}

LEMMA WriteStep ==
  ASSUME IInv, Types', Stages', NEW s \in Source, NEW r, Written(s, r), WellFormed(s, r),
         loc[s] = Purged => r.status = "processed" /\ r.at = record[s].at,
         UNCHANGED <<loc, package, given, day>>
  PROVE  IInv'
  <1>1. DOMAIN record = Source /\ DOMAIN packageRecord = Source
    BY DEF IInv, Records
  <1>2. /\ DOMAIN record' = Source /\ DOMAIN packageRecord' = Source
        /\ \A t \in Source \ {s} : record'[t] = record[t] /\ packageRecord'[t] = packageRecord[t]
        /\ record'[s] \in {record[s], r} /\ packageRecord'[s] \in {packageRecord[s], r}
    BY <1>1 DEF Written
  <1>3. Places'
    BY PlacesKept DEF IInv, given
  <1>4. Records'
    <2>1. \A t \in Source : WellFormed(t, record'[t]) /\ WellFormed(t, packageRecord'[t])
      BY <1>2 DEF IInv, Records
    <2>2. QED
      BY <1>2, <2>1 DEF Records
  <1>5. MovedIsPackaged'
    BY DEF IInv, MovedIsPackaged
  <1>6. PurgedInTime'
    BY <1>2 DEF IInv, PurgedInTime, Overwritten, Purged
  <1>7. QED
    BY <1>3, <1>4, <1>5, <1>6 DEF IInv

-----------------------------------------------------------------------------
(* Steps that change no place and no record.                                *)

Reset == {"idle", "reconcile", "route", "planned", "uncleaned"}

\* At these points nothing is known of the sources.
LEMMA ResetStages == ASSUME pc' \in Reset PROVE Stages'
  BY DEF Reset, Stages, FailureStep, ItemStep, CleanStep

LEMMA RestTyped ==
  ASSUME Types, Stop PROVE pc' = "idle" /\ subject' \in Source \cup {NoSource} /\ todo' = {}
                           /\ plan' = {} /\ outcome' \in [Source -> {"none", "lost", "bad", "ok"}]
  BY DEF Stop, Rest, Begin, NoOutcome

LEMMA SkipSteps ==
  ASSUME IInv, NEW s \in Source, SkipRecord(s) \/ ClearRetry(s), UNCHANGED <<plan, outcome, given>>
  PROVE  IInv'
  <1>1. /\ pc = "reconcile" /\ pc' = pc /\ todo' = todo \ {s} /\ (Fault \/ UNCHANGED faults)
        /\ UNCHANGED <<loc, package, packageRecord, record, subject, errors, day, given>>
        /\ attempts' = attempts \/ attempts' = [attempts EXCEPT ![s] = 0]
    BY DEF SkipRecord, ClearRetry, Reconciling, stored
  <1>2. Types'
    BY <1>1, FaultTyped, Constants DEF IInv, Types, given
  <1>3. Stages'
    BY <1>1, ResetStages DEF Reset
  <1>4. day' >= day
    BY <1>1, Constants DEF IInv, Types
  <1>5. QED
    BY <1>1, <1>2, <1>3, <1>4, QuietStep

LEMMA DropRetryStep ==
  ASSUME IInv, DropRetry, UNCHANGED <<plan, outcome, given>>
  PROVE  IInv'
  <1>1. /\ pc = "settled" /\ Finish("reconcile") /\ (Fault \/ UNCHANGED faults)
        /\ UNCHANGED <<loc, package, packageRecord, record, errors, day, given>>
        /\ attempts' = attempts \/ attempts' = [attempts EXCEPT ![subject] = 0]
    BY DEF DropRetry
  <1>2. pc' = "reconcile" /\ subject' = NoSource /\ todo' = todo \ {subject} /\ subject \in Source
    BY <1>1 DEF Finish, Rest, Begin, IInv, Stages
  <1>3. Types'
    BY <1>1, <1>2, FaultTyped, Constants DEF IInv, Types, given, Step
  <1>4. Stages'
    BY <1>2, ResetStages DEF Reset
  <1>5. day' >= day
    BY <1>1, Constants DEF IInv, Types
  <1>6. QED
    BY <1>1, <1>3, <1>4, <1>5, QuietStep

LEMMA FindInQueueStep ==
  ASSUME IInv, NEW s \in Source, FindInQueue(s), UNCHANGED <<plan, outcome, given>>
  PROVE  IInv'
  <1>1. /\ pc = "reconcile" /\ Requeued(s)
        /\ UNCHANGED <<loc, package, packageRecord, record, attempts, day, faults, given, plan,
                       outcome>>
        /\ \/ pc' = "requeued" /\ subject' = s /\ UNCHANGED <<todo, errors>>
           \/ errors' = TRUE /\ todo' = todo \ {s} /\ pc' = pc /\ subject' = subject
    BY DEF FindInQueue, Reconciling, stored, run, Begin
  <1>2. Types'
    BY <1>1 DEF IInv, Types, given, Step
  <1>3. Stages'
    <2>1. CASE pc' = "reconcile"
      BY <2>1, ResetStages DEF Reset
    <2>2. CASE pc' = "requeued" /\ subject' = s
      <3>1. record[s].status = "error" /\ attempts[s] < MaxRetries
        BY <1>1, Constants DEF Requeued, Retryable, Exhausted, IInv, Types
      <3>2. QED
        BY <1>1, <2>2, <3>1 DEF Stages, FailureStep, ItemStep, CleanStep
    <2>3. QED
      BY <1>1, <2>1, <2>2
  <1>4. day' >= day
    BY <1>1, Constants DEF IInv, Types
  <1>5. QED
    BY <1>1, <1>2, <1>3, <1>4, QuietStep

LEMMA EndReconcileStep ==
  ASSUME IInv, EndReconcile, UNCHANGED given
  PROVE  IInv'
  <1>1. /\ pc' \in {"idle", "route"}
        /\ UNCHANGED <<loc, package, packageRecord, record, attempts, subject, todo, errors, plan,
                       outcome, day, faults, given>>
    BY DEF EndReconcile, Goto, stored, run
  <1>2. Types'
    BY <1>1 DEF IInv, Types, given, Step
  <1>3. Stages'
    BY <1>1, ResetStages DEF Reset
  <1>4. day' >= day
    BY <1>1, Constants DEF IInv, Types
  <1>5. QED
    BY <1>1, <1>2, <1>3, <1>4, QuietStep

LEMMA PlanSteps ==
  ASSUME IInv, Plan \/ EndRun, UNCHANGED given
  PROVE  IInv'
  <1>1. /\ pc' \in {"planned", "idle"} /\ plan' \subseteq Lane
        /\ UNCHANGED <<loc, package, packageRecord, record, attempts, subject, todo, errors,
                       outcome, day, faults, given>>
    BY DEF Plan, EndRun, Goto, stored, run, IInv, Types
  <1>2. Types'
    BY <1>1 DEF IInv, Types, given, Step
  <1>3. Stages'
    BY <1>1, ResetStages DEF Reset
  <1>4. day' >= day
    BY <1>1, Constants DEF IInv, Types
  <1>5. QED
    BY <1>1, <1>2, <1>3, <1>4, QuietStep

LEMMA StartBridgeStep ==
  ASSUME IInv, StartBridge, UNCHANGED given
  PROVE  IInv'
  <1>1. /\ pc' \in {"batch", "bridge"} /\ plan' \subseteq Lane /\ errors' = FALSE
        /\ Fault \/ UNCHANGED faults
        /\ todo' = Selected(Upcoming) \/ todo' = {}
        /\ UNCHANGED <<loc, package, packageRecord, record, attempts, subject, outcome, day, given>>
    BY DEF StartBridge, Goto, stored, IInv, Types
  <1>2. todo' \subseteq Source /\ \A s \in todo' : In("inbox", s)
    BY <1>1 DEF Selected, Supported, Queued
  <1>3. Types'
    BY <1>1, <1>2, FaultTyped DEF IInv, Types, given, Step
  <1>4. Stages'
    BY <1>1, <1>2 DEF Stages, FailureStep, ItemStep, CleanStep, In
  <1>5. day' >= day
    BY <1>1, Constants DEF IInv, Types
  <1>6. QED
    BY <1>1, <1>3, <1>4, <1>5, QuietStep

LEMMA RunBatchStep ==
  ASSUME IInv, RunBatch, UNCHANGED given
  PROVE  IInv'
  <1>1. /\ pc = "batch" /\ pc' = "bridge" /\ (Fault \/ UNCHANGED faults)
        /\ outcome' \in [Source -> {"none", "lost", "bad", "ok"}]
        /\ UNCHANGED <<loc, package, packageRecord, record, attempts, subject, todo, errors, plan,
                       day, given>>
    BY DEF RunBatch, Goto, stored
  <1>2. Types'
    BY <1>1, FaultTyped DEF IInv, Types, given, Step
  <1>3. Stages'
    BY <1>1 DEF IInv, Stages, FailureStep, ItemStep, CleanStep, In
  <1>4. day' >= day
    BY <1>1, Constants DEF IInv, Types
  <1>5. QED
    BY <1>1, <1>2, <1>3, <1>4, QuietStep

LEMMA PickSteps ==
  ASSUME IInv, NEW s \in Source, PickItem(s) \/ PickVideo(s), UNCHANGED given
  PROVE  IInv'
  <1>1. /\ pc = "bridge" /\ s \in todo /\ subject' = s /\ item' = loc[s][3]
        /\ pc' \in {"reuse", "fetch", "unprocessed", "unextracted", "upload"}
        /\ pc' = "reuse" => package[s] = "complete"
        /\ Fault \/ UNCHANGED faults
        /\ UNCHANGED <<loc, package, packageRecord, record, attempts, todo, errors, plan, outcome,
                       day, given>>
    BY DEF PickItem, PickVideo, Begin, stored, run
  <1>2. Types'
    BY <1>1, FaultTyped DEF IInv, Types, given, Step
  <1>3. loc[s][1] = "inbox" /\ \A t \in todo : In("inbox", t)
    BY <1>1 DEF IInv, Stages, In
  <1>4. loc[s][3] \in Own(s)
    BY <1>3, PathParts DEF IInv, Places, Placed
  <1>5. Stages'
    BY <1>1, <1>3, <1>4 DEF Stages, FailureStep, ItemStep, CleanStep, In, Own, Label, Folder
  <1>6. day' >= day
    BY <1>1, Constants DEF IInv, Types
  <1>7. QED
    BY <1>1, <1>2, <1>5, <1>6, QuietStep

\* An item stays at hand.
LEMMA ItemStages ==
  ASSUME IInv, pc \in ItemStep, pc' \in ItemStep \ {"reuse", "move"},
         UNCHANGED <<subject, item, todo, loc>>
  PROVE  Stages'
  BY DEF IInv, Stages, FailureStep, ItemStep, CleanStep, In, Own, Label, Folder

LEMMA ResultTyped ==
  ASSUME NEW s
  PROVE  Result(s) \in {"upload", "unextracted", "dead", "unprocessed"}
  BY DEF Result, LinkResult, AudioResult, ImageResult, ContentResult, SpreadsheetResult, Good

LEMMA ExtractSteps ==
  ASSUME IInv, Fetch \/ Extract, UNCHANGED given
  PROVE  IInv'
  <1>1. /\ pc \in {"fetch", "extract"} /\ (Fault \/ UNCHANGED faults)
        /\ UNCHANGED <<loc, package, packageRecord, record, attempts, errors, day, given>>
    BY DEF Fetch, Extract, stored, run
  <1>2. day' >= day
    BY <1>1, Constants DEF IInv, Types
  <1>3. CASE Stop
    <2>1. Types'
      BY <1>1, <1>3, FaultTyped, RestTyped DEF IInv, Types, given, Step
    <2>2. Stages'
      BY <1>3, RestTyped, ResetStages DEF IInv, Reset
    <2>3. QED
      BY <1>1, <1>2, <2>1, <2>2, QuietStep
  <1>4. CASE /\ pc' \in {"extract", "upload", "unextracted", "unprocessed"}
             /\ UNCHANGED <<subject, item, run>>
    <2>1. Types'
      BY <1>1, <1>4, FaultTyped DEF IInv, Types, given, run, Step
    <2>2. Stages'
      BY <1>1, <1>4, ItemStages DEF ItemStep, run
    <2>3. QED
      BY <1>1, <1>2, <2>1, <2>2, QuietStep
  <1>5. QED
    BY <1>3, <1>4, ResultTyped DEF Fetch, Extract, Goto

LEMMA EndBridgeStep ==
  ASSUME IInv, EndBridge, UNCHANGED given
  PROVE  IInv'
  <1>1. /\ pc' \in {"idle", "planned"} /\ errors' = FALSE /\ outcome' = NoOutcome
        /\ subject' \in {subject, NoSource} /\ todo' \subseteq todo /\ plan' \subseteq plan
        /\ UNCHANGED <<loc, package, packageRecord, record, attempts, day, faults, given>>
    BY DEF EndBridge, Goto, Stop, Rest, Begin, stored
  <1>2. Types'
    BY <1>1 DEF IInv, Types, given, Step, NoOutcome
  <1>3. Stages'
    BY <1>1, ResetStages DEF Reset
  <1>4. day' >= day
    BY <1>1, Constants DEF IInv, Types
  <1>5. QED
    BY <1>1, <1>2, <1>3, <1>4, QuietStep

LEMMA AroundSteps ==
  ASSUME IInv, LeaveUncleaned \/ Tick \/ Die, UNCHANGED given
  PROVE  IInv'
  <1>1. CASE LeaveUncleaned
    <2>1. /\ pc' = "idle" /\ subject' = NoSource
          /\ UNCHANGED <<loc, package, packageRecord, record, attempts, todo, errors, plan, outcome,
                         day, faults, given>>
      BY <1>1 DEF LeaveUncleaned, Rest, Begin, stored, run
    <2>2. Types'
      BY <2>1 DEF IInv, Types, given, Step
    <2>3. Stages' /\ day' >= day
      BY <2>1, ResetStages, Constants DEF Reset, IInv, Types
    <2>4. QED
      BY <2>1, <2>2, <2>3, QuietStep
  <1>2. CASE Tick
    <2>1. /\ pc' = "idle" /\ day < MaxDay /\ day' = day + 1
          /\ UNCHANGED <<loc, package, packageRecord, record, attempts, subject, todo, errors, plan,
                         outcome, faults, given>>
      BY <1>2 DEF Tick, stored, run
    <2>2. day \in Nat /\ day' \in 0..MaxDay /\ day' >= day
      BY <2>1, Constants DEF IInv, Types
    <2>3. Types'
      BY <2>1, <2>2 DEF IInv, Types, given, Step
    <2>4. Stages'
      BY <2>1, ResetStages DEF Reset
    <2>5. QED
      BY <2>1, <2>2, <2>3, <2>4, QuietStep
  <1>3. CASE Die
    <2>1. /\ Fault /\ Stop
          /\ UNCHANGED <<loc, package, packageRecord, record, attempts, errors, day, given>>
      BY <1>3 DEF Die, stored
    <2>2. Types'
      BY <2>1, FaultTyped, RestTyped DEF IInv, Types, given, Step
    <2>3. Stages' /\ day' >= day
      BY <2>1, RestTyped, ResetStages, Constants DEF Reset, IInv, Types
    <2>4. QED
      BY <2>1, <2>2, <2>3, QuietStep
  <1>4. QED
    BY <1>1, <1>2, <1>3

-----------------------------------------------------------------------------
(* Moves.                                                                   *)

LEMMA ArriveStep ==
  ASSUME IInv, NEW s \in Source, Arrive(s), UNCHANGED given
  PROVE  IInv'
  <1>1. /\ pc \in {"idle", "route"} /\ loc[s] = Outside
        /\ UNCHANGED <<package, packageRecord, record, attempts, pc, subject, todo, errors, plan,
                       outcome, day, faults, given>>
    BY DEF Arrive, run
  <1>2. PICK n \in Own(s) : loc' = [loc EXCEPT ![s] = At("inbox", n, s)]
    BY ArrivalNames DEF Arrive
  <1>3. DOMAIN loc = Source
    BY DEF IInv, Places
  <1>4. Types'
    BY <1>1 DEF IInv, Types, given
  <1>5. Stages'
    BY <1>1, ResetStages DEF Reset
  <1>6. Places'
    <2>1. \A t \in Source : Placed(t, loc'[t])
      BY <1>2, <1>3, PlacedAt DEF IInv, Places, Folder
    <2>2. \A t \in Source : Placed(t, loc[t])' <=> Placed(t, loc'[t])
      BY <1>1 DEF Placed, Outside, Purged, At, given
    <2>3. QED
      BY <1>2, <1>3, <2>1, <2>2 DEF Places
  <1>7. Records'
    BY <1>1, RecordsKept DEF IInv
  <1>8. loc'[s][1] = "inbox" /\ \A t \in Source \ {s} : loc'[t] = loc[t]
    BY <1>2, <1>3, PathParts
  <1>9. MovedIsPackaged'
    BY <1>1, <1>8 DEF IInv, MovedIsPackaged
  <1>10. PurgedInTime'
    <2>1. loc'[s] # Overwritten /\ loc'[s] # Purged
      BY <1>8, PathParts
    <2>2. QED
      BY <1>1, <1>8, <2>1 DEF IInv, PurgedInTime, Overwritten, Purged
  <1>11. QED
    BY <1>4, <1>5, <1>6, <1>7, <1>9, <1>10 DEF IInv

\* A retryable failure has a record with a name of the source.
LEMMA FailureRecord ==
  ASSUME IInv, NEW s \in Source, record[s].status = "error"
  PROVE  /\ record[s] \in RecordType(s) /\ record[s].name \in Own(s)
         /\ record[s].dest \in Folder /\ loc[s] # Purged
         /\ record[s].retention = "quarantined" =>
              record[s].trash \in Own(s) /\ record[s].at + Retention <= record[s].since
  <1>1. record[s] # NoRecord /\ WellFormed(s, record[s])
    BY DEF IInv, Records, NoRecord
  <1>2. record[s] \in RecordType(s)
    BY <1>1 DEF WellFormed
  <1>3. loc[s] # Purged
    BY DEF IInv, PurgedInTime
  <1>4. QED
    BY <1>1, <1>2, <1>3 DEF WellFormed, RecordType, Folder

LEMMA FailureMoves ==
  ASSUME DistinctNames, IInv, NEW s \in Source, Exhaust(s) \/ FinishMove(s) \/ MoveBack(s),
         UNCHANGED <<plan, outcome, given>>
  PROVE  IInv'
  <1>1. /\ subject' = s /\ record[s].status = "error" /\ (Fault \/ UNCHANGED faults)
        /\ pc' \in {"exhausted", "finalized", "unmoved", "requeued", "unqueued"}
        /\ pc' \in {"unmoved", "requeued", "unqueued"} => ~Exhausted(s)
        /\ UNCHANGED <<package, packageRecord, record, attempts, todo, errors, plan, outcome, day,
                       given>>
    BY DEF Exhaust, FinishMove, MoveBack, Begin, Retryable, Requeued, FailedMove, run
  <1>2. Types'
    BY <1>1, FaultTyped DEF IInv, Types, given, Step
  <1>3. Stages'
    <2>1. ~Exhausted(s) => attempts[s] < MaxRetries
      BY Constants DEF Exhausted, IInv, Types
    <2>2. QED
      BY <1>1, <2>1 DEF Stages, FailureStep, ItemStep, CleanStep
  <1>4. record[s].name \in Own(s) /\ record[s].dest \in Folder
    BY <1>1, FailureRecord
  <1>5. CASE Exhaust(s)
    <2>1. PICK m \in Own(s) : SafeDestination("error", record[s].name, s) = At("error", m, s)
      BY <1>4, SafeOwn
    <2>2. Moved(s, "error") \/ UNCHANGED loc
      BY <1>4, <1>5, <2>1, MoveOwn DEF Exhaust, IInv, Folder
    <2>3. QED
      BY <1>1, <1>2, <1>3, <2>2, MoveStep DEF Folder
  <1>6. CASE FinishMove(s)
    <2>1. PICK m \in Own(s) :
            SafeDestination("processed", record[s].name, s) = At("processed", m, s)
      BY <1>4, SafeOwn
    <2>2. Moved(s, "processed") \/ UNCHANGED loc
      BY <1>4, <1>6, <2>1, MoveOwn DEF FinishMove, IInv, Folder
    <2>3. package[s] = "complete"
      BY <1>6 DEF FinishMove, ToFinalize
    <2>4. QED
      BY <1>1, <1>2, <1>3, <2>2, <2>3, MoveStep DEF Folder
  <1>7. CASE MoveBack(s)
    <2>1. PICK m \in Own(s) : SafeDestination("inbox", record[s].name, s) = At("inbox", m, s)
      BY <1>4, SafeOwn
    <2>2. Moved(s, "inbox") \/ UNCHANGED loc
      BY <1>4, <1>7, <2>1, MoveOwn DEF MoveBack, Elsewhere, IInv, Folder
    <2>3. QED
      BY <1>1, <1>2, <1>3, <2>2, MoveStep DEF Folder
  <1>8. QED
    BY <1>5, <1>6, <1>7

LEMMA ItemMoves ==
  ASSUME DistinctNames, IInv, Reuse \/ MoveToError \/ MoveToProcessed, UNCHANGED given
  PROVE  IInv'
  <1>1. PICK g \in {"processed", "error"}, done \in {"restore", "in_error", "log"},
             failed \in {"fetch", "not_in_error", "left"} :
          /\ Move(g, done, failed)
          /\ pc \in {"reuse", "unextracted", "move"}
          /\ g = "processed" => pc \in {"reuse", "move"}
          /\ UNCHANGED <<package, packageRecord, record, attempts, todo, errors, plan, outcome, day,
                         given>>
    BY DEF Reuse, MoveToError, MoveToProcessed, run
  <1>2. /\ subject \in Source /\ item \in Own(subject) /\ loc[subject][1] \in Folder
        /\ \A s \in todo \ {subject} : In("inbox", s)
        /\ g = "processed" => package[subject] = "complete"
    BY <1>1 DEF IInv, Stages, ItemStep
  <1>3. /\ pc' \in {done, failed} /\ UNCHANGED <<subject, item>> /\ (Fault \/ UNCHANGED faults)
    BY <1>1 DEF Move, Goto, FailedMove
  <1>4. PICK m \in Own(subject) : Destination(g, subject) = At(g, m, subject)
    BY <1>2, SafeOwn DEF Destination
  <1>5. Moved(subject, g) \/ UNCHANGED loc
    <2>1. CASE Exists("inbox", item, subject)
      BY <1>1, <1>2, <1>4, <2>1, MoveOwn DEF Move, IInv, Folder
    <2>2. CASE ~Exists("inbox", item, subject)
      BY <1>1, <2>2 DEF Move
    <2>3. QED
      BY <2>1, <2>2
  <1>6. Types'
    BY <1>1, <1>3, FaultTyped DEF IInv, Types, given, Step
  <1>7. Stages'
    <2>1. loc'[subject][1] \in Folder
      BY <1>2, <1>5, PathParts DEF Moved, Folder
    <2>2. \A s \in todo \ {subject} : loc'[s][1] = "inbox"
      <3>1. todo \subseteq Source
        BY DEF IInv, Types
      <3>2. QED
        BY <1>2, <1>5, <3>1 DEF Moved, In
    <2>3. pc' \in ItemStep \ {"reuse", "move"}
      BY <1>3 DEF ItemStep
    <2>4. QED
      BY <1>1, <1>2, <1>3, <2>1, <2>2, <2>3
         DEF Stages, FailureStep, ItemStep, CleanStep, In, Own, Label, Folder
  <1>8. QED
    BY <1>1, <1>2, <1>5, <1>6, <1>7, MoveStep DEF Folder

\* What the cleanup knows of a record it may work on.
LEMMA CleanRecord ==
  ASSUME IInv, NEW s \in Source, record[s].status = "processed"
  PROVE  /\ record[s] \in RecordType(s) /\ record[s].name \in Own(s) /\ record[s].dest \in Folder
         /\ record[s].at \in Nat /\ record[s].since \in Nat
         /\ record[s].retention = "quarantined" =>
              record[s].trash \in Own(s) /\ record[s].at + Retention <= record[s].since
  <1>1. record[s] # NoRecord /\ WellFormed(s, record[s])
    BY DEF IInv, Records, NoRecord
  <1>2. record[s] \in RecordType(s)
    BY <1>1 DEF WellFormed
  <1>3. QED
    BY <1>1, <1>2 DEF WellFormed, RecordType, Folder

LEMMA CleanStages ==
  ASSUME IInv, NEW s \in Source, subject' = s, record[s].status = "processed",
         UNCHANGED <<record, day, kind>>,
         \/ pc' = "uncleaned"
         \/ /\ pc' \in {"quarantined", "purged"} /\ item' \in Own(s)
            /\ pc' = "quarantined" => record[s].at + Retention <= day
  PROVE  Stages'
  <1>1. CASE pc' = "uncleaned"
    BY <1>1, ResetStages DEF Reset
  <1>2. CASE pc' \in {"quarantined", "purged"}
    BY <1>2 DEF Stages, FailureStep, ItemStep, CleanStep, Own, Label
  <1>3. QED
    BY <1>1, <1>2

LEMMA QuarantineStep ==
  ASSUME DistinctNames, IInv, NEW s \in Source, Quarantine(s), UNCHANGED given
  PROVE  IInv'
  <1>1. /\ Cleanable(s) /\ record[s].retention = "kept"
        /\ UNCHANGED <<package, packageRecord, record, attempts, todo, errors, plan, outcome, day,
                       given>>
    BY DEF Quarantine, run
  <1>2. /\ record[s].status = "processed" /\ package[s] = "complete"
        /\ record[s].at + Retention <= day /\ record[s].name \in Own(s) /\ record[s].dest \in Folder
    <2>1. record[s].status = "processed" /\ package[s] = "complete" /\ Expired(s)
      BY <1>1 DEF Cleanable
    <2>2. day >= record[s].at + Retention
      BY <1>1, <2>1 DEF Expired
    <2>3. record[s].at \in Nat /\ record[s].name \in Own(s) /\ record[s].dest \in Folder
      BY <2>1, CleanRecord
    <2>4. QED
      BY <2>1, <2>2, <2>3, Constants DEF IInv, Types
  <1>3. PICK path \in Found(s) :
          LET target == SafeDestination("trash", path[3], s) IN
          \/ PutAt(path, target) /\ Begin("quarantined", s, target[3]) /\ UNCHANGED faults
          \/ FailedMove(path, target) /\ Uncleaned(s)
    BY DEF Quarantine
  <1>4. PICK n \in Own(s) : path = At(record[s].dest, n, s) /\ Exists(record[s].dest, n, s)
    BY <1>2, OwnNames DEF Found, Exists
  <1>5. path[3] = n
    BY <1>4, PathParts
  <1>6. PICK m \in Own(s) : SafeDestination("trash", path[3], s) = At("trash", m, s)
    BY <1>5, SafeOwn
  <1>7. At("trash", m, s)[3] = m
    BY PathParts
  <1>8. \/ PutAt(path, At("trash", m, s)) /\ Begin("quarantined", s, m) /\ UNCHANGED faults
        \/ FailedMove(path, At("trash", m, s)) /\ Uncleaned(s)
    BY <1>3, <1>6, <1>7
  <1>9. Moved(s, "trash") \/ UNCHANGED loc
    BY <1>2, <1>4, <1>8, MoveOwn DEF IInv, Folder
  <1>10. /\ subject' = s /\ (Fault \/ UNCHANGED faults)
         /\ pc' = "uncleaned" \/ (pc' = "quarantined" /\ item' = m)
    BY <1>8 DEF Begin, Uncleaned, FailedMove
  <1>11. Types'
    BY <1>1, <1>10, FaultTyped DEF IInv, Types, given, Step
  <1>12. Stages'
    BY <1>1, <1>2, <1>10, CleanStages DEF given
  <1>13. QED
    BY <1>1, <1>2, <1>9, <1>11, <1>12, MoveStep DEF Folder

LEMMA PurgeStep ==
  ASSUME DistinctNames, IInv, NEW s \in Source, Purge(s), UNCHANGED given
  PROVE  IInv'
  <1> DEFINE path == At("trash", record[s].trash, s)
  <1>1. /\ Cleanable(s) /\ record[s].retention = "quarantined"
        /\ Exists("trash", record[s].trash, s)
        /\ \/ Delete(path) /\ Begin("purged", s, record[s].trash) /\ UNCHANGED faults
           \/ Fault /\ (UNCHANGED loc \/ Delete(path)) /\ Uncleaned(s)
        /\ UNCHANGED <<package, packageRecord, record, attempts, todo, errors, plan, outcome, day,
                       given>>
    BY DEF Purge, run
  <1>2. /\ record[s].status = "processed" /\ record[s].trash \in Own(s)
        /\ record[s].at + Retention <= record[s].since /\ package[s] = "complete"
        /\ day >= record[s].since + Grace /\ record[s].at \in Nat /\ record[s].since \in Nat
    BY <1>1, CleanRecord DEF Cleanable, Expired
  <1>3. /\ loc[s] = path /\ \A t \in Source \ {s} : loc[t] # path
    BY <1>1, <1>2, ExistsOwn DEF IInv, Folder
  <1>4. /\ subject' = s /\ (Fault \/ UNCHANGED faults)
        /\ pc' = "uncleaned" \/ (pc' = "purged" /\ item' = record[s].trash)
    BY <1>1 DEF Begin, Uncleaned
  <1>5. Types'
    BY <1>1, <1>4, FaultTyped DEF IInv, Types, given, Step
  <1>6. Stages'
    BY <1>1, <1>2, <1>4, CleanStages DEF given
  <1>7. CASE UNCHANGED loc
    <2>1. day' >= day
      BY <1>1, Constants DEF IInv, Types
    <2>2. QED
      BY <1>1, <1>5, <1>6, <1>7, <2>1, QuietStep
  <1>8. CASE Delete(path)
    <2>1. DOMAIN loc' = Source /\ loc'[s] = Purged /\ \A t \in Source \ {s} : loc'[t] = loc[t]
      BY <1>3, <1>8 DEF Delete
    <2>2. Places'
      <3>1. \A t \in Source : Placed(t, loc'[t])
        BY <2>1 DEF IInv, Places, Placed
      <3>2. \A t \in Source : Placed(t, loc[t])' <=> Placed(t, loc'[t])
        BY <1>1 DEF Placed, Outside, Purged, At, given
      <3>3. QED
        BY <2>1, <3>1, <3>2 DEF Places
    <2>3. Records'
      BY <1>1, RecordsKept DEF IInv
    <2>4. MovedIsPackaged'
      BY <1>1, <1>2, <2>1 DEF IInv, MovedIsPackaged
    <2>5. day >= record[s].at + Retention + Grace
      BY <1>2, Constants DEF IInv, Types
    <2>6. PurgedInTime'
      BY <1>1, <1>2, <2>1, <2>5, PathParts DEF IInv, PurgedInTime, Overwritten, Purged
    <2>7. QED
      BY <1>5, <1>6, <2>2, <2>3, <2>4, <2>6 DEF IInv
  <1>9. QED
    BY <1>1, <1>7, <1>8

-----------------------------------------------------------------------------
(* Writes of records.                                                       *)

LEMMA StartRunStep ==
  ASSUME IInv, StartRun, UNCHANGED <<plan, outcome, given>>
  PROVE  IInv'
  <1>1. PICK back \in SUBSET {s \in Source : record[s] = NoRecord} :
          /\ record' = [s \in Source |-> IF s \in back THEN packageRecord[s] ELSE record[s]]
          /\ errors' \in BOOLEAN /\ todo' \subseteq Source /\ (Fault \/ UNCHANGED faults)
          /\ pc' = "reconcile"
          /\ UNCHANGED <<loc, package, packageRecord, attempts, day, subject, plan, outcome, given>>
    <2> DEFINE missing == {s \in Source : record[s] = NoRecord /\ packageRecord[s] # NoRecord}
    <2>1. PICK lost \in SUBSET missing :
            /\ IF lost = {} THEN UNCHANGED faults ELSE Fault
            /\ errors' = (lost # {})
            /\ record' = [s \in Source |->
                            IF s \in missing \ lost THEN packageRecord[s] ELSE record[s]]
            /\ todo' = {s \in Source : record'[s] # NoRecord}
      BY DEF StartRun
    <2>2. missing \ lost \in SUBSET {s \in Source : record[s] = NoRecord}
      OBVIOUS
    <2>3. /\ pc' = "reconcile" /\ UNCHANGED subject
          /\ UNCHANGED <<loc, package, packageRecord, attempts, day>>
      BY DEF StartRun, Goto
    <2>4. errors' \in BOOLEAN /\ todo' \subseteq Source /\ (Fault \/ UNCHANGED faults)
      BY <2>1
    <2> HIDE DEF missing
    <2>5. QED
      BY <2>1, <2>2, <2>3, <2>4
  <1>2. Types'
    BY <1>1, FaultTyped DEF IInv, Types, given, Step
  <1>3. Stages'
    BY <1>1, ResetStages DEF Reset
  <1>4. Places'
    BY <1>1, PlacesKept DEF IInv, given
  <1>5. Records'
    <2>1. \A s \in Source : record'[s] \in {record[s], packageRecord[s]}
      BY <1>1
    <2>2. QED
      BY <1>1, <2>1 DEF IInv, Records
  <1>6. MovedIsPackaged'
    BY <1>1 DEF IInv, MovedIsPackaged
  <1>7. PurgedInTime'
    <2>1. \A s \in Source : record[s].status = "processed" => record[s] # NoRecord
      BY DEF NoRecord
    <2>2. \A s \in Source : record[s] # NoRecord => record'[s] = record[s]
      BY <1>1
    <2>3. QED
      BY <1>1, <2>1, <2>2 DEF IInv, PurgedInTime, Overwritten, Purged
  <1>8. QED
    BY <1>2, <1>3, <1>4, <1>5, <1>6, <1>7 DEF IInv

LEMMA SyncWrites ==
  ASSUME NEW s \in Source, NEW r, NEW both \in BOOLEAN, Types, Sync(s, r, both)
  PROVE  Written(s, r) /\ errors' \in BOOLEAN /\ (Fault \/ UNCHANGED faults)
  BY DEF Sync, Written, Types

\* The reconciliation is done with a failure.
LEMMA FinishStep ==
  ASSUME IInv, subject \in Source, record[subject].status = "error",
         \/ Finish("reconcile")
         \/ Goto("settled") /\ UNCHANGED todo,
         NEW r, Written(subject, r), WellFormed(subject, r), errors' \in BOOLEAN,
         Fault \/ UNCHANGED faults, attempts' \in [Source -> 0..MaxRetries],
         UNCHANGED <<loc, package, plan, outcome, day, given>>
  PROVE  IInv'
  <1>1. /\ subject' \in Source \cup {NoSource} /\ todo' \subseteq todo
        /\ pc' = "reconcile" \/ (pc' = "settled" /\ subject' = subject)
    BY DEF Finish, Rest, Begin, Goto
  <1>2. Types'
    BY <1>1, FaultTyped DEF IInv, Types, given, Step
  <1>3. Stages'
    BY <1>1, ResetStages DEF Reset, Stages, FailureStep, ItemStep, CleanStep
  <1>4. loc[subject] # Purged
    BY FailureRecord
  <1>5. QED
    BY <1>2, <1>3, <1>4, WriteStep

\* Records made of the one of a failure.
LEMMA FailureUpdates ==
  ASSUME IInv, NEW s \in Source, record[s].status = "error"
  PROVE  /\ WellFormed(s, record[s])
         /\ WellFormed(s, [record[s] EXCEPT !.retryable = FALSE, !.dest = "error"])
         /\ WellFormed(s, [record[s] EXCEPT !.status = "processed", !.code = "none",
                                            !.retryable = FALSE, !.dest = "processed"])
         /\ WellFormed(s, [record[s] EXCEPT !.status = "retry_queued", !.dest = "inbox"])
  BY FailureRecord DEF WellFormed, RecordType

LEMMA MarkExhaustedStep ==
  ASSUME IInv, MarkExhausted, UNCHANGED <<plan, outcome, given>>
  PROVE  IInv'
  <1>1. subject \in Source /\ record[subject].status = "error"
    BY DEF MarkExhausted, IInv, Stages, FailureStep
  <1>2. PICK both \in BOOLEAN :
          Sync(subject, [record[subject] EXCEPT !.retryable = FALSE, !.dest = "error"], both)
    BY DEF MarkExhausted
  <1>3. Finish("reconcile") /\ UNCHANGED <<loc, package, attempts, day>>
    BY DEF MarkExhausted
  <1>4. attempts' \in [Source -> 0..MaxRetries]
    BY <1>3 DEF IInv, Types
  <1>5. QED
    BY <1>1, <1>2, <1>3, <1>4, SyncWrites, FailureUpdates, FinishStep DEF IInv

LEMMA MarkFinalizedStep ==
  ASSUME IInv, MarkFinalized, UNCHANGED <<plan, outcome, given>>
  PROVE  IInv'
  <1> DEFINE r == [record[subject] EXCEPT !.status = "processed", !.code = "none",
                                          !.retryable = FALSE, !.dest = "processed"]
  <1>1. subject \in Source /\ record[subject].status = "error"
    BY DEF MarkFinalized, IInv, Stages, FailureStep
  <1>2. /\ Sync(subject, r, TRUE) /\ UNCHANGED <<loc, package, attempts, day>>
        /\ Finish("reconcile") \/ (Goto("settled") /\ UNCHANGED todo)
    BY DEF MarkFinalized
  <1>3. WellFormed(subject, r)
    BY <1>1, FailureUpdates
  <1> HIDE DEF r
  <1>4. attempts' \in [Source -> 0..MaxRetries]
    BY <1>2 DEF IInv, Types
  <1>5. Written(subject, r) /\ errors' \in BOOLEAN /\ (Fault \/ UNCHANGED faults)
    BY <1>1, <1>2, SyncWrites DEF IInv
  <1>6. QED
    BY <1>1, <1>2, <1>3, <1>4, <1>5, FinishStep

LEMMA CountedTyped ==
  ASSUME Types, subject \in Source, attempts[subject] < MaxRetries,
         \/ attempts' = [attempts EXCEPT ![subject] = @ + 1]
         \/ UNCHANGED attempts
  PROVE  attempts' \in [Source -> 0..MaxRetries]
  <1>1. attempts[subject] + 1 \in 0..MaxRetries
    BY Constants DEF Types
  <1>2. QED
    BY <1>1 DEF Types

LEMMA CountedSteps ==
  ASSUME IInv, MarkUnmoved \/ MarkUnqueued \/ MarkQueued, UNCHANGED <<plan, outcome, given>>
  PROVE  IInv'
  <1> DEFINE queued == [record[subject] EXCEPT !.status = "retry_queued", !.dest = "inbox"]
  <1>1. /\ subject \in Source /\ record[subject].status = "error"
        /\ attempts[subject] < MaxRetries
    BY DEF MarkUnmoved, MarkUnqueued, MarkQueued, IInv, Stages, FailureStep
  <1>2. /\ Finish("reconcile") /\ UNCHANGED <<loc, package, day>>
        /\ \/ attempts' = [attempts EXCEPT ![subject] = @ + 1]
           \/ UNCHANGED attempts
    BY DEF MarkUnmoved, MarkUnqueued, MarkQueued
  <1>3. attempts' \in [Source -> 0..MaxRetries]
    BY <1>1, <1>2, CountedTyped DEF IInv
  <1>4. PICK r \in {record[subject], queued} :
          Written(subject, r) /\ errors' \in BOOLEAN /\ (Fault \/ UNCHANGED faults)
    <2>1. CASE MarkUnmoved
      BY <1>1, <2>1, SyncWrites DEF MarkUnmoved, IInv, Types, Written
    <2>2. CASE MarkUnqueued
      BY <1>1, <2>2, SyncWrites DEF MarkUnqueued, IInv, Types, Written
    <2>3. CASE MarkQueued
      BY <1>1, <2>3, SyncWrites DEF MarkQueued, IInv, Types, Written
    <2>4. QED
      BY <2>1, <2>2, <2>3
  <1>5. WellFormed(subject, r)
    BY <1>1, <1>4, FailureUpdates
  <1> HIDE DEF queued
  <1>6. QED
    BY <1>1, <1>2, <1>3, <1>4, <1>5, FinishStep

\* A bridge is done with an item and has written its record.
LEMMA HandledStep ==
  ASSUME IInv, pc \in ItemStep, NEW failed, Handled(failed), NEW r, Written(subject, r),
         WellFormed(subject, r), Fault \/ UNCHANGED faults,
         UNCHANGED <<loc, package, attempts, given>>
  PROVE  IInv'
  <1>1. /\ subject \in Source /\ loc[subject][1] \in Folder
        /\ \A s \in todo \ {subject} : In("inbox", s)
    BY DEF IInv, Stages
  <1>2. /\ pc' = "bridge" /\ subject' = NoSource /\ todo' = todo \ {subject}
        /\ errors' \in BOOLEAN /\ UNCHANGED <<plan, outcome, day>>
    BY DEF Handled, Finish, Rest, Begin, IInv, Types
  <1>3. Types'
    BY <1>2, FaultTyped DEF IInv, Types, given, Step
  <1>4. Stages'
    BY <1>1, <1>2 DEF Stages, FailureStep, ItemStep, CleanStep, In
  <1>5. loc[subject] # Purged
    BY <1>1, PathParts DEF Folder
  <1>6. QED
    BY <1>1, <1>2, <1>3, <1>4, <1>5, WriteStep

LEMMA NewRecords ==
  ASSUME Types, NEW s \in Source, NEW name \in Own(s), NEW retryable \in BOOLEAN,
         NEW status \in {"processed", "error"}, NEW code \in {"none", "move", "other"},
         NEW dest \in {"inbox", "error", "processed"}
  PROVE  WellFormed(s, Record(status, code, retryable, name, dest))
  <1>1. day \in Nat /\ 0 \in Nat
    BY Constants DEF Types
  <1>2. Record(status, code, retryable, name, dest) \in RecordType(s)
    BY <1>1 DEF Record, RecordType
  <1>3. Record(status, code, retryable, name, dest).retention = "kept"
    BY DEF Record
  <1>4. QED
    BY <1>2, <1>3 DEF WellFormed

LEMMA PersistWrites ==
  ASSUME NEW r, Persist(r), UNCHANGED packageRecord
  PROVE  Written(subject, r) /\ (Fault \/ UNCHANGED faults)
  BY DEF Persist, Written

LEMMA RecordSteps ==
  ASSUME IInv, Restore \/ Log \/ MarkUnprocessed \/ MarkInError \/ MarkLeft, UNCHANGED given
  PROVE  IInv'
  <1>1. pc \in ItemStep /\ UNCHANGED <<loc, package, attempts>>
    BY DEF Restore, Log, MarkUnprocessed, MarkInError, MarkLeft, ItemStep
  <1>2. subject \in Source /\ item \in Own(subject)
    BY <1>1 DEF IInv, Stages
  <1>3. CASE Restore \/ Log
    <2>1. Persist(packageRecord[subject]) /\ UNCHANGED packageRecord /\ Handled(FALSE)
      BY <1>3 DEF Restore, Log
    <2>2. WellFormed(subject, packageRecord[subject])
      BY <1>2 DEF IInv, Records
    <2>3. QED
      BY <1>1, <2>1, <2>2, PersistWrites, HandledStep
  <1>4. CASE MarkUnprocessed
    <2>1. /\ Persist(Failure("other", item, "inbox")) /\ UNCHANGED packageRecord /\ Handled(TRUE)
      BY <1>4 DEF MarkUnprocessed
    <2>2. WellFormed(subject, Failure("other", item, "inbox"))
      BY <1>2, NewRecords DEF IInv, Failure
    <2>3. QED
      BY <1>1, <2>1, <2>2, PersistWrites, HandledStep
  <1>5. CASE MarkInError
    <2>1. PICK retryable \in BOOLEAN, dest \in {"error", "inbox"}, failed \in BOOLEAN :
            /\ Persist(Record("error", "other", retryable, item, dest))
            /\ UNCHANGED packageRecord /\ Handled(failed)
      BY <1>5 DEF MarkInError
    <2>2. WellFormed(subject, Record("error", "other", retryable, item, dest))
      BY <1>2, NewRecords DEF IInv
    <2>3. QED
      BY <1>1, <2>1, <2>2, PersistWrites, HandledStep
  <1>6. CASE MarkLeft
    <2>1. /\ Written(subject, Failure("move", item, "inbox")) /\ Handled(TRUE)
          /\ Fault \/ UNCHANGED faults
      BY <1>6 DEF MarkLeft, Written
    <2>2. WellFormed(subject, Failure("move", item, "inbox"))
      BY <1>2, NewRecords DEF IInv, Failure
    <2>3. QED
      BY <1>1, <2>1, <2>2, HandledStep
  <1>7. QED
    BY <1>3, <1>4, <1>5, <1>6

LEMMA UploadStep ==
  ASSUME IInv, Upload, UNCHANGED given
  PROVE  IInv'
  <1> DEFINE r == Record("processed", "none", FALSE, item, "processed")
  <1>1. /\ pc = "upload" /\ (Fault \/ UNCHANGED faults) /\ UNCHANGED <<subject, item>>
        /\ UNCHANGED <<loc, record, attempts, todo, errors, plan, outcome, day, given>>
        /\ packageRecord' \in {packageRecord, [packageRecord EXCEPT ![subject] = r]}
        /\ \/ pc' = "move" /\ package' = [package EXCEPT ![subject] = "complete"]
           \/ /\ pc' = "unprocessed"
              /\ package' = [package EXCEPT ![subject] = IF @ = "complete" THEN @ ELSE "partial"]
    BY DEF Upload, Goto, run
  <1>2. subject \in Source /\ item \in Own(subject)
    BY <1>1 DEF IInv, Stages, ItemStep
  <1>3. WellFormed(subject, r)
    BY <1>2, NewRecords DEF IInv
  <1> HIDE DEF r
  <1>4. /\ package' \in [Source -> {"none", "partial", "complete"}]
        /\ \A s \in Source : package[s] = "complete" => package'[s] = "complete"
        /\ pc' = "move" => package'[subject] = "complete"
    BY <1>1, <1>2 DEF IInv, Types
  <1>5. Types'
    BY <1>1, <1>4, FaultTyped DEF IInv, Types, given, Step
  <1>6. Stages'
    BY <1>1, <1>4 DEF IInv, Stages, FailureStep, ItemStep, CleanStep, In, Own, Label, Folder
  <1>7. Places'
    BY <1>1, PlacesKept DEF IInv, given
  <1>8. Records'
    <2>1. DOMAIN packageRecord' = Source
      BY <1>1 DEF IInv, Records
    <2>2. \A s \in Source :
            packageRecord'[s] = packageRecord[s] \/ (s = subject /\ packageRecord'[s] = r)
      BY <1>1 DEF IInv, Records
    <2>3. QED
      BY <1>1, <1>3, <2>1, <2>2 DEF IInv, Records
  <1>9. MovedIsPackaged' /\ PurgedInTime'
    BY <1>1, <1>4 DEF IInv, MovedIsPackaged, PurgedInTime, Overwritten, Purged
  <1>10. QED
    BY <1>5, <1>6, <1>7, <1>8, <1>9 DEF IInv

LEMMA MarkCleanedStep ==
  ASSUME IInv, MarkCleaned, UNCHANGED given
  PROVE  IInv'
  <1> DEFINE r == [record[subject] EXCEPT
                     !.retention = pc, !.trash = item,
                     !.since = IF pc = "quarantined" THEN day ELSE @]
  <1>1. /\ pc \in {"quarantined", "purged"} /\ Sync(subject, r, TRUE)
        /\ pc' = "idle" /\ subject' = NoSource
        /\ UNCHANGED <<loc, package, attempts, todo, plan, outcome, day, given>>
    BY DEF MarkCleaned, Rest, Begin
  <1>2. /\ subject \in Source /\ item \in Own(subject) /\ record[subject].status = "processed"
        /\ pc = "quarantined" => record[subject].at + Retention <= day
    BY <1>1 DEF IInv, Stages, CleanStep
  <1>3. record[subject] \in RecordType(subject)
    BY <1>2, CleanRecord
  <1>4. day \in Nat
    BY Constants DEF IInv, Types
  <1>5. WellFormed(subject, r)
    <2>1. r \in RecordType(subject)
      BY <1>1, <1>2, <1>3, <1>4 DEF RecordType
    <2>2. r.retention = pc /\ r.trash = item /\ r.at = record[subject].at
          /\ pc = "quarantined" => r.since = day
      BY <1>3 DEF RecordType
    <2>3. QED
      BY <1>1, <1>2, <2>1, <2>2 DEF WellFormed
  <1>6. r.status = "processed" /\ r.at = record[subject].at
    BY <1>2, <1>3 DEF RecordType
  <1> HIDE DEF r
  <1>7. Written(subject, r) /\ errors' \in BOOLEAN /\ (Fault \/ UNCHANGED faults)
    BY <1>1, <1>2, SyncWrites DEF IInv
  <1>8. Types'
    BY <1>1, <1>7, FaultTyped DEF IInv, Types, given, Step
  <1>9. Stages'
    BY <1>1, ResetStages DEF Reset
  <1>10. QED
    BY <1>1, <1>2, <1>5, <1>6, <1>7, <1>8, <1>9, WriteStep

-----------------------------------------------------------------------------
(* The invariant.                                                           *)

LEMMA InitInv == Init => IInv
  <1> SUFFICES ASSUME Init PROVE IInv
    OBVIOUS
  <1>1. Types
    <2>1. /\ package \in [Source -> {"none", "partial", "complete"}]
          /\ attempts \in [Source -> 0..MaxRetries]
          /\ outcome \in [Source -> {"none", "lost", "bad", "ok"}]
      BY Constants DEF Init, NoOutcome
    <2>2. /\ pc \in Step /\ subject \in Source \cup {NoSource}
          /\ todo \subseteq Source /\ errors \in BOOLEAN /\ plan \subseteq Lane
      BY DEF Init, Step
    <2>3. day \in 0..MaxDay /\ faults \in 0..MaxFaults
      BY Constants DEF Init
    <2>4. kind \in Kinds /\ lossy \in BOOLEAN
      BY LifecycleAssumption DEF Init
    <2>5. QED
      BY <2>1, <2>2, <2>3, <2>4 DEF Types
  <1>2. \A s \in Source : loc[s] = Outside
    BY DEF Init
  <1>3. Places
    BY <1>2 DEF Init, Places, Placed
  <1>4. Records
    BY DEF Init, Records, WellFormed
  <1>5. Stages
    BY DEF Init, Stages, FailureStep, ItemStep, CleanStep
  <1>6. MovedIsPackaged /\ PurgedInTime
    BY <1>2, PathParts DEF MovedIsPackaged, PurgedInTime
  <1>7. QED
    BY <1>1, <1>3, <1>4, <1>5, <1>6 DEF IInv

LEMMA StutterInv == ASSUME IInv, UNCHANGED vars PROVE IInv'
  <1>1. UNCHANGED <<loc, package, packageRecord, record, attempts, pc, subject, item, todo, errors,
                    plan, outcome, day, faults, given>>
    BY DEF vars, stored, run
  <1>2. Types'
    BY <1>1 DEF IInv, Types, given
  <1>3. Stages'
    BY <1>1 DEF IInv, Stages, In
  <1>4. day' >= day
    BY <1>1, Constants DEF IInv, Types
  <1>5. QED
    BY <1>1, <1>2, <1>3, <1>4, QuietStep

LEMMA NextInv == ASSUME DistinctNames, IInv, [Next]_vars PROVE IInv'
  <1>1. CASE Reconcile /\ UNCHANGED given
    BY <1>1, StartRunStep, MarkExhaustedStep, MarkFinalizedStep, DropRetryStep, CountedSteps,
       EndReconcileStep, SkipSteps, FailureMoves, FindInQueueStep DEF Reconcile
  <1>2. CASE Ingest /\ UNCHANGED given
    BY <1>2, PlanSteps, StartBridgeStep, ExtractSteps, RunBatchStep, ItemMoves, RecordSteps,
       UploadStep, EndBridgeStep, PickSteps DEF Ingest
  <1>3. CASE CleanUp /\ UNCHANGED given
    BY <1>3, MarkCleanedStep, AroundSteps, QuarantineStep, PurgeStep DEF CleanUp
  <1>4. CASE UNCHANGED vars
    BY <1>4, StutterInv
  <1>5. QED
    BY <1>1, <1>2, <1>3, <1>4, ArriveStep, AroundSteps DEF Next

LEMMA Inductive == ASSUME DistinctNames PROVE Spec => []IInv
  <1>1. IInv /\ [Next]_vars => IInv'
    BY NextInv
  <1>2. QED
    BY <1>1, InitInv, PTL DEF Spec

-----------------------------------------------------------------------------
(* What follows from it.                                                    *)

\* Types; the state file never counts more than --max-retries attempts
\* (reconcile_queues.py).
THEOREM TypeCorrect == ASSUME DistinctNames PROVE Spec => []TypeOK
  <1>1. IInv => TypeOK
    <2> SUFFICES ASSUME IInv PROVE TypeOK
      OBVIOUS
    <2>1. ASSUME NEW s \in Source
          PROVE  /\ loc[s][1] \in Folder \cup {"outside", "overwritten", "purged"}
                 /\ package[s] \in {"none", "partial", "complete"}
                 /\ attempts[s] \in 0..MaxRetries
      BY PathParts DEF IInv, Places, Placed, Types
    <2>2. ASSUME NEW s \in Source, NEW r \in {record[s], packageRecord[s]}
          PROVE  r = NoRecord \/ r.status \in {"processed", "error", "retry_queued"}
      BY DEF IInv, Records, WellFormed, RecordType
    <2>3. QED
      BY <2>1, <2>2 DEF IInv, Types, TypeOK
  <1>2. QED
    BY <1>1, Inductive, PTL

\* A source is in processed, in the quarantine or purged only with a complete package
\* (process_one of the bridges, finalize_processed_move, retention_cleanup.py).
THEOREM MovedOncePackaged == ASSUME DistinctNames PROVE Spec => []MovedIsPackaged
  <1>1. IInv => MovedIsPackaged
    BY DEF IInv
  <1>2. QED
    BY <1>1, Inductive, PTL

\* No file replaces another, and none is deleted before its retention and its time in
\* the quarantine are over (retention_cleanup.py), whatever calls failed before.
THEOREM PurgedOnlyInTime == ASSUME DistinctNames PROVE Spec => []PurgedInTime
  <1>1. IInv => PurgedInTime
    BY DEF IInv
  <1>2. QED
    BY <1>1, Inductive, PTL
=============================================================================
