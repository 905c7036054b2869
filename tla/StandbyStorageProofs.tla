------------------------- MODULE StandbyStorageProofs -------------------------
(***************************************************************************)
(* Theorems about StandbyStorage, for any files, any age and any number of  *)
(* faults.                                                                  *)
(***************************************************************************)
EXTENDS StandbyStorage, TLAPS

\* From the first whole check to the end, both stores hold the same work.
Copied ==
  {"refresh", "refreshed", "precheck", "unlock primary", "unlock backup",
   "postcheck", "rearm"}

\* What a run knows of the lock, by the place it has reached.
Stages ==
  /\ pc = "failback" => lock["backup"]
  /\ pc \in Copied => data["backup"]["curation"] = data["primary"]["curation"]
  /\ pc \in {"pre", "post"} => mode = "primary"
  /\ pc = "work" /\ mode = "backup" => lock["backup"]
  /\ pc \in {"pre", "work", "post"} /\ mode = "primary" /\ ~split =>
       ~lock["backup"] /\ ~lock["primary"]

IInv == TypeOK /\ Kept /\ Stages

\* Where a file is, on either store.
Somewhere(x, d, a) == \E s \in Store : x \in a[s] \/ \E c \in Data : x \in d[s][c]

-----------------------------------------------------------------------------
(* Lemmas about copies.                                                     *)

LEMMA PostLen == Len(PostScopes) = 3
  BY DEF PostScopes

LEMMA PreLen == Len(PreScopes) = 1
  BY DEF PreScopes

\* A copy keeps types and every file.
LEMMA SyncKeeps ==
  ASSUME TypeOK, Kept, NEW from \in Store, NEW to \in Store, NEW scope,
         SyncScope(from, to, scope)
  PROVE  /\ data' \in [Store -> [Data -> SUBSET Item]]
         /\ marker' \in [Store -> Marker]
         /\ lock' \in [Store -> BOOLEAN]
         /\ aside' \in [Store -> SUBSET Item]
         /\ \A x \in dropped : Somewhere(x, data', aside')
  <1>1. CASE scope \in Data /\ SyncData(from, to, scope)
    <2>1. /\ data' = [data EXCEPT ![to][scope] = data[from][scope]]
          /\ aside' = [aside EXCEPT ![to] = @ \cup (data[to][scope] \ data[from][scope])]
          /\ UNCHANGED state
      BY <1>1 DEF SyncData
    <2>2. data[from][scope] \in SUBSET Item /\ data[to][scope] \in SUBSET Item
      BY <1>1 DEF TypeOK
    <2>3. /\ data' \in [Store -> [Data -> SUBSET Item]]
          /\ aside' \in [Store -> SUBSET Item]
      BY <1>1, <2>1, <2>2 DEF TypeOK
    <2>4. marker' = marker /\ lock' = lock
      BY <2>1 DEF state
    <2>5. ASSUME NEW x \in dropped PROVE Somewhere(x, data', aside')
      <3>1. CASE x \in aside'[to]
        BY <3>1 DEF Somewhere
      <3>2. CASE x \notin aside'[to]
        <4>1. PICK s \in Store : x \in aside[s] \/ \E c \in Data : x \in data[s][c]
          BY DEF Kept
        <4>2. CASE x \in aside[s]
          BY <4>2, <2>1, <2>3, <3>2 DEF TypeOK, Somewhere
        <4>3. CASE \E c \in Data : x \in data[s][c]
          <5>1. PICK c \in Data : x \in data[s][c]
            BY <4>3
          <5>2. CASE s = to /\ c = scope
            <6>1. x \in data[from][scope]
              BY <5>1, <5>2, <3>2, <2>1 DEF TypeOK
            <6>2. data'[to][scope] = data[from][scope]
              BY <1>1, <2>1 DEF TypeOK
            <6>3. QED
              BY <6>1, <6>2, <1>1 DEF Somewhere
          <5>3. CASE ~(s = to /\ c = scope)
            <6>1. data'[s][c] = data[s][c]
              BY <5>3, <2>1, <1>1 DEF TypeOK
            <6>2. QED
              BY <6>1, <5>1 DEF Somewhere
          <5>4. QED
            BY <5>2, <5>3
        <4>4. QED
          BY <4>1, <4>2, <4>3
      <3>3. QED
        BY <3>1, <3>2
    <2>6. QED
      BY <2>3, <2>4, <2>5 DEF TypeOK
  <1>2. CASE scope = "log" /\ SyncLog(from, to)
    <2>1. data' = data /\ aside' = aside
      BY <1>2 DEF SyncLog
    <2>2. marker' \in [Store -> Marker] /\ lock' \in [Store -> BOOLEAN]
      BY <1>2 DEF SyncLog, TypeOK
    <2>3. QED
      BY <2>1, <2>2 DEF TypeOK, Kept, Somewhere
  <1>3. QED
    BY <1>1, <1>2 DEF SyncScope

\* So does a copy that fails.
LEMMA PartKeeps ==
  ASSUME TypeOK, Kept, NEW from \in Store, NEW to \in Store, NEW scope,
         SyncPart(from, to, scope)
  PROVE  /\ data' \in [Store -> [Data -> SUBSET Item]]
         /\ UNCHANGED <<aside, state>>
         /\ \A x \in dropped : Somewhere(x, data', aside')
         /\ \A s \in Store, c \in Data : data[s][c] \subseteq data'[s][c]
  <1>1. PICK part \in SUBSET data[from][scope] :
          data' = [data EXCEPT ![to][scope] = @ \cup part]
    BY DEF SyncPart
  <1>2. scope \in Data /\ UNCHANGED <<aside, state>>
    BY DEF SyncPart
  <1>3. data' \in [Store -> [Data -> SUBSET Item]]
    BY <1>1, <1>2 DEF TypeOK
  <1>4. ASSUME NEW s \in Store, NEW c \in Data PROVE data[s][c] \subseteq data'[s][c]
    BY <1>1, <1>2 DEF TypeOK
  <1>5. ASSUME NEW x \in dropped PROVE Somewhere(x, data', aside')
    BY <1>2, <1>4 DEF Kept, Somewhere
  <1>6. QED
    BY <1>2, <1>3, <1>4, <1>5

-----------------------------------------------------------------------------
(* The invariant is preserved, program by program.                          *)

LEMMA InitInv == Init => IInv
  <1> SUFFICES ASSUME Init PROVE IInv
    OBVIOUS
  <1>1. 0 \in Age /\ 0 \in 0..MaxFaults
    BY StandbyAssumption DEF StandbyAssumption, Age
  <1>2. 1 \in 1..(Len(PostScopes) + 1)
    BY PostLen
  <1>3. TypeOK
    BY <1>1, <1>2 DEF Init, TypeOK, Marker, Store, Data, Point
  <1>4. QED
    BY <1>3 DEF Init, IInv, Kept, Stages, Copied, Store

LEMMA OlderType ==
  ASSUME NEW a \in Age
  PROVE  Older(a) \in Age
  BY StandbyAssumption DEF StandbyAssumption, Age, Older

LEMMA FaultType ==
  ASSUME TypeOK, Fault \/ Sound
  PROVE  faults' \in 0..MaxFaults
  BY StandbyAssumption DEF StandbyAssumption, TypeOK, Fault, Sound

\* A step that leaves the files alone keeps them.
LEMMA FilesKept ==
  ASSUME Kept, UNCHANGED files
  PROVE  Kept'
  BY DEF Kept, files

LEMMA StartInv == IInv /\ StartRun => IInv'
  <1> SUFFICES ASSUME IInv, StartRun PROVE IInv'
    OBVIOUS
  <1>1. marker' \in [Store -> Marker] /\ since' \in [Item -> Age]
    BY OlderType DEF IInv, StartRun, TypeOK, Marker
  <1>2. TypeOK'
    BY <1>1, FaultType DEF IInv, StartRun, TypeOK, Goto, Sound, Point, run
  <1>3. Kept'
    BY DEF IInv, StartRun, Kept
  <1>4. Stages'
    BY DEF StartRun, Goto, Stages, Copied
  <1>5. QED
    BY <1>2, <1>3, <1>4 DEF IInv

LEMMA ReconcileInv == IInv /\ Reconcile => IInv'
  <1> SUFFICES ASSUME IInv, Reconcile PROVE IInv'
    OBVIOUS
  <1>1. CASE ReconcileSkip
    <2>1. TypeOK'
      BY <1>1, FaultType DEF IInv, ReconcileSkip, TypeOK, Goto, Sound, Fault, Point, files,
         state, run
    <2>2. Stages'
      BY <1>1 DEF ReconcileSkip, Goto, Stages, Copied
    <2>3. QED
      BY <1>1, <2>1, <2>2, FilesKept DEF IInv, ReconcileSkip
  <1>2. CASE ReconcileRefused
    <2>1. TypeOK'
      BY <1>2, FaultType DEF IInv, ReconcileRefused, TypeOK, Goto, Point, files, state, run
    <2>2. Stages'
      BY <1>2 DEF ReconcileRefused, Goto, Stages, Copied
    <2>3. QED
      BY <1>2, <2>1, <2>2, FilesKept DEF IInv, ReconcileRefused
  <1>3. CASE ReconcileBegin
    <2>1. TypeOK'
      BY <1>3, FaultType, PostLen DEF IInv, ReconcileBegin, TypeOK, Goto, Point, files, state
    <2>2. Stages'
      BY <1>3 DEF ReconcileBegin, Goto, Stages, Copied, state
    <2>3. QED
      BY <1>3, <2>1, <2>2, FilesKept DEF IInv, ReconcileBegin
  <1>4. CASE FailbackSync
    <2>1. SyncScope("backup", "primary", PostScopes[i])
      BY <1>4 DEF FailbackSync
    <2>2. /\ data' \in [Store -> [Data -> SUBSET Item]]
          /\ marker' \in [Store -> Marker]
          /\ lock' \in [Store -> BOOLEAN]
          /\ aside' \in [Store -> SUBSET Item]
          /\ \A x \in dropped : Somewhere(x, data', aside')
      BY <2>1, SyncKeeps DEF IInv, Store
    <2>3. i' \in 1..(Len(PostScopes) + 1)
      BY <1>4, PostLen DEF FailbackSync, IInv, TypeOK
    <2>4. TypeOK'
      BY <1>4, <2>2, <2>3, FaultType DEF IInv, FailbackSync, TypeOK
    <2>5. Kept'
      BY <1>4, <2>2 DEF FailbackSync, Kept, Somewhere
    <2>6. lock'["backup"] = lock["backup"]
      BY <2>1 DEF SyncScope, SyncData, SyncLog, state, IInv, TypeOK, Store
    <2>7. Stages'
      BY <1>4, <2>6 DEF FailbackSync, IInv, Stages, Copied
    <2>8. QED
      BY <2>4, <2>5, <2>7 DEF IInv
  <1>5. CASE FailbackSyncFails
    <2>1. SyncPart("backup", "primary", PostScopes[i])
      BY <1>5 DEF FailbackSyncFails
    <2>2. /\ data' \in [Store -> [Data -> SUBSET Item]]
          /\ UNCHANGED <<aside, state>>
          /\ \A x \in dropped : Somewhere(x, data', aside')
      BY <2>1, PartKeeps DEF IInv, Store
    <2>3. TypeOK'
      BY <1>5, <2>2, FaultType DEF IInv, FailbackSyncFails, TypeOK, Goto, Point, state, run
    <2>4. Kept'
      BY <1>5, <2>2 DEF FailbackSyncFails, Kept, Somewhere
    <2>5. Stages'
      BY <1>5 DEF FailbackSyncFails, Goto, Stages, Copied
    <2>6. QED
      BY <2>3, <2>4, <2>5 DEF IInv
  <1>6. CASE FailbackValidate \/ PreUnlockValidate
    <2>1. TypeOK'
      BY <1>6, FaultType
         DEF IInv, FailbackValidate, PreUnlockValidate, Validate, TypeOK, Point, files, state, run
    <2>2. pc' \in {"refresh", "unlock primary", "idle"} /\ UNCHANGED files
      BY <1>6 DEF FailbackValidate, PreUnlockValidate, Validate
    <2>3. pc' \in Copied => data'["backup"]["curation"] = data'["primary"]["curation"]
      BY <1>6, <2>2 DEF FailbackValidate, PreUnlockValidate, Validate, Copied, Equal, files
    <2>4. Stages'
      BY <2>2, <2>3 DEF Stages
    <2>5. QED
      BY <2>1, <2>2, <2>4, FilesKept DEF IInv
  <1>7. CASE RefreshMarker \/ CopyMarker
    <2>1. marker' \in [Store -> Marker]
      BY <1>7, StandbyAssumption
         DEF StandbyAssumption, IInv, RefreshMarker, CopyMarker, TypeOK, Marker, Age, Store
    <2>2. TypeOK'
      BY <1>7, <2>1, FaultType
         DEF IInv, RefreshMarker, CopyMarker, TypeOK, Goto, Point, files, run
    <2>3. Stages'
      BY <1>7 DEF IInv, RefreshMarker, CopyMarker, Goto, Stages, Copied, files
    <2>4. QED
      BY <1>7, <2>2, <2>3, FilesKept DEF IInv, RefreshMarker, CopyMarker
  <1>8. CASE UnlockPrimary \/ UnlockBackup
    <2>1. lock' \in [Store -> BOOLEAN] /\ (Fault \/ Sound) /\ UNCHANGED <<files, marker, run>>
      BY <1>8 DEF IInv, UnlockPrimary, UnlockBackup, Unlock, TypeOK, Store
    <2>2. pc \in Copied /\ pc' \in {"unlock backup", "postcheck"}
      BY <1>8 DEF UnlockPrimary, UnlockBackup, Goto, Copied
    <2>3. TypeOK'
      BY <2>1, <2>2, FaultType DEF IInv, TypeOK, Point, files, run
    <2>4. Stages'
      BY <2>1, <2>2 DEF IInv, Stages, files
    <2>5. QED
      BY <2>1, <2>3, <2>4, FilesKept DEF IInv
  <1>9. CASE Reconciled \/ PostUnlockFails
    <2>1. TypeOK'
      BY <1>9, FaultType
         DEF IInv, Reconciled, PostUnlockFails, TypeOK, Goto, Sound, Fault, Point, files, state, run
    <2>2. Stages'
      BY <1>9 DEF IInv, Reconciled, PostUnlockFails, Goto, Stages, Copied, files
    <2>3. QED
      BY <1>9, <2>1, <2>2, FilesKept DEF IInv, Reconciled, PostUnlockFails
  <1>10. CASE Rearm
    <2>1. TypeOK'
      BY <1>10, FaultType DEF IInv, Rearm, TypeOK, Goto, Point, files, run
    <2>2. Stages'
      BY <1>10 DEF Rearm, Goto, Stages, Copied
    <2>3. QED
      BY <1>10, <2>1, <2>2, FilesKept DEF IInv, Rearm
  <1>11. QED
    BY <1>1, <1>2, <1>3, <1>4, <1>5, <1>6, <1>7, <1>8, <1>9, <1>10 DEF Reconcile

LEMMA SelectionInv == IInv /\ Selection => IInv'
  <1> SUFFICES ASSUME IInv, Selection PROVE IInv'
    OBVIOUS
  <1>1. CASE PreflightPrimary
    <2>1. TypeOK'
      BY <1>1, FaultType
         DEF IInv, PreflightPrimary, TypeOK, Goto, Sound, Fault, Point, files, state
    <2>2. Stages'
      BY <1>1 DEF PreflightPrimary, Goto, Stages, Copied
    <2>3. QED
      BY <1>1, <2>1, <2>2, FilesKept DEF IInv, PreflightPrimary
  <1>2. CASE SelectLocked
    <2>1. TypeOK'
      BY <1>2, FaultType DEF IInv, SelectLocked, TypeOK, Goto, Point, Store, files, state
    <2>2. Stages'
      BY <1>2 DEF SelectLocked, Goto, Stages, Copied, state
    <2>3. QED
      BY <1>2, <2>1, <2>2, FilesKept DEF IInv, SelectLocked
  <1>3. CASE SelectPrimary
    <2>1. TypeOK'
      BY <1>3, FaultType, PostLen
         DEF IInv, SelectPrimary, TypeOK, Goto, Sound, Fault, Point, Store, files, state
    <2>2. Stages'
      BY <1>3 DEF SelectPrimary, Goto, Stages, Copied, state
    <2>3. QED
      BY <1>3, <2>1, <2>2, FilesKept DEF IInv, SelectPrimary
  <1>4. CASE SelectRefused
    <2>1. TypeOK'
      BY <1>4, FaultType
         DEF IInv, SelectRefused, TypeOK, Goto, Sound, Fault, Point, files, state, run
    <2>2. Stages'
      BY <1>4 DEF SelectRefused, Goto, Stages, Copied
    <2>3. QED
      BY <1>4, <2>1, <2>2, FilesKept DEF IInv, SelectRefused
  <1>5. CASE FailOver
    <2>1. TypeOK'
      BY <1>5, FaultType DEF IInv, FailOver, TypeOK, Goto, Point, Store, files
    <2>2. lock'["backup"]
      BY <1>5 DEF IInv, FailOver, TypeOK, Store
    <2>3. Stages'
      BY <1>5, <2>2 DEF FailOver, Goto, Stages, Copied
    <2>4. QED
      BY <1>5, <2>1, <2>3, FilesKept DEF IInv, FailOver
  <1>6. QED
    BY <1>1, <1>2, <1>3, <1>4, <1>5 DEF Selection

LEMMA ReplicaInv == IInv /\ Replica => IInv'
  <1> SUFFICES ASSUME IInv, NEW phase \in {"pre", "post"},
                      ReplicaSync(phase) \/ ReplicaFails(phase) \/ ReplicaMark(phase)
               PROVE  IInv'
    BY DEF Replica
  <1> USE PostLen, PreLen
  <1>0. pc = phase /\ mode = "primary" /\ After(phase) \in {"work", "idle"}
    BY DEF IInv, Stages, ReplicaSync, ReplicaFails, ReplicaMark, Goto, After
  <1>1. CASE ReplicaSync(phase)
    <2>1. SyncScope("primary", "backup", Scopes(phase)[i])
      BY <1>1 DEF ReplicaSync
    <2>2. /\ data' \in [Store -> [Data -> SUBSET Item]]
          /\ marker' \in [Store -> Marker]
          /\ lock' \in [Store -> BOOLEAN]
          /\ aside' \in [Store -> SUBSET Item]
          /\ \A x \in dropped : Somewhere(x, data', aside')
      BY <2>1, SyncKeeps DEF IInv, Store
    <2>3. i' \in 1..(Len(PostScopes) + 1)
      <3>1. Len(Scopes(phase)) \in {1, 3}
        BY DEF Scopes
      <3>2. QED
        BY <1>1, <3>1 DEF ReplicaSync, IInv, TypeOK
    <2>4. TypeOK'
      BY <1>1, <2>2, <2>3, FaultType DEF IInv, ReplicaSync, TypeOK
    <2>5. Kept'
      BY <1>1, <2>2 DEF ReplicaSync, Kept, Somewhere
    <2>6. /\ lock'["primary"] = lock["primary"]
          /\ lock'["backup"] \in {lock["backup"], lock["primary"]}
      BY <2>1 DEF SyncScope, SyncData, SyncLog, state, IInv, TypeOK, Store
    <2>7. Stages'
      BY <1>0, <1>1, <2>6 DEF ReplicaSync, IInv, Stages, Copied
    <2>8. QED
      BY <2>4, <2>5, <2>7 DEF IInv
  <1>2. CASE ReplicaFails(phase)
    <2>1. /\ data' \in [Store -> [Data -> SUBSET Item]]
          /\ UNCHANGED <<aside, state>>
          /\ \A x \in dropped : Somewhere(x, data', aside')
      <3>1. CASE SyncPart("primary", "backup", Scopes(phase)[i])
        BY <3>1, PartKeeps DEF IInv, Store
      <3>2. CASE UNCHANGED <<data, aside, state>>
        BY <3>2 DEF IInv, TypeOK, Kept, Somewhere
      <3>3. QED
        BY <1>2, <3>1, <3>2 DEF ReplicaFails
    <2>2. TypeOK'
      BY <1>0, <1>2, <2>1, FaultType DEF IInv, ReplicaFails, TypeOK, Goto, Point, state, run
    <2>3. Kept'
      BY <1>2, <2>1 DEF ReplicaFails, Kept, Somewhere
    <2>4. Stages'
      BY <1>0, <1>2, <2>1 DEF ReplicaFails, Goto, IInv, Stages, Copied, state, run
    <2>5. QED
      BY <2>2, <2>3, <2>4 DEF IInv
  <1>3. CASE ReplicaMark(phase)
    <2>1. marker' \in [Store -> Marker]
      BY <1>3, StandbyAssumption
         DEF StandbyAssumption, IInv, ReplicaMark, TypeOK, Marker, Age, Store
    <2>2. TypeOK'
      BY <1>0, <1>3, <2>1, FaultType DEF IInv, ReplicaMark, TypeOK, Goto, Point, files, run
    <2>3. Stages'
      BY <1>0, <1>3 DEF ReplicaMark, Goto, IInv, Stages, Copied, run
    <2>4. QED
      BY <1>3, <2>2, <2>3, FilesKept DEF IInv, ReplicaMark
  <1>4. QED
    BY <1>1, <1>2, <1>3

LEMMA WorkInv ==
  ASSUME IInv, NEW x \in Item, Work(x)
  PROVE  IInv'
  <1>1. /\ data' = [data EXCEPT ![mode] =
             [inbox |-> @["inbox"] \ {x}, curation |-> @["curation"] \cup {x}]]
        /\ mode \in Store /\ UNCHANGED <<dropped, aside, state, mode, reached, split>>
    BY DEF Work, IInv, TypeOK
  <1>2. data' \in [Store -> [Data -> SUBSET Item]]
    BY <1>1 DEF IInv, TypeOK, Data
  <1>3. since' \in [Item -> Age]
    BY StandbyAssumption DEF StandbyAssumption, Work, IInv, TypeOK, Age
  <1>4. TypeOK'
    BY <1>1, <1>2, <1>3, FaultType, PostLen DEF Work, WorkNext, IInv, TypeOK, Point, state
  <1>5. ASSUME NEW y \in dropped PROVE Somewhere(y, data', aside')
    <2>1. PICK s \in Store : y \in aside[s] \/ \E c \in Data : y \in data[s][c]
      BY DEF IInv, Kept
    <2>2. CASE y \in aside[s]
      BY <2>2, <1>1 DEF Somewhere
    <2>3. CASE \E c \in Data : y \in data[s][c]
      <3>1. y \in data'[s]["inbox"] \/ y \in data'[s]["curation"]
        BY <2>3, <1>1 DEF IInv, TypeOK, Data
      <3>2. QED
        BY <3>1 DEF Somewhere, Data
    <2>4. QED
      BY <2>1, <2>2, <2>3
  <1>6. Kept'
    BY <1>1, <1>5 DEF Kept, Somewhere
  <1>7. Stages'
    BY <1>1 DEF Work, WorkNext, IInv, Stages, Copied, TypeOK, Store, state
  <1>8. QED
    BY <1>4, <1>6, <1>7 DEF IInv

LEMMA NoWorkInv == IInv /\ NoWork => IInv'
  <1> SUFFICES ASSUME IInv, NoWork PROVE IInv'
    OBVIOUS
  <1>1. TypeOK'
    BY FaultType, PostLen DEF NoWork, WorkNext, IInv, TypeOK, Point, files, state
  <1>2. Stages'
    BY DEF NoWork, WorkNext, IInv, Stages, Copied, TypeOK, Store, state
  <1>3. QED
    BY <1>1, <1>2, FilesKept DEF IInv, NoWork

LEMMA DropInv ==
  ASSUME IInv, NEW x \in Item, Drop(x)
  PROVE  IInv'
  <1>1. /\ dropped' = dropped \cup {x}
        /\ data' = [data EXCEPT !["primary"]["inbox"] = @ \cup {x}]
        /\ UNCHANGED <<aside, since, state, pc, run, faults>>
    BY DEF Drop
  <1>2. /\ data' \in [Store -> [Data -> SUBSET Item]]
        /\ x \in data'["primary"]["inbox"]
        /\ \A s \in Store, c \in Data : data[s][c] \subseteq data'[s][c]
        /\ \A s \in Store : data'[s]["curation"] = data[s]["curation"]
    BY <1>1 DEF IInv, TypeOK, Store, Data
  <1>3. TypeOK'
    BY <1>1, <1>2 DEF IInv, TypeOK, state, run
  <1>4. Kept'
    BY <1>1, <1>2 DEF IInv, Kept, Store, Data
  <1>5. Stages'
    BY <1>1, <1>2 DEF IInv, Stages, state, run, Store
  <1>6. QED
    BY <1>3, <1>4, <1>5 DEF IInv

LEMMA DieInv == IInv /\ Die => IInv'
  <1> SUFFICES ASSUME IInv, Die PROVE IInv'
    OBVIOUS
  <1>1. TypeOK'
    BY FaultType DEF Die, IInv, TypeOK, Point, files, state, run
  <1>2. Stages'
    BY DEF Die, Stages, Copied
  <1>3. QED
    BY <1>1, <1>2, FilesKept DEF IInv, Die

LEMMA NextInv == IInv /\ [Next]_vars => IInv'
  <1> SUFFICES ASSUME IInv, [Next]_vars PROVE IInv'
    OBVIOUS
  <1>1. CASE UNCHANGED vars
    BY <1>1 DEF vars, files, state, run, IInv, TypeOK, Kept, Stages
  <1>2. CASE Step
    BY <1>2, StartInv, ReconcileInv, SelectionInv, ReplicaInv, NoWorkInv, WorkInv DEF Step
  <1>3. CASE Die \/ \E x \in Item : Drop(x)
    BY <1>3, DieInv, DropInv
  <1>4. QED
    BY <1>1, <1>2, <1>3 DEF Next

-----------------------------------------------------------------------------
(* Theorems.                                                                *)

THEOREM Invariance == Spec => []IInv
  BY InitInv, NextInv, PTL DEF Spec

\* Every variable keeps its type.
THEOREM TypeCorrect == Spec => []TypeOK
  <1>1. IInv => TypeOK
    BY DEF IInv
  <1>2. QED
    BY <1>1, Invariance, PTL

\* No file of the owner is lost, however replication, failover and failback
\* fail: storage_replica.py and storage_reconcile.py set aside what they displace.
THEOREM FilesKeptAlways == Spec => []Kept
  <1>1. IInv => Kept
    BY DEF IInv
  <1>2. QED
    BY <1>1, Invariance, PTL

\* A copy displaces no work of the authoritative store unless a run takes the
\* primary in spite of a lock: a failback hands over all of it.
LEMMA WorkStep ==
  ASSUME IInv, [Next]_vars, ~split', ~FailsOver
  PROVE  data[Active]["curation"] \subseteq data'[Active']["curation"]
  <1>1. CASE UNCHANGED <<data, lock>>
    BY <1>1 DEF Active
  <1>2. CASE FailbackSync
    <2>1. SyncScope("backup", "primary", PostScopes[i]) /\ lock["backup"]
      BY <1>2 DEF FailbackSync, IInv, Stages
    <2>2. lock'["backup"] = lock["backup"] /\ data'["backup"] = data["backup"]
      BY <2>1 DEF SyncScope, SyncData, SyncLog, state, IInv, TypeOK, Store
    <2>3. QED
      BY <2>1, <2>2 DEF Active
  <1>3. CASE FailbackSyncFails
    <2>1. SyncPart("backup", "primary", PostScopes[i]) /\ TypeOK /\ Kept
      BY <1>3 DEF FailbackSyncFails, IInv
    <2>2. /\ UNCHANGED <<aside, state>>
          /\ \A s \in Store, c \in Data : data[s][c] \subseteq data'[s][c]
      BY <2>1, PartKeeps DEF Store
    <2>3. QED
      BY <2>2 DEF Active, state, Store, Data
  <1>4. CASE UnlockPrimary \/ UnlockBackup \/ Rearm
    <2>1. pc \in Copied /\ UNCHANGED data
      BY <1>4 DEF UnlockPrimary, UnlockBackup, Rearm, Unlock, Goto, Copied, files
    <2>2. QED
      BY <2>1 DEF IInv, Stages, Active
  <1>5. CASE \E phase \in {"pre", "post"} : ReplicaSync(phase)
    <2>1. PICK phase \in {"pre", "post"} : ReplicaSync(phase)
      BY <1>5
    <2>2. SyncScope("primary", "backup", Scopes(phase)[i]) /\ ~split
      BY <2>1 DEF ReplicaSync
    <2>3. ~lock["backup"] /\ ~lock["primary"]
      BY <2>1, <2>2 DEF ReplicaSync, IInv, Stages
    <2>4. lock'["backup"] = FALSE /\ data'["primary"] = data["primary"]
      BY <2>2, <2>3 DEF SyncScope, SyncData, SyncLog, state, IInv, TypeOK, Store
    <2>5. QED
      BY <2>3, <2>4 DEF Active
  <1>6. CASE \E phase \in {"pre", "post"} : ReplicaFails(phase)
    <2>1. PICK phase \in {"pre", "post"} : ReplicaFails(phase)
      BY <1>6
    <2>2. CASE SyncPart("primary", "backup", Scopes(phase)[i])
      <3>1. /\ UNCHANGED <<aside, state>>
            /\ \A s \in Store, c \in Data : data[s][c] \subseteq data'[s][c]
        BY <2>2, PartKeeps DEF IInv, Store
      <3>2. QED
        BY <3>1 DEF Active, state, Store, Data
    <2>3. CASE UNCHANGED <<data, aside, state>>
      BY <2>3 DEF Active, state
    <2>4. QED
      BY <2>1, <2>2, <2>3 DEF ReplicaFails
  <1>7. CASE \E x \in Item : Work(x)
    <2>1. PICK x \in Item : Work(x)
      BY <1>7
    <2>2. UNCHANGED state /\ \A s \in Store : data[s]["curation"] \subseteq data'[s]["curation"]
      BY <2>1 DEF Work, IInv, TypeOK, Store, Data
    <2>3. QED
      BY <2>2 DEF Active, state, Store
  <1>8. CASE \E x \in Item : Drop(x)
    <2>1. PICK x \in Item : Drop(x)
      BY <1>8
    <2>2. UNCHANGED state /\ \A s \in Store : data'[s]["curation"] = data[s]["curation"]
      BY <2>1 DEF Drop, IInv, TypeOK, Store, Data
    <2>3. QED
      BY <2>2 DEF Active, state, Store
  <1>9. CASE FailOver
    BY <1>9 DEF FailOver, Goto, FailsOver, IInv, TypeOK, Store
  <1>10. CASE \/ StartRun \/ ReconcileSkip \/ ReconcileRefused \/ ReconcileBegin
              \/ FailbackValidate \/ RefreshMarker \/ CopyMarker \/ PreUnlockValidate
              \/ Reconciled \/ PostUnlockFails \/ PreflightPrimary \/ SelectLocked
              \/ SelectPrimary \/ SelectRefused \/ NoWork \/ Die
              \/ \E phase \in {"pre", "post"} : ReplicaMark(phase)
    <2>1. UNCHANGED <<data, lock>>
      BY <1>10
         DEF StartRun, ReconcileSkip, ReconcileRefused, ReconcileBegin, FailbackValidate,
             RefreshMarker, CopyMarker, PreUnlockValidate, Validate, Reconciled,
             PostUnlockFails, PreflightPrimary, SelectLocked, SelectPrimary,
             SelectRefused, NoWork, Die, ReplicaMark, files, state
    <2>2. QED
      BY <1>1, <2>1
  <1>11. QED
    BY <1>1, <1>2, <1>3, <1>4, <1>5, <1>6, <1>7, <1>8, <1>9, <1>10
       DEF Next, Step, Reconcile, Selection, Replica, vars, files, state

\* What a run has done on the authoritative store stays done, through every
\* interrupted reconciliation, as long as no run takes the primary in spite of a
\* lock (storage_reconcile.main, storage_replica.main).
THEOREM WorkKeptAlways == Spec => WorkKept
  <1>1. IInv /\ [Next]_vars =>
          [~split' /\ ~FailsOver =>
             data[Active]["curation"] \subseteq data'[Active']["curation"]]_vars
    BY WorkStep
  <1>2. QED
    BY <1>1, Invariance, PTL DEF Spec, WorkKept

-----------------------------------------------------------------------------
(* A marker, wherever it was copied to, dates the work the standby holds.    *)

Dated(m) ==
  m.phase = "post" =>
    \A x \in data["primary"]["curation"] :
      since[x] > m.age => x \in data["backup"]["curation"]

Current ==
  /\ \A s \in Store : Dated(marker[s])
  /\ pc = "post" /\ i > Len(PostScopes) =>
       data["primary"]["curation"] \subseteq data["backup"]["curation"]

\* Ages keep their order as they grow, up to the cap.
LEMMA OlderOrder ==
  ASSUME NEW a \in Age, NEW b \in Age, Older(a) > Older(b)
  PROVE  a > b
  BY StandbyAssumption DEF StandbyAssumption, Age, Older

LEMMA PostCases == PostScopes[1] = "inbox" /\ PostScopes[2] = "log" /\ PostScopes[3] = "curation"
  BY DEF PostScopes

LEMMA CurrentInit == Init => Current
  BY PostLen DEF Init, Current, Dated, Store

\* A copy of any scope, in either direction.
LEMMA CurrentSync ==
  ASSUME TypeOK, \A s \in Store : Dated(marker[s]), since' = since,
         NEW from \in Store, NEW to \in Store, NEW scope, from # to,
         SyncScope(from, to, scope)
  PROVE  \A s \in Store : Dated(marker[s])'
  <1>1. CASE scope \in Data /\ SyncData(from, to, scope)
    <2>1. data' = [data EXCEPT ![to][scope] = data[from][scope]] /\ marker' = marker
      BY <1>1 DEF SyncData, state
    <2>2. CASE scope = "curation"
      <3>1. data'["primary"]["curation"] = data'["backup"]["curation"]
        BY <1>1, <2>1, <2>2 DEF TypeOK, Store
      <3>2. QED
        BY <3>1 DEF Dated
    <2>3. CASE scope = "inbox"
      <3>1. \A s \in Store : data'[s]["curation"] = data[s]["curation"]
        BY <2>1, <2>3 DEF TypeOK, Store, Data
      <3>2. QED
        BY <2>1, <3>1 DEF Dated, Store
    <2>4. QED
      BY <1>1, <2>2, <2>3 DEF Data
  <1>2. CASE scope = "log" /\ SyncLog(from, to)
    <2>1. data' = data /\ \A s \in Store : marker'[s] \in {marker[s], marker[from]}
      BY <1>2 DEF SyncLog, TypeOK
    <2>2. QED
      BY <2>1 DEF Dated
  <1>3. QED
    BY <1>1, <1>2 DEF SyncScope

LEMMA CurrentStep ==
  ASSUME IInv, Current, [Next]_vars
  PROVE  Current'
  <1> USE PostLen, PreLen
  <1>1. CASE UNCHANGED <<data, marker, since, i>> /\ (pc' = pc \/ pc' # "post")
    BY <1>1 DEF Current, Dated
  <1>2. CASE StartRun
    <2>1. ASSUME NEW s \in Store PROVE Dated(marker[s])'
      <3>1. marker'[s].phase = marker[s].phase /\ marker'[s].age = Older(marker[s].age)
        BY <1>2 DEF StartRun
      <3>2. \A x \in Item : since'[x] = Older(since[x])
        BY <1>2 DEF StartRun
      <3>3. marker[s].age \in Age /\ \A x \in Item : since[x] \in Age
        BY DEF IInv, TypeOK, Marker
      <3>4. data["primary"]["curation"] \subseteq Item
        BY DEF IInv, TypeOK, Store, Data
      <3>5. \A x \in Item : since'[x] > marker'[s].age => since[x] > marker[s].age
        BY <3>1, <3>2, <3>3, OlderOrder
      <3>6. QED
        BY <1>2, <3>1, <3>4, <3>5 DEF StartRun, Current, Dated
    <2>2. QED
      BY <1>2, <2>1 DEF StartRun, Goto, Current
  <1>3. CASE FailbackSync
    <2>1. SyncScope("backup", "primary", PostScopes[i]) /\ since' = since /\ pc' = "failback"
      BY <1>3 DEF FailbackSync
    <2>2. QED
      BY <2>1, CurrentSync DEF IInv, Current, Store
  <1>4. CASE FailbackSyncFails \/ \E phase \in {"pre", "post"} : ReplicaFails(phase)
    <2>1. \/ UNCHANGED data
          \/ \E scope \in Data :
               \/ SyncPart("backup", "primary", scope)
               \/ SyncPart("primary", "backup", scope)
      BY <1>4 DEF FailbackSyncFails, ReplicaFails, SyncPart
    <2>2. UNCHANGED <<marker, since>> /\ pc' \in {"idle", "work"}
      BY <1>4 DEF FailbackSyncFails, ReplicaFails, SyncPart, Goto, After, state
    <2>3. \A x \in data'["primary"]["curation"] :
            x \in data["primary"]["curation"] \/ x \in data'["backup"]["curation"]
      BY <2>1 DEF SyncPart, IInv, TypeOK, Store, Data
    <2>4. data["backup"]["curation"] \subseteq data'["backup"]["curation"]
      BY <2>1 DEF SyncPart, IInv, TypeOK, Store, Data
    <2>5. QED
      BY <2>2, <2>3, <2>4 DEF Current, Dated
  <1>5. CASE RefreshMarker
    <2>1. data["backup"]["curation"] = data["primary"]["curation"]
      BY <1>5 DEF RefreshMarker, Goto, IInv, Stages, Copied
    <2>2. QED
      BY <1>5, <2>1 DEF RefreshMarker, Goto, Current, Dated, files
  <1>6. CASE CopyMarker
    <2>1. \A s \in Store : marker'[s] = marker["backup"]
      BY <1>6 DEF CopyMarker, IInv, TypeOK, Store
    <2>2. QED
      BY <1>6, <2>1 DEF CopyMarker, Goto, Current, Dated, files, Store
  <1>7. CASE \E phase \in {"pre", "post"} : ReplicaSync(phase)
    <2>1. PICK phase \in {"pre", "post"} : ReplicaSync(phase)
      BY <1>7
    <2>2. SyncScope("primary", "backup", Scopes(phase)[i]) /\ since' = since
      BY <2>1 DEF ReplicaSync
    <2>3. \A s \in Store : Dated(marker[s])'
      BY <2>2, CurrentSync DEF IInv, Current, Store
    <2>4. ASSUME pc' = "post", i' > Len(PostScopes)
          PROVE  data'["primary"]["curation"] \subseteq data'["backup"]["curation"]
      <3>1. phase = "post"
        BY <2>1, <2>4 DEF ReplicaSync
      <3>2. i = 3
        <4>1. Scopes(phase) = PostScopes
          BY <3>1 DEF Scopes
        <4>2. i \in 1..4 /\ i <= 3 /\ i + 1 > 3
          BY <2>1, <2>4, <4>1 DEF ReplicaSync, IInv, TypeOK
        <4>3. QED
          BY <4>2
      <3>3. SyncScope("primary", "backup", "curation")
        BY <2>2, <3>1, <3>2, PostCases DEF Scopes
      <3>4. QED
        BY <3>3 DEF SyncScope, SyncData, IInv, TypeOK, Store, Data
    <2>5. QED
      BY <2>3, <2>4 DEF Current
  <1>8. CASE \E phase \in {"pre", "post"} : ReplicaMark(phase)
    <2>1. PICK phase \in {"pre", "post"} : ReplicaMark(phase)
      BY <1>8
    <2>2. /\ marker' = [marker EXCEPT !["backup"] = [phase |-> phase, age |-> 0]]
          /\ UNCHANGED <<data, since>> /\ pc' \in {"idle", "work"}
      BY <2>1 DEF ReplicaMark, Goto, After, files
    <2>3. CASE phase = "pre"
      BY <2>2, <2>3 DEF Current, Dated, IInv, TypeOK, Store
    <2>4. CASE phase = "post"
      <3>1. data["primary"]["curation"] \subseteq data["backup"]["curation"]
        BY <2>1, <2>4 DEF ReplicaMark, Goto, Scopes, Current
      <3>2. QED
        BY <2>2, <3>1 DEF Current, Dated
    <2>5. QED
      BY <2>3, <2>4
  <1>9. CASE \E x \in Item : Work(x)
    <2>1. PICK x \in Item : Work(x)
      BY <1>9
    <2>2. /\ marker' = marker /\ since' = [since EXCEPT ![x] = 0] /\ i' = 1
          /\ \A y \in data'["primary"]["curation"] : y \in data["primary"]["curation"] \/ y = x
          /\ data["backup"]["curation"] \subseteq data'["backup"]["curation"]
      BY <2>1 DEF Work, WorkNext, state, IInv, TypeOK, Store, Data
    <2>3. ASSUME NEW s \in Store PROVE Dated(marker[s])'
      <3>1. marker[s].age \in Age /\ since'[x] = 0 /\ data'["primary"]["curation"] \subseteq Item
        BY <2>2, WorkInv, <2>1 DEF IInv, TypeOK, Marker, Store, Data
      <3>2. ~(since'[x] > marker[s].age)
        BY <3>1, StandbyAssumption DEF StandbyAssumption, Age
      <3>3. \A y \in Item : y # x => since'[y] = since[y]
        BY <2>2 DEF IInv, TypeOK
      <3>4. QED
        BY <2>2, <3>1, <3>2, <3>3 DEF Current, Dated
    <2>4. QED
      BY <2>2, <2>3 DEF Current
  <1>10. CASE \E x \in Item : Drop(x)
    <2>1. PICK x \in Item : Drop(x)
      BY <1>10
    <2>2. /\ UNCHANGED <<marker, since, pc, i>>
          /\ \A s \in Store : data'[s]["curation"] = data[s]["curation"]
      BY <2>1 DEF Drop, state, run, IInv, TypeOK, Store, Data
    <2>3. QED
      BY <2>2 DEF Current, Dated, Store
  <1>11. CASE \/ ReconcileBegin \/ SelectPrimary \/ NoWork
    <2>1. UNCHANGED <<data, marker, since>> /\ (i' = 1 \/ i' = i) /\ (i' = 1 \/ pc' = pc)
      BY <1>11 DEF ReconcileBegin, SelectPrimary, NoWork, WorkNext, files, state
    <2>2. QED
      BY <2>1 DEF Current, Dated
  <1>12. CASE \/ ReconcileSkip \/ ReconcileRefused \/ FailbackValidate \/ PreUnlockValidate
              \/ UnlockPrimary \/ UnlockBackup \/ Rearm \/ Reconciled \/ PostUnlockFails
              \/ PreflightPrimary \/ SelectLocked \/ SelectRefused \/ FailOver \/ Die
              \/ UNCHANGED vars
    <2>1. UNCHANGED <<data, marker, since, i>> /\ (pc' = pc \/ pc' # "post")
      BY <1>12
         DEF ReconcileSkip, ReconcileRefused, FailbackValidate, PreUnlockValidate, Validate,
             UnlockPrimary, UnlockBackup, Unlock, Rearm, Reconciled, PostUnlockFails,
             PreflightPrimary, SelectLocked, SelectRefused, FailOver, Die,
             Goto, files, state, run, vars
    <2>2. QED
      BY <1>1, <2>1
  <1>13. QED
    BY <1>2, <1>3, <1>4, <1>5, <1>6, <1>7, <1>8, <1>9, <1>10, <1>11, <1>12
       DEF Next, Step, Reconcile, Selection, Replica

LEMMA FreshStep ==
  ASSUME IInv, Current, [Next]_vars, FailsOver,
         NEW x \in data["primary"]["curation"], since[x] > MaxAge
  PROVE  x \in data["backup"]["curation"]
  <1>1. pc = "lock" /\ ~lock["backup"] /\ lock'["backup"]
    BY DEF FailsOver
  <1>2. CASE FailOver
    <2>1. marker["backup"].phase = "post" /\ marker["backup"].age <= MaxAge
      BY <1>2 DEF FailOver, Fresh
    <2>2. marker["backup"].age \in Nat /\ since[x] \in Nat
      BY DEF IInv, TypeOK, Marker, Age, Store, Data
    <2>3. QED
      BY <2>1, <2>2, StandbyAssumption DEF StandbyAssumption, Current, Dated, Store
  <1>3. CASE ~FailOver
    <2>1. lock' = lock
      BY <1>1, <1>3
         DEF Next, Step, StartRun, Reconcile, ReconcileSkip, ReconcileRefused, ReconcileBegin,
             FailbackSync, FailbackSyncFails, FailbackValidate, RefreshMarker, CopyMarker,
             PreUnlockValidate, Validate, UnlockPrimary, UnlockBackup, Reconciled,
             PostUnlockFails, Rearm, Selection, PreflightPrimary, SelectLocked, SelectPrimary,
             SelectRefused, Replica, ReplicaSync, ReplicaFails, ReplicaMark, NoWork, Work,
             Drop, Die, Goto, state, vars
    <2>2. QED
      BY <1>1, <2>1
  <1>4. QED
    BY <1>2, <1>3

\* The standby that takes over holds all work older than MaxAge, whatever copies
\* were left incomplete and wherever its marker came from (replication_is_fresh,
\* storage_failover.main).
THEOREM FailoverIsFresh == Spec => FailoverFresh
  <1>1. IInv /\ Current /\ [Next]_vars =>
          [FailsOver =>
             \A x \in data["primary"]["curation"] :
               since[x] > MaxAge => x \in data["backup"]["curation"]]_vars
    BY FreshStep
  <1>2. IInv /\ Current /\ [Next]_vars => Current'
    BY CurrentStep
  <1>3. QED
    BY <1>1, <1>2, CurrentInit, Invariance, PTL DEF Spec, FailoverFresh
=============================================================================
