---------------------------- MODULE StandbyStorage ----------------------------
(***************************************************************************)
(* The primary store and its standby: storage_replica.py copies the primary *)
(* to the standby, storage_failover.py selects the store of a run,          *)
(* storage_reconcile.py brings the standby back into a recovered primary.   *)
(*                                                                          *)
(* The steps are those of the ingest workflow, whose concurrency group runs *)
(* one run at a time.  Covered: any call that fails, a copy that stops half *)
(* way, a run that dies anywhere, and an owner who drops files on the       *)
(* primary at any time.  Not covered: other writers of the primary.         *)
(***************************************************************************)
EXTENDS Naturals, Sequences

CONSTANTS
  Item,       \* files of the owner
  MaxAge,     \* --max-backup-age-hours, in runs
  MaxFaults   \* bound on calls that fail and runs that die

ASSUME StandbyAssumption == MaxAge \in Nat /\ MaxFaults \in Nat

Store == {"primary", "backup"}

\* What the pre phase copies, and what only the post phase copies.
Data == {"inbox", "curation"}

Age == 0..(MaxAge + 1)
Marker == [phase : {"none", "pre", "post"}, age : Age]

VARIABLES
  dropped,   \* files the owner has dropped
  data,      \* files in each scope of each store
  marker,    \* replication-state.json of each store
  lock,      \* whether failover-active.json is on the store and active
  aside,     \* REPLICA_TRASH on the backup, FAILBACK_QUARANTINE on the primary
  pc,        \* where the run is, or "idle"
  i,         \* scope that is copied next
  mode,      \* the store the run works on
  reached,   \* primary_ok, as the selector measured it
  since,     \* age of the work on each file, in runs
  split,     \* some run took the primary while a lock existed
  faults     \* faults so far

files == <<dropped, data, aside, since>>
state == <<marker, lock>>
run == <<i, mode, reached, split>>
vars == <<files, state, pc, run, faults>>

\* The order in which a phase copies its scopes; "log" holds marker and lock.
PreScopes == <<"inbox">>
PostScopes == <<"inbox", "log", "curation">>

Scopes(phase) == IF phase = "pre" THEN PreScopes ELSE PostScopes

Init ==
  /\ dropped = {}
  /\ data = [s \in Store |-> [c \in Data |-> {}]]
  /\ marker = [s \in Store |-> [phase |-> "none", age |-> 0]]
  /\ lock = [s \in Store |-> FALSE]
  /\ aside = [s \in Store |-> {}]
  /\ pc = "idle"
  /\ i = 1
  /\ mode = "primary"
  /\ reached = FALSE
  /\ since = [x \in Item |-> 0]
  /\ split = FALSE
  /\ faults = 0

Goto(from, to) == pc = from /\ pc' = to
Sound == faults' = faults
Fault == faults < MaxFaults /\ faults' = faults + 1

-----------------------------------------------------------------------------
(* Predicates of the programs.                                              *)

\* Mutant of Complete: reconciliation asks for the freshness of a failover.
CompleteFresh(m) == m.phase = "post" /\ m.age <= MaxAge

\* marker_is_complete
Complete(m) == m.phase = "post"

\* Mutant of Fresh: the phase of the marker is not looked at.
FreshAnyPhase(m) == m.phase # "none" /\ m.age <= MaxAge

\* replication_is_fresh
Fresh(m) == m.phase = "post" /\ m.age <= MaxAge

\* Every scope checks equal on both stores, extra files included.
Equal ==
  /\ data["backup"] = data["primary"]
  /\ marker["backup"] = marker["primary"]
  /\ lock["backup"] = lock["primary"]

-----------------------------------------------------------------------------
(* rclone sync --backup-dir: the destination becomes the source, and what it *)
(* displaces is set aside on the destination.                               *)

\* Mutant of SyncData: displaced files are deleted.
SyncDataOver(from, to, scope) ==
  /\ data' = [data EXCEPT ![to][scope] = data[from][scope]]
  /\ UNCHANGED <<aside, state>>

SyncData(from, to, scope) ==
  /\ data' = [data EXCEPT ![to][scope] = data[from][scope]]
  /\ aside' = [aside EXCEPT ![to] = @ \cup (data[to][scope] \ data[from][scope])]
  /\ UNCHANGED state

SyncLog(from, to) ==
  /\ marker' = [marker EXCEPT ![to] = marker[from]]
  /\ lock' = [lock EXCEPT ![to] = lock[from]]
  /\ UNCHANGED <<data, aside>>

SyncScope(from, to, scope) ==
  \/ scope \in Data /\ SyncData(from, to, scope)
  \/ scope = "log" /\ SyncLog(from, to)

\* A copy that fails has copied some files and deleted none.
SyncPart(from, to, scope) ==
  /\ scope \in Data
  /\ \E part \in SUBSET data[from][scope] :
       data' = [data EXCEPT ![to][scope] = @ \cup part]
  /\ UNCHANGED <<aside, state>>

-----------------------------------------------------------------------------
(* The workflow starts.                                                     *)

\* Ages beyond MaxAge are all the same.
Older(age) == IF age > MaxAge THEN age ELSE age + 1

StartRun ==
  /\ Goto("idle", "reconcile") /\ Sound
  /\ marker' = [s \in Store |-> [phase |-> marker[s].phase, age |-> Older(marker[s].age)]]
  /\ since' = [x \in Item |-> Older(since[x])]
  /\ UNCHANGED <<dropped, data, aside, lock, run>>

-----------------------------------------------------------------------------
(* storage_reconcile.py --auto                                              *)

\* No lock is read, or the primary does not answer yet.
ReconcileSkip ==
  /\ Goto("reconcile", "select")
  /\ (~lock["backup"] /\ Sound) \/ (lock["backup"] /\ Fault)
  /\ UNCHANGED <<files, state, run>>

ReconcileRefused ==
  /\ Goto("reconcile", "idle") /\ Sound
  /\ lock["backup"] /\ ~Complete(marker["backup"])
  /\ UNCHANGED <<files, state, run>>

\* Mutant of ReconcileBegin: the lock is removed first.
ReconcileUnlocked ==
  /\ Goto("reconcile", "failback") /\ Sound
  /\ lock["backup"] /\ Complete(marker["backup"])
  /\ lock' = [s \in Store |-> FALSE]
  /\ i' = 1
  /\ UNCHANGED <<files, marker, mode, reached, split>>

ReconcileBegin ==
  /\ Goto("reconcile", "failback") /\ Sound
  /\ lock["backup"] /\ Complete(marker["backup"])
  /\ i' = 1
  /\ UNCHANGED <<files, state, mode, reached, split>>

FailbackSync ==
  /\ pc = "failback" /\ i <= Len(PostScopes)
  /\ i' = i + 1
  /\ SyncScope("backup", "primary", PostScopes[i])
  /\ Sound
  /\ UNCHANGED <<dropped, since, pc, mode, reached, split>>

FailbackSyncFails ==
  /\ Goto("failback", "idle") /\ Fault
  /\ i <= Len(PostScopes)
  /\ SyncPart("backup", "primary", PostScopes[i])
  /\ UNCHANGED <<dropped, since, run>>

\* A check of all scopes: the run goes on, or ends with the lock in place.
Validate(from, to) ==
  /\ pc = from
  /\ pc' = IF Equal THEN to ELSE "idle"
  /\ Sound
  /\ UNCHANGED <<files, state, run>>

FailbackValidate == i > Len(PostScopes) /\ Validate("failback", "refresh")

RefreshMarker ==
  /\ Goto("refresh", "refreshed") /\ Sound
  /\ marker' = [marker EXCEPT !["backup"] = [phase |-> "post", age |-> 0]]
  /\ UNCHANGED <<files, lock, run>>

CopyMarker ==
  /\ Goto("refreshed", "precheck") /\ Sound
  /\ marker' = [marker EXCEPT !["primary"] = marker["backup"]]
  /\ UNCHANGED <<files, lock, run>>

PreUnlockValidate == Validate("precheck", "unlock primary")

\* delete_remote_file_if_exists: a file that cannot be read counts as absent.
Unlock(store) ==
  /\ (lock' = [lock EXCEPT ![store] = FALSE] /\ Sound) \/ (UNCHANGED lock /\ Fault)
  /\ UNCHANGED <<files, marker, run>>

UnlockPrimary == Goto("unlock primary", "unlock backup") /\ Unlock("primary")

UnlockBackup == Goto("unlock backup", "postcheck") /\ Unlock("backup")

\* The last check, and the state "complete" that is written after it.
Reconciled ==
  /\ Goto("postcheck", "select") /\ Sound
  /\ Equal
  /\ UNCHANGED <<files, state, run>>

PostUnlockFails ==
  /\ Goto("postcheck", "rearm")
  /\ (~Equal /\ Sound) \/ (Equal /\ Fault)
  /\ UNCHANGED <<files, state, run>>

Rearm ==
  /\ Goto("rearm", "idle") /\ Sound
  /\ lock' = [lock EXCEPT !["backup"] = TRUE]
  /\ UNCHANGED <<files, marker, run>>

-----------------------------------------------------------------------------
(* storage_failover.py                                                      *)

PreflightPrimary ==
  /\ Goto("select", "lock")
  /\ (reached' = TRUE /\ Sound) \/ (reached' = FALSE /\ Fault)
  /\ UNCHANGED <<files, state, i, mode, split>>

SelectLocked ==
  /\ Goto("lock", "work") /\ Sound
  /\ lock["backup"]
  /\ mode' = "backup"
  /\ UNCHANGED <<files, state, i, reached, split>>

\* A standby that does not answer, or a lock that cannot be read, is no lock.
SelectPrimary ==
  /\ Goto("lock", "pre")
  /\ reached
  /\ (~lock["backup"] /\ Sound) \/ Fault
  /\ mode' = "primary"
  /\ i' = 1
  /\ split' = (split \/ lock["backup"] \/ lock["primary"])
  /\ UNCHANGED <<files, state, reached>>

\* Neither store can be used.
SelectRefused ==
  /\ Goto("lock", "idle")
  /\ ~reached
  /\ (~lock["backup"] /\ ~Fresh(marker["backup"]) /\ Sound) \/ Fault
  /\ UNCHANGED <<files, state, run>>

FailOver ==
  /\ Goto("lock", "work") /\ Sound
  /\ ~reached /\ ~lock["backup"] /\ Fresh(marker["backup"])
  /\ lock' = [lock EXCEPT !["backup"] = TRUE]
  /\ mode' = "backup"
  /\ UNCHANGED <<files, marker, i, reached, split>>

-----------------------------------------------------------------------------
(* storage_replica.py --phase pre and --phase post, both continue-on-error.  *)

After(phase) == IF phase = "pre" THEN "work" ELSE "idle"

ReplicaSync(phase) ==
  /\ pc = phase /\ i <= Len(Scopes(phase))
  /\ i' = i + 1
  /\ SyncScope("primary", "backup", Scopes(phase)[i])
  /\ Sound
  /\ UNCHANGED <<dropped, since, pc, mode, reached, split>>

ReplicaFails(phase) ==
  /\ Goto(phase, After(phase)) /\ Fault
  /\ i <= Len(Scopes(phase))
  /\ \/ SyncPart("primary", "backup", Scopes(phase)[i])
     \/ UNCHANGED <<data, aside, state>>
  /\ UNCHANGED <<dropped, since, run>>

ReplicaMark(phase) ==
  /\ Goto(phase, After(phase)) /\ Sound
  /\ i > Len(Scopes(phase))
  /\ marker' = [marker EXCEPT !["backup"] = [phase |-> phase, age |-> 0]]
  /\ UNCHANGED <<files, lock, run>>

-----------------------------------------------------------------------------
(* The work of the run, on TL_ACTIVE_REMOTE, and the world.                 *)

WorkNext ==
  /\ pc' = IF mode = "primary" THEN "post" ELSE "idle"
  /\ i' = 1

Work(x) ==
  /\ pc = "work" /\ x \in data[mode]["inbox"]
  /\ data' = [data EXCEPT ![mode] =
       [inbox |-> @["inbox"] \ {x}, curation |-> @["curation"] \cup {x}]]
  /\ since' = [since EXCEPT ![x] = 0]
  /\ WorkNext /\ Sound
  /\ UNCHANGED <<dropped, aside, state, mode, reached, split>>

NoWork ==
  /\ pc = "work" /\ data[mode]["inbox"] = {}
  /\ WorkNext /\ Sound
  /\ UNCHANGED <<files, state, mode, reached, split>>

Drop(x) ==
  /\ x \notin dropped
  /\ dropped' = dropped \cup {x}
  /\ data' = [data EXCEPT !["primary"]["inbox"] = @ \cup {x}]
  /\ UNCHANGED <<aside, since, state, pc, run, faults>>

\* The run is killed, or a call whose failure ends it fails.
Die ==
  /\ pc # "idle" /\ Fault
  /\ pc' = "idle"
  /\ UNCHANGED <<files, state, run>>

Reconcile ==
  \/ ReconcileSkip \/ ReconcileRefused \/ ReconcileBegin
  \/ FailbackSync \/ FailbackSyncFails \/ FailbackValidate
  \/ RefreshMarker \/ CopyMarker \/ PreUnlockValidate
  \/ UnlockPrimary \/ UnlockBackup \/ Reconciled \/ PostUnlockFails \/ Rearm

Selection ==
  PreflightPrimary \/ SelectLocked \/ SelectPrimary \/ SelectRefused \/ FailOver

Replica ==
  \E phase \in {"pre", "post"} :
    ReplicaSync(phase) \/ ReplicaFails(phase) \/ ReplicaMark(phase)

Step ==
  StartRun \/ Reconcile \/ Selection \/ Replica \/ NoWork \/ \E x \in Item : Work(x)

Next == Step \/ Die \/ \E x \in Item : Drop(x)

Spec == Init /\ [][Next]_vars

\* The schedule starts runs for ever and a started run goes on.
FairSpec == Spec /\ WF_vars(Step)

-----------------------------------------------------------------------------
(* Safety.                                                                  *)

Point ==
  {"idle", "reconcile", "failback", "refresh", "refreshed", "precheck",
   "unlock primary", "unlock backup", "postcheck", "rearm", "select", "lock",
   "pre", "work", "post"}

\* Types.
TypeOK ==
  /\ dropped \subseteq Item
  /\ data \in [Store -> [Data -> SUBSET Item]]
  /\ marker \in [Store -> Marker]
  /\ lock \in [Store -> BOOLEAN]
  /\ aside \in [Store -> SUBSET Item]
  /\ pc \in Point
  /\ i \in 1..(Len(PostScopes) + 1)
  /\ mode \in Store
  /\ reached \in BOOLEAN
  /\ since \in [Item -> Age]
  /\ split \in BOOLEAN
  /\ faults \in 0..MaxFaults

\* No file of the owner is lost by replication, failover or failback, however
\* often they fail and even when both stores are worked on: what a copy displaces
\* is set aside (sync_scope of storage_replica.py and storage_reconcile.py).
Kept ==
  \A x \in dropped : \E s \in Store :
    x \in aside[s] \/ \E c \in Data : x \in data[s][c]

\* The store that is authoritative, by the lock on the standby.
Active == IF lock["backup"] THEN "backup" ELSE "primary"
FailsOver == ~lock["backup"] /\ lock'["backup"] /\ pc = "lock"

\* What a run has done on the authoritative store stays done, through the copy
\* back, the two deletions of the lock and its re-arming, for every death in
\* between; only a failover may fall back on an older copy.  Once a run has taken
\* the primary in spite of a lock this is no longer so (storage_reconcile.main).
WorkKept ==
  [][~split' /\ ~FailsOver => data[Active]["curation"] \subseteq data'[Active']["curation"]]_vars

\* The standby that takes over holds all work older than MaxAge, though single
\* scopes of it are from later, incomplete copies and its marker may have come
\* from the primary with the log (replication_is_fresh).
FailoverFresh ==
  [][FailsOver =>
       \A x \in data["primary"]["curation"] :
         since[x] > MaxAge => x \in data["backup"]["curation"]]_vars

\* What storage_failover.py says of itself: while the lock exists, the selector
\* keeps using the backup.
LockRespected ==
  pc \in {"pre", "work", "post"} /\ mode = "primary" => ~lock["backup"]

(* Liveness, under FairSpec.                                                *)

\* A dropped file is worked on, or was displaced from the primary into the
\* quarantine: the fate of a file dropped there while the standby is active.
Processed ==
  \A x \in Item :
    x \in dropped ~> (x \in data[Active]["curation"] \/ x \in aside["primary"] \/ split)
=============================================================================
