-------------------------- MODULE RetentionCleanup ---------------------------
(***************************************************************************)
(* retention_cleanup.py, one record at a time: processed sources go to the    *)
(* quarantine when their retention is over and are deleted after its grace.   *)
(***************************************************************************)
EXTENDS SourceStore

\* Mutant of Expired: the grace of the quarantine is not waited for.
ExpiredUngraced(s) == record[s].retention = "quarantined" \/ day >= record[s].at + Retention

\* The deadline of the record: retention first, the quarantine after it.
Expired(s) ==
  day >= IF record[s].retention = "quarantined" THEN record[s].since + Grace
                                                ELSE record[s].at + Retention

\* Only processed records with a complete package, past their deadline.
Cleanable(s) ==
  /\ record[s].status = "processed"
  /\ package[s] = "complete"
  /\ Expired(s)

\* find_existing_source: the recorded name, then the one with the package id.
Found(s) ==
  LET plain == At(record[s].dest, record[s].name, s)
      alternate == At(record[s].dest, Append(record[s].name, s), s) IN
  CASE \E x \in Source : loc[x] = plain -> {plain}
    [] \E x \in Source : loc[x] = alternate -> {alternate}
    [] OTHER -> {}

\* Nothing is written of a call that fails.
Uncleaned(s) == Begin("uncleaned", s, <<>>)

Quarantine(s) ==
  /\ pc = "idle" /\ Cleanable(s) /\ record[s].retention = "kept"
  /\ \E path \in Found(s) :
       LET target == SafeDestination("trash", path[3], s) IN
       \/ PutAt(path, target) /\ Begin("quarantined", s, target[3]) /\ UNCHANGED faults
       \/ FailedMove(path, target) /\ Uncleaned(s)
  /\ UNCHANGED <<package, packageRecord, record, attempts, run, day>>

Purge(s) ==
  LET path == At("trash", record[s].trash, s) IN
  /\ pc = "idle" /\ Cleanable(s) /\ record[s].retention = "quarantined"
  /\ Exists("trash", record[s].trash, s)
  /\ \/ Delete(path) /\ Begin("purged", s, record[s].trash) /\ UNCHANGED faults
     \/ Fault /\ (UNCHANGED loc \/ (lossy /\ Delete(path))) /\ Uncleaned(s)
  /\ UNCHANGED <<package, packageRecord, record, attempts, run, day>>

MarkCleaned ==
  LET r == [record[subject] EXCEPT
              !.retention = pc, !.trash = item,
              !.since = IF pc = "quarantined" THEN day ELSE @] IN
  /\ pc \in {"quarantined", "purged"}
  /\ Sync(subject, r, TRUE)
  /\ Rest("idle")
  /\ UNCHANGED <<loc, package, attempts, todo, plan, outcome, day>>

LeaveUncleaned ==
  /\ pc = "uncleaned"
  /\ Rest("idle")
  /\ UNCHANGED <<stored, run, day, faults>>

CleanUp ==
  \/ MarkCleaned \/ LeaveUncleaned
  \/ \E s \in Source : Quarantine(s) \/ Purge(s)
=============================================================================
