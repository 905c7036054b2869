------------------------- MODULE QueueReconciliation -------------------------
(***************************************************************************)
(* reconcile_queues.py and reconcile.py: the workflow goes through the        *)
(* process records before any bridge runs.  It finishes the moves that        *)
(* failed, puts retryable failures back into their queues and sets those      *)
(* aside that have used up their retries.                                     *)
(***************************************************************************)
EXTENDS SourceStore

\* The workflow starts: central records that are missing are restored.
StartRun ==
  /\ pc = "idle"
  /\ LET missing == {s \in Source : record[s] = NoRecord /\ packageRecord[s] # NoRecord} IN
     \E lost \in SUBSET missing :
       /\ IF lost = {} THEN UNCHANGED faults ELSE Fault
       /\ errors' = (lost # {})
       /\ record' = [s \in Source |->
                       IF s \in missing \ lost THEN packageRecord[s] ELSE record[s]]
       /\ todo' = {s \in Source : record'[s] # NoRecord}
  /\ Goto("reconcile")
  /\ UNCHANGED <<loc, package, packageRecord, attempts, day>>

Reconciling(s) == pc = "reconcile" /\ s \in todo
Retryable(s) == record[s].status = "error" /\ record[s].retryable
ToFinalize(s) == record[s].code = "move" /\ package[s] = "complete"

\* Processed, queued and non-retryable records need no work.
SkipRecord(s) ==
  /\ Reconciling(s) /\ ~Retryable(s)
  /\ ~(record[s].status = "processed" /\ attempts[s] > 0)
  /\ todo' = todo \ {s}
  /\ UNCHANGED <<stored, pc, subject, item, errors, day, faults>>

ClearRetry(s) ==
  /\ Reconciling(s) /\ record[s].status = "processed" /\ attempts[s] > 0
  /\ \/ attempts' = [attempts EXCEPT ![s] = 0] /\ UNCHANGED faults
     \/ Fault /\ UNCHANGED attempts
  /\ todo' = todo \ {s}
  /\ UNCHANGED <<loc, package, packageRecord, record, pc, subject, item, errors, day>>

Exhausted(s) == attempts[s] >= MaxRetries

\* exhaust_record ignores whether its move succeeds.
Exhaust(s) ==
  /\ Reconciling(s) /\ Retryable(s) /\ Exhausted(s)
  /\ Begin("exhausted", s, record[s].name)
  /\ IF record[s].dest # "error" /\ Exists(record[s].dest, record[s].name, s)
     THEN LET from == At(record[s].dest, record[s].name, s)
              to == SafeDestination("error", record[s].name, s) IN
          \/ PutAt(from, to) /\ UNCHANGED faults
          \/ FailedMove(from, to)
     ELSE UNCHANGED <<loc, faults>>
  /\ UNCHANGED <<package, packageRecord, record, attempts, run, day>>

\* An incomplete package may still meet the weaker contract of reconcile.py.
MarkExhausted ==
  /\ pc = "exhausted"
  /\ \E both \in (CASE package[subject] = "complete" -> {TRUE}
                   [] package[subject] = "partial" -> BOOLEAN
                   [] OTHER -> {FALSE}) :
       Sync(subject, [record[subject] EXCEPT !.retryable = FALSE, !.dest = "error"], both)
  /\ Finish("reconcile")
  /\ UNCHANGED <<loc, package, attempts, day>>

\* source_move_failed with a complete package: only the move is repeated.
FinishMove(s) ==
  LET from == At("inbox", record[s].name, s)
      to == SafeDestination("processed", record[s].name, s) IN
  /\ Reconciling(s) /\ Retryable(s) /\ ~Exhausted(s) /\ ToFinalize(s)
  /\ subject' = s /\ item' = record[s].name
  /\ IF Exists("inbox", record[s].name, s)
     THEN \/ PutAt(from, to) /\ UNCHANGED faults /\ pc' = "finalized"
          \/ FailedMove(from, to) /\ pc' = "unmoved"
     ELSE UNCHANGED <<loc, faults>> /\ pc' = "unmoved"
  /\ UNCHANGED <<package, packageRecord, record, attempts, run, day>>

MarkFinalized ==
  LET r == [record[subject] EXCEPT !.status = "processed", !.code = "none",
                                   !.retryable = FALSE, !.dest = "processed"] IN
  /\ pc = "finalized"
  /\ \/ Sync(subject, r, TRUE) /\ UNCHANGED faults /\ Goto("settled") /\ UNCHANGED todo
     \/ Sync(subject, r, TRUE) /\ faults' # faults /\ Finish("reconcile")
  /\ UNCHANGED <<loc, package, attempts, day>>

DropRetry ==
  /\ pc = "settled"
  /\ \/ attempts' = [attempts EXCEPT ![subject] = 0] /\ UNCHANGED faults
     \/ Fault /\ UNCHANGED attempts
  /\ Finish("reconcile")
  /\ UNCHANGED <<loc, package, packageRecord, record, errors, day>>

\* The attempt is counted and the error record is written over both records.
MarkUnmoved ==
  /\ pc = "unmoved"
  /\ \/ /\ attempts' = [attempts EXCEPT ![subject] = @ + 1]
        /\ Sync(subject, record[subject], TRUE)
     \/ /\ Fault
        /\ packageRecord' = [packageRecord EXCEPT ![subject] = record[subject]]
        /\ UNCHANGED <<attempts, record, errors>>
  /\ Finish("reconcile")
  /\ UNCHANGED <<loc, package, day>>

Requeued(s) == Retryable(s) /\ ~Exhausted(s) /\ ~ToFinalize(s)

Elsewhere(s) == record[s].dest # "inbox" /\ Exists(record[s].dest, record[s].name, s)

\* A source in another folder goes back to its queue under the recorded name.
MoveBack(s) ==
  /\ Reconciling(s) /\ Requeued(s) /\ Elsewhere(s)
  /\ subject' = s /\ item' = record[s].name
  /\ LET from == At(record[s].dest, record[s].name, s)
         to == SafeDestination("inbox", record[s].name, s) IN
     \/ PutAt(from, to) /\ UNCHANGED faults /\ pc' = "requeued"
     \/ FailedMove(from, to) /\ pc' = "unqueued"
  /\ UNCHANGED <<package, packageRecord, record, attempts, run, day>>

\* The attempt is counted, as far as its write succeeds.
MarkUnqueued ==
  /\ pc = "unqueued"
  /\ \/ /\ attempts' = [attempts EXCEPT ![subject] = @ + 1]
        /\ Sync(subject, record[subject], FALSE)
     \/ Fault /\ UNCHANGED <<attempts, record, packageRecord, errors>>
  /\ Finish("reconcile")
  /\ UNCHANGED <<loc, package, day>>

\* A source already in its queue; if it is not there either, the run has failed
\* and nothing is written.
FindInQueue(s) ==
  /\ Reconciling(s) /\ Requeued(s) /\ ~Elsewhere(s)
  /\ IF Exists("inbox", record[s].name, s)
     THEN Begin("requeued", s, record[s].name) /\ UNCHANGED run
     ELSE errors' = TRUE /\ todo' = todo \ {s} /\ UNCHANGED <<pc, subject, item>>
  /\ UNCHANGED <<stored, day, faults>>

\* Mutant of MarkQueued: the attempt is not counted.
MarkQueuedUncounted ==
  /\ pc = "requeued"
  /\ Sync(subject, [record[subject] EXCEPT !.status = "retry_queued", !.dest = "inbox"], FALSE)
  /\ Finish("reconcile")
  /\ UNCHANGED <<loc, package, attempts, day>>

MarkQueued ==
  /\ pc = "requeued"
  /\ \/ /\ attempts' = [attempts EXCEPT ![subject] = @ + 1]
        /\ Sync(subject, [record[subject] EXCEPT !.status = "retry_queued", !.dest = "inbox"],
                FALSE)
     \/ Fault /\ errors' = TRUE /\ UNCHANGED <<attempts, record, packageRecord>>
  /\ Finish("reconcile")
  /\ UNCHANGED <<loc, package, day>>

\* An error of the reconciliation ends the workflow before any bridge.
EndReconcile ==
  /\ pc = "reconcile" /\ todo = {}
  /\ Goto(IF errors THEN "idle" ELSE "route")
  /\ UNCHANGED <<stored, run, day, faults>>

Reconcile ==
  /\ \/ StartRun \/ MarkExhausted \/ MarkFinalized \/ DropRetry \/ MarkUnmoved
     \/ MarkUnqueued \/ MarkQueued \/ EndReconcile
     \/ \E s \in Source :
          \/ SkipRecord(s) \/ ClearRetry(s) \/ Exhaust(s) \/ FinishMove(s)
          \/ MoveBack(s) \/ FindInQueue(s)
  /\ UNCHANGED <<plan, outcome>>
=============================================================================
