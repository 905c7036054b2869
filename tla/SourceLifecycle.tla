--------------------------- MODULE SourceLifecycle ---------------------------
(***************************************************************************)
(* What happens to a source file from its arrival to its purge.  The ingest   *)
(* workflow first runs reconcile_queues.py over the process records, and only  *)
(* if that reports no error the bridges over their queues; retention_cleanup.py*)
(* is started separately.  All of them run in one concurrency group, so one    *)
(* handler works at a time, but each of its remote calls may fail and the      *)
(* runner may die between any two.                                             *)
(***************************************************************************)
EXTENDS QueueReconciliation, LaneBridges, RetentionCleanup

Tick ==
  /\ pc = "idle" /\ day < MaxDay
  /\ day' = day + 1
  /\ UNCHANGED <<stored, pc, subject, item, run, faults>>

\* The runner dies or is cancelled, or the job runs into its time limit.
Die ==
  /\ pc # "idle"
  /\ Fault
  /\ Stop
  /\ UNCHANGED <<stored, errors, day>>

Next ==
  /\ \/ Reconcile \/ Ingest \/ CleanUp
     \/ \E s \in Source : Arrive(s)
     \/ Tick \/ Die
  /\ UNCHANGED given

Spec == Init /\ [][Next]_vars

\* The workflow is started again and again and its handlers go on.
FairSpec ==
  /\ Spec
  /\ WF_vars((Reconcile \/ Ingest) /\ UNCHANGED given)
  /\ WF_vars((MarkCleaned \/ LeaveUncleaned) /\ UNCHANGED given)

-----------------------------------------------------------------------------
(* Properties.                                                              *)

Folder == {"inbox", "processed", "error", "trash"}
Step ==
  {"idle", "reconcile", "exhausted", "finalized", "settled", "unmoved", "requeued",
   "unqueued", "route", "planned", "batch", "bridge", "reuse", "restore", "fetch",
   "extract", "unprocessed", "unextracted", "in_error", "not_in_error", "upload",
   "move", "log", "left", "quarantined", "purged", "uncleaned"}

TypeOK ==
  /\ \A s \in Source :
       /\ loc[s][1] \in Folder \cup {"outside", "overwritten", "purged"}
       /\ package[s] \in {"none", "partial", "complete"}
       /\ \A r \in {record[s], packageRecord[s]} :
            r = NoRecord \/ r.status \in {"processed", "error", "retry_queued"}
       /\ attempts[s] \in 0..MaxRetries
  /\ pc \in Step
  /\ subject \in Source \cup {NoSource}
  /\ todo \subseteq Source /\ errors \in BOOLEAN
  /\ day \in 0..MaxDay /\ faults \in 0..MaxFaults
  /\ plan \subseteq Lane
  /\ outcome \in [Source -> {"none", "lost", "bad", "ok"}]
  /\ kind \in Kinds /\ lossy \in BOOLEAN

\* A source leaves its queue for good only when its package is complete.
MovedIsPackaged ==
  \A s \in Source : loc[s][1] \in {"processed", "trash", "purged"} => package[s] = "complete"

\* A source is deleted only by a purge, after its own record has been through
\* the retention and the quarantine.
PurgedInTime ==
  \A s \in Source :
    /\ loc[s] # Overwritten
    /\ loc[s] = Purged =>
         record[s].status = "processed" /\ day >= record[s].at + Retention + Grace

\* Every source its bridge can take leaves its queue again and again: neither an
\* item that fails, in its own lane or in one that runs before, nor a file no
\* bridge takes keeps it waiting for ever.
QueuesDrain ==
  ~lossy => \A s \in Source : kind[s].class # "unsupported" => []<>~In("inbox", s)

\* docs/ARCHITECTURE.md:329 of a malformed shortcut: it goes to the error folder
\* with a record that says it is not to be retried.
MalformedRejected ==
  \A s \in Source :
    kind[s].lane = "links" /\ kind[s].class \in {"rejected", "fatal"} =>
      (In("inbox", s) ~> In("error", s) /\ record[s] # NoRecord /\ ~record[s].retryable)

\* Once all sources are there, no record is a retryable failure any more, if a
\* failed move has no effect.
RetriesEnd == ~lossy => <>[](\A s \in Source : ~Retryable(s))
=============================================================================
