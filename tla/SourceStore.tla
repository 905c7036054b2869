----------------------------- MODULE SourceStore -----------------------------
(***************************************************************************)
(* The remote storage of the ingest and the run that works on it: where each *)
(* source is, its package and records, and the remote calls that change      *)
(* them.  QueueReconciliation, LaneBridges and RetentionCleanup are the       *)
(* programs that make those calls; SourceLifecycle composes them.             *)
(***************************************************************************)
EXTENDS Naturals, Sequences

CONSTANTS
  NoSource,    \* no handler runs
  Source,      \* source files, by provider identity: also their package ids
  Name,        \* the name each source arrives with
  Age,         \* the order of the sources' modification times, which moves keep
  Kinds,       \* what the sources may be: a lane and a class for each
  MaxBatch,    \* MAX_BATCH of workload_plan.py, by lane
  MaxRetries,  \* --max-retries of reconcile_queues.py
  Retention,   \* retention_days of a record
  Grace,       \* --quarantine-days
  LostAcks,    \* whether a move reported as failed may have taken effect: the choices
  MaxDay,      \* bound on the days that pass
  MaxFaults    \* bound on failed calls and deaths

\* The bridges, in the order in which drive-ingest.yml runs them.  Text and
\* documents share one bridge and are one lane here.
Lanes == <<"links", "images", "audio", "videos", "content", "spreadsheets">>
Lane == {Lanes[n] : n \in 1..Len(Lanes)}

\* What comes of an extraction: it succeeds, it fails every time, a shortcut is
\* rejected for good, an exception nobody catches ends the process it runs in, or
\* the bridge of the lane does not take the format.
Class == {"good", "broken", "rejected", "fatal", "unsupported"}

ASSUME LifecycleAssumption ==
  /\ NoSource \notin Source
  /\ Age \in [Source -> Nat]
  /\ Kinds \subseteq [Source -> [lane : Lane, class : Class]]
  /\ MaxBatch \in [Lane -> Nat \ {0}]
  /\ MaxRetries \in 1..10 /\ Retention \in Nat \ {0} /\ Grace \in Nat \ {0}
  /\ LostAcks \subseteq BOOLEAN
  /\ MaxDay \in Nat /\ MaxFaults \in Nat

VARIABLES
  loc,          \* the folder, its lane and the name of each source, or how it went
  package,      \* its package in READY_FOR_ANALYSIS: none, partial, complete
  packageRecord,\* process-record.json of the package
  record,       \* the central record in PROCESS_LOG
  attempts,     \* the retry state file
  pc,           \* the step of the handler that runs
  subject, item,\* the source or record it is at, and the file name it works with
  todo, errors, \* what the run has before it, and whether it saw an error
  plan,         \* the bridges the run has still to start
  outcome,      \* what the batch of the videos made of each of its items
  day, faults,
  kind,         \* what each source is
  lossy         \* whether failed moves may have taken effect

stored == <<loc, package, packageRecord, record, attempts>>
run == <<todo, errors, plan, outcome>>
given == <<kind, lossy>>
vars == <<stored, pc, subject, item, run, day, faults, given>>

Outside == <<"outside", "shared", <<>>>>
Overwritten == <<"overwritten", "shared", <<>>>>
Purged == <<"purged", "shared", <<>>>>
NoRecord == [status |-> "none"]
NoOutcome == [s \in Source |-> "none"]

Record(status, code, retryable, name, dest) ==
  [status |-> status, code |-> code, retryable |-> retryable, name |-> name,
   dest |-> dest, at |-> day, retention |-> "kept", since |-> 0, trash |-> <<>>]

Failure(code, name, dest) == Record("error", code, TRUE, name, dest)

Init ==
  /\ loc = [s \in Source |-> Outside]
  /\ package = [s \in Source |-> "none"]
  /\ packageRecord = [s \in Source |-> NoRecord]
  /\ record = [s \in Source |-> NoRecord]
  /\ attempts = [s \in Source |-> 0]
  /\ pc = "idle" /\ subject = NoSource /\ item = <<>>
  /\ todo = {} /\ errors = FALSE /\ plan = {} /\ outcome = NoOutcome
  /\ day = 0 /\ faults = 0
  /\ kind \in Kinds /\ lossy \in LostAcks

-----------------------------------------------------------------------------
(* The handler that runs.                                                   *)

Fault == faults < MaxFaults /\ faults' = faults + 1

Goto(to) == pc' = to /\ UNCHANGED <<subject, item>>
Begin(to, s, name) == pc' = to /\ subject' = s /\ item' = name
Rest(to) == Begin(to, NoSource, <<>>)
Finish(to) == Rest(to) /\ todo' = todo \ {subject}

\* The runner stops where it is.
Stop == Rest("idle") /\ todo' = {} /\ plan' = {} /\ outcome' = NoOutcome

-----------------------------------------------------------------------------
(* Remote calls.                                                            *)

\* Every lane has folders of its own, except for the quarantine.
At(folder, name, s) ==
  <<folder, IF folder = "trash" THEN "shared" ELSE kind[s].lane, name>>

In(folder, s) == loc[s][1] = folder
Exists(folder, name, s) == \E x \in Source : loc[x] = At(folder, name, s)

\* A name that is taken gets the package id.
SafeDestination(folder, name, s) ==
  IF Exists(folder, name, s) THEN At(folder, Append(name, s), s) ELSE At(folder, name, s)

\* moveto replaces whatever is at its destination.
PutAt(path, target) ==
  loc' = [s \in Source |-> CASE loc[s] = path -> target
                             [] loc[s] = target /\ path # target -> Overwritten
                             [] OTHER -> loc[s]]

Delete(path) == loc' = [s \in Source |-> IF loc[s] = path THEN Purged ELSE loc[s]]

\* A move that fails leaves the file where it was, or was done nevertheless.
FailedMove(path, target) == Fault /\ (UNCHANGED loc \/ (lossy /\ PutAt(path, target)))

\* Writes the central record, then the record of the package when `both`; the
\* first write that fails ends it.
Sync(s, r, both) ==
  \/ /\ record' = [record EXCEPT ![s] = r]
     /\ packageRecord' = IF both THEN [packageRecord EXCEPT ![s] = r] ELSE packageRecord
     /\ UNCHANGED <<errors, faults>>
  \/ /\ Fault
     /\ errors' = TRUE
     /\ \/ UNCHANGED record
        \/ both /\ record' = [record EXCEPT ![s] = r]
     /\ UNCHANGED packageRecord
=============================================================================
