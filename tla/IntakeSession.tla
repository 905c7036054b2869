---------------------------- MODULE IntakeSession ----------------------------
(***************************************************************************)
(* zero_touch_intake.py, intake_daily_session.py and the workflow that runs *)
(* them: a daily session freezes the versions it finds in DROP_HERE, and a   *)
(* chain of workers copies them into the input queues, a few at a time, each *)
(* worker dispatching at most one successor.                                *)
(*                                                                          *)
(* The concurrency group of the workflows lets one worker run at a time and  *)
(* keeps one pending run, the last one asked for.  Between any two steps of  *)
(* a worker its owner may change the inbox, and the worker may die: a storage*)
(* call that raises IntakeError ends the worker like a kill does, whether    *)
(* the call took effect or not.  Only items that _target accepts are here:   *)
(* with a provider identity, a size, and a name that --fixture-only lets in. *)
(***************************************************************************)
EXTENDS Integers, Sequences, FiniteSets

CONSTANTS
  Item,        \* provider identities of files in the inbox, ordered
  MaxRev,      \* revisions are 1..MaxRev, ordered by modification time
  FirstRevs,   \* the revisions that may be in the inbox at first
  Content,     \* the bytes of each revision, as size and hashes tell them apart
  Size,        \* the size of each revision
  NoCopy,      \* a queue holds no object of a name
  MaxItems,    \* MAX_ITEMS of a worker
  MaxBytes,    \* MAX_BYTES of a worker, and MAX_ITEM_BYTES
  MaxRuns,     \* MAX_SESSION_RUNS of a session
  Misread,     \* documents whose failed stat may look like a missing document
  IngestRuns,  \* the ingest workflow takes copies out of the queues
  MaxEdits,    \* bound on changes of the inbox
  MaxFaults    \* bound on deaths, misreads, displaced runs and manual dispatches

Rev == 1..MaxRev
Removed == 0
NoLease == 0

ASSUME IntakeAssumption ==
  /\ Item \subseteq Nat /\ MaxRev \in Nat /\ FirstRevs \subseteq Rev
  /\ Size \in [Rev -> Nat] /\ \A r \in Rev : Content[r] # NoCopy
  /\ MaxItems \in Nat \ {0} /\ MaxRuns \in Nat \ {0} /\ MaxBytes \in Nat
  /\ MaxEdits \in Nat /\ MaxFaults \in Nat
  /\ IngestRuns \in BOOLEAN

VARIABLES
  inbox,      \* the revision of each item now in DROP_HERE
  queue,      \* the bytes under the queue name of each version
  completed,  \* the receipt of each item: revisions done
  lease,      \* the receipt of each item: revision under an unexpired lease
  baseline,   \* the baseline marker is stored
  session,    \* the private session record; "today" compares its cycle
  aged,       \* the session is past its eight hours
  trigger,    \* the pending run of the concurrency group
  pc, work,   \* the worker: how it was started, what it listed and has done
  faults, edits,
  sent, baselined, dispatched  \* history, for the properties only

store == <<queue, completed, lease, baseline, session>>
history == <<sent, baselined, dispatched>>
vars == <<inbox, store, aged, trigger, pc, work, faults, edits, history>>

Version == Item \X Rev
Present == {v \in Version : inbox[v[1]] = v[2]}
Done(v) == v[2] \in completed[v[1]]
NoWork == [todo |-> {}, count |-> 0, bytes |-> 0, done |-> {}, present |-> {},
           late |-> FALSE, current |-> <<>>, mode |-> "start"]

Init ==
  /\ inbox \in [Item -> FirstRevs \cup {Removed}]
  /\ queue = [v \in Version |-> NoCopy]
  /\ completed = [i \in Item |-> {}]
  /\ lease = [i \in Item |-> NoLease]
  /\ baseline \in BOOLEAN
  /\ session = [status |-> "none", today |-> FALSE, runs |-> 0, targets |-> {}]
  /\ aged = FALSE
  /\ trigger = "none"
  /\ pc = "idle" /\ work = NoWork
  /\ faults = 0 /\ edits = 0
  /\ sent = [v \in Version |-> <<>>]
  /\ baselined = {} /\ dispatched = 0

Fault == faults < MaxFaults /\ faults' = faults + 1

\* A stat of `document` answers that it is missing although it is not.
Misses(document) == document \in Misread /\ Fault

End == pc' = "idle" /\ work' = NoWork

-----------------------------------------------------------------------------
(* The session, before and after the work of a worker.                      *)

Begin ==
  /\ pc = "idle" /\ trigger # "none"
  /\ work' = [work EXCEPT !.mode = trigger] /\ trigger' = "none"
  /\ pc' = "opening"
  /\ UNCHANGED <<inbox, store, aged, faults, edits, history>>

\* Mutant of Deployed: the marker is not asked for.
DeployedUnchecked == TRUE

\* No session before the baseline.
Deployed == baseline

Snapshot == {v \in Present : ~Done(v) /\ Size[v[2]] <= MaxBytes}

StartSession ==
  /\ pc = "opening" /\ work.mode = "start"
  /\ \/ /\ Deployed
        /\ \/ ~session.today /\ UNCHANGED faults
           \/ session.today /\ Misses("session")
        /\ session' = [status |-> "open", today |-> TRUE, runs |-> 0, targets |-> Snapshot]
        /\ aged' = FALSE
        /\ pc' = "counting" /\ UNCHANGED work
     \/ /\ ~Deployed \/ session.today
        /\ End /\ UNCHANGED <<session, aged, faults>>
  /\ UNCHANGED <<inbox, queue, completed, lease, baseline, trigger, edits,
                 sent, baselined, dispatched>>

ContinueSession ==
  /\ pc = "opening" /\ work.mode = "continue"
  /\ IF Deployed /\ session.status = "open"
     THEN pc' = "counting" /\ UNCHANGED work
     ELSE End
  /\ UNCHANGED <<inbox, store, aged, trigger, faults, edits, history>>

\* The run is counted, durably, before the worker touches an item.
CountRun ==
  /\ pc = "counting"
  /\ IF session.runs >= MaxRuns \/ aged \/ session.targets = {}
     THEN /\ session' = [session EXCEPT !.status = "closed"]
          /\ End
     ELSE /\ session' = [session EXCEPT !.runs = @ + 1]
          /\ pc' = "listing" /\ UNCHANGED work
  /\ UNCHANGED <<inbox, queue, completed, lease, baseline, aged, trigger, faults,
                 edits, sent, baselined, dispatched>>

StartBaseline ==
  /\ pc = "opening" /\ work.mode = "baseline"
  /\ IF baseline THEN End ELSE pc' = "listing" /\ UNCHANGED work
  /\ UNCHANGED <<inbox, store, aged, trigger, faults, edits, history>>

Remaining == (session.targets \ work.done) \cap work.present
AtCeiling == session.runs >= MaxRuns \/ aged

\* Mutant of StaysOpen: a worker that could do nothing is followed by another.
StaysOpenStalled == Remaining # {} /\ ~AtCeiling

\* A worker that enqueued nothing closes the session.
StaysOpen == Remaining # {} /\ ~AtCeiling /\ work.count > 0

FinishSession ==
  /\ pc = "scanning" /\ work.todo = {} /\ work.mode # "baseline"
  /\ session' = [session EXCEPT !.targets = Remaining,
                                !.status = IF StaysOpen THEN "open" ELSE "closed"]
  /\ IF StaysOpen THEN pc' = "dispatching" /\ UNCHANGED work ELSE End
  /\ UNCHANGED <<inbox, queue, completed, lease, baseline, aged, trigger, faults,
                 edits, history>>

\* The job dispatch_next of the workflow.
Dispatch ==
  /\ pc = "dispatching"
  /\ trigger' = "continue"
  /\ dispatched' = dispatched + 1
  /\ End
  /\ UNCHANGED <<inbox, store, aged, faults, edits, sent, baselined>>

\* A baseline that ran out of time is incomplete and leaves no marker.
FinishBaseline ==
  /\ pc = "scanning" /\ work.todo = {} /\ work.mode = "baseline"
  /\ baseline' = ~work.late
  /\ End
  /\ UNCHANGED <<inbox, queue, completed, lease, session, aged, trigger, faults,
                 edits, history>>

-----------------------------------------------------------------------------
(* One worker: process().                                                   *)

ListInbox ==
  /\ pc = "listing"
  /\ work' = [work EXCEPT !.todo = Present, !.present = Present]
  /\ pc' = "scanning"
  /\ UNCHANGED <<inbox, store, aged, trigger, faults, edits, history>>

\* Items are taken oldest first.
Older(v, w) == v[2] < w[2] \/ (v[2] = w[2] /\ v[1] <= w[1])
Oldest(todo) == CHOOSE v \in todo : \A w \in todo : Older(v, w)
Upcoming == Oldest(work.todo)
Scanning == pc = "scanning" /\ work.todo # {}

Eligible(v) == work.mode = "baseline" \/ v \in session.targets
Leased(v) == lease[v[1]] = v[2]

\* Mutants of Deferred: a file as large as the limit waits for ever, and one item
\* too many is taken.
DeferredAtLimit(v) == work.bytes + Size[v[2]] >= MaxBytes \/ work.count >= MaxItems
Deferred(v) == work.bytes + Size[v[2]] > MaxBytes \/ work.count >= MaxItems

\* An item that is not eligible, done, leased or over a limit is passed over.
PassOver ==
  LET v == Upcoming IN
  /\ Scanning
  /\ ~Eligible(v) \/ Done(v) \/ (work.mode # "baseline" /\ (Leased(v) \/ Deferred(v)))
  /\ work' = [work EXCEPT !.todo = @ \ {v},
                          !.done = IF Eligible(v) /\ Done(v) THEN @ \cup {v} ELSE @]
  /\ UNCHANGED <<inbox, store, aged, trigger, pc, faults, edits, history>>

OutOfTime ==
  /\ Scanning
  /\ Fault
  /\ work' = [work EXCEPT !.todo = {}, !.late = TRUE]
  /\ UNCHANGED <<inbox, store, aged, trigger, pc, edits, history>>

RecordBaseline ==
  LET v == Upcoming IN
  /\ Scanning /\ work.mode = "baseline" /\ ~Done(v)
  /\ completed' = [completed EXCEPT ![v[1]] = @ \cup {v[2]}]
  /\ lease' = [lease EXCEPT ![v[1]] = NoLease]
  /\ work' = [work EXCEPT !.todo = @ \ {v}]
  /\ baselined' = baselined \cup {v}
  /\ UNCHANGED <<inbox, queue, baseline, session, aged, trigger, pc, faults, edits,
                 sent, dispatched>>

\* read_state answers an empty receipt when the stat of the receipt fails and
\* the listing of its directory does not; the lease is then written with it.
TakeLease ==
  LET v == Upcoming IN
  /\ Scanning /\ work.mode # "baseline" /\ Eligible(v) /\ ~Deferred(v)
  /\ \/ ~Done(v) /\ ~Leased(v) /\ UNCHANGED <<completed, faults>>
     \/ Misses("receipt") /\ completed' = [completed EXCEPT ![v[1]] = {}]
  /\ lease' = [lease EXCEPT ![v[1]] = v[2]]
  /\ work' = [work EXCEPT !.current = v]
  /\ pc' = "leased"
  /\ UNCHANGED <<inbox, queue, baseline, session, aged, trigger, edits, history>>

Current == work.current
Unchanged == inbox[Current[1]] = Current[2]

CheckSource ==
  /\ pc = "leased"
  /\ IF Unchanged THEN pc' = "checked" /\ UNCHANGED work ELSE End
  /\ UNCHANGED <<inbox, store, aged, trigger, faults, edits, history>>

\* Copies what the inbox holds by now, unless the destination exists already.
Enqueue ==
  LET i == Current[1] IN
  /\ pc = "checked"
  /\ \/ queue[Current] # NoCopy /\ pc' = "copied" /\ UNCHANGED <<queue, sent, work>>
     \/ /\ queue[Current] = NoCopy /\ inbox[i] # Removed
        /\ queue' = [queue EXCEPT ![Current] = Content[inbox[i]]]
        /\ sent' = [sent EXCEPT ![Current] = Append(@, Content[inbox[i]])]
        /\ pc' = "copied" /\ UNCHANGED work
     \/ queue[Current] = NoCopy /\ inbox[i] = Removed /\ End /\ UNCHANGED <<queue, sent>>
  /\ UNCHANGED <<inbox, completed, lease, baseline, session, aged, trigger, faults,
                 edits, baselined, dispatched>>

\* Mutant of Verify: the copy is taken for granted.
VerifySkipped ==
  /\ pc = "copied"
  /\ pc' = "verified"
  /\ UNCHANGED <<inbox, store, aged, trigger, work, faults, edits, history>>

\* The copy must match the listing and the source must still be the one listed.
Verify ==
  /\ pc = "copied"
  /\ IF queue[Current] = Content[Current[2]] /\ Unchanged
     THEN pc' = "verified" /\ UNCHANGED work
     ELSE End
  /\ UNCHANGED <<inbox, store, aged, trigger, faults, edits, history>>

Complete ==
  LET v == Current IN
  /\ pc = "verified"
  /\ completed' = [completed EXCEPT ![v[1]] = @ \cup {v[2]}]
  /\ lease' = [lease EXCEPT ![v[1]] = NoLease]
  /\ work' = [work EXCEPT !.todo = @ \ {v}, !.done = @ \cup {v}, !.count = @ + 1,
                          !.bytes = @ + Size[v[2]], !.current = <<>>]
  /\ pc' = "scanning"
  /\ UNCHANGED <<inbox, queue, baseline, session, aged, trigger, faults, edits, history>>

-----------------------------------------------------------------------------
(* Everything around the worker.                                            *)

\* An IntakeError, a runner that dies, the job timeout: no successor.
Die ==
  /\ pc # "idle"
  /\ Fault
  /\ End
  /\ UNCHANGED <<inbox, store, aged, trigger, edits, history>>

\* The schedule starts sessions, and somebody asks for the baseline until it is
\* there; anything else that is asked for by hand is unexpected.
Request(kind) ==
  /\ trigger # kind
  /\ IF kind = "start" \/ (kind = "baseline" /\ ~baseline)
     THEN UNCHANGED faults
     ELSE Fault
  /\ trigger' = kind
  /\ UNCHANGED <<inbox, store, aged, pc, work, edits, history>>

\* Another workflow of the group takes the pending place.
Displace ==
  /\ trigger # "none"
  /\ Fault
  /\ trigger' = "none"
  /\ UNCHANGED <<inbox, store, aged, pc, work, edits, history>>

\* A worker reads the clock when it begins and once more when it ends, so that the
\* hours that pass meanwhile are the same as hours that pass afterwards.
NewDay ==
  /\ pc = "idle" /\ session.today
  /\ session' = [session EXCEPT !.today = FALSE]
  /\ UNCHANGED <<inbox, queue, completed, lease, baseline, aged, trigger, pc, work,
                 faults, edits, history>>

Age ==
  /\ session.status = "open" /\ ~aged
  /\ pc = "idle" \/ (pc = "scanning" /\ work.todo = {})
  /\ aged' = TRUE
  /\ UNCHANGED <<inbox, store, trigger, pc, work, faults, edits, history>>

Expire(i) ==
  /\ pc = "idle" /\ lease[i] # NoLease
  /\ lease' = [lease EXCEPT ![i] = NoLease]
  /\ UNCHANGED <<inbox, queue, completed, baseline, session, aged, trigger, pc, work,
                 faults, edits, history>>

\* The ingest workflow, in the same group, moves a copy out of its queue.
Ingest(v) ==
  /\ IngestRuns
  /\ pc = "idle" /\ queue[v] # NoCopy
  /\ queue' = [queue EXCEPT ![v] = NoCopy]
  /\ UNCHANGED <<inbox, completed, lease, baseline, session, aged, trigger, pc, work,
                 faults, edits, history>>

\* The owner of the inbox uploads, revises, restores or removes a file.
Edit(i, r) ==
  /\ edits < MaxEdits
  /\ inbox[i] # r
  /\ inbox' = [inbox EXCEPT ![i] = r]
  /\ edits' = edits + 1
  /\ UNCHANGED <<store, aged, trigger, pc, work, faults, history>>

Worker ==
  \/ Begin \/ StartSession \/ ContinueSession \/ StartBaseline \/ CountRun
  \/ ListInbox \/ PassOver \/ RecordBaseline \/ TakeLease
  \/ CheckSource \/ Enqueue \/ Verify \/ Complete
  \/ FinishSession \/ FinishBaseline \/ Dispatch

Next ==
  \/ Worker
  \/ OutOfTime \/ Die \/ Displace \/ NewDay \/ Age
  \/ \E kind \in {"start", "continue", "baseline"} : Request(kind)
  \/ \E i \in Item : Expire(i)
  \/ \E v \in Version : Ingest(v)
  \/ \E i \in Item, r \in Rev \cup {Removed} : Edit(i, r)

Spec == Init /\ [][Next]_vars

\* A runner goes on until it dies, the schedule fires, days and leases pass, and
\* the ingest workflow empties its queues.
FairSpec ==
  /\ Spec
  /\ WF_vars(Worker) /\ WF_vars(Request("start")) /\ SF_vars(NewDay)
  /\ SF_vars(\E i \in Item : Expire(i))
  /\ SF_vars(\E v \in Version : Ingest(v))

-----------------------------------------------------------------------------
(* Properties.                                                              *)

TypeOK ==
  /\ inbox \in [Item -> Rev \cup {Removed}]
  /\ \A v \in Version : queue[v] \in {Content[r] : r \in Rev} \cup {NoCopy}
  /\ completed \in [Item -> SUBSET Rev]
  /\ lease \in [Item -> Rev \cup {NoLease}]
  /\ baseline \in BOOLEAN /\ aged \in BOOLEAN
  /\ session \in [status : {"none", "open", "closed"}, today : BOOLEAN,
                  runs : 0..MaxRuns, targets : SUBSET Version]
  /\ trigger \in {"none", "start", "continue", "baseline"}
  /\ pc \in {"idle", "opening", "counting", "listing", "scanning", "leased", "checked",
             "copied", "verified", "dispatching"}
  /\ work.mode \in {"start", "continue", "baseline"}
  /\ work.todo \subseteq work.present /\ work.count <= MaxItems /\ work.bytes <= MaxBytes
  /\ faults \in 0..MaxFaults /\ edits \in 0..MaxEdits

\* A revision whose receipt says completed was delivered to its queue with the
\* bytes of that revision, or belongs to the baseline.
CompletedDelivered ==
  \A v \in Version :
    Done(v) => \/ v \in baselined
               \/ sent[v] # <<>> /\ sent[v][Len(sent[v])] = Content[v[2]]

\* The backlog the baseline recorded is never copied into a queue, also when the
\* baseline was interrupted and run again.
BaselineNeverQueued == \A v \in baselined : sent[v] = <<>>

\* A receipt never loses a revision.
ReceiptsKept == [][\A i \in Item : completed[i] \subseteq completed'[i]]_vars

\* Every successor that is dispatched is paid for by a version completed: a
\* stall does not make a dispatch loop.
NoDispatchLoop ==
  dispatched <= Cardinality({v \in Version : Done(v) /\ v \notin baselined})

\* A revision that stays in the inbox is completed in the end.
Drained ==
  baseline => \A v \in Version : Size[v[2]] <= MaxBytes =>
    []<>(Done(v) \/ inbox[v[1]] # v[2])
=============================================================================
