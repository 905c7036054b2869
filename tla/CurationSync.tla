------------------------------ MODULE CurationSync ------------------------------
(***************************************************************************)
(* Curation of the packages in READY_FOR_ANALYSIS.  The end of an ingest    *)
(* run refreshes the READY index and the handoff; a decision run publishes  *)
(* the curator's records, rebuilds the routing indexes and closes what was  *)
(* decided.  The concurrency group of the workflows runs one of the two at  *)
(* a time; the curator writes decisions and records whenever he likes.      *)
(*                                                                          *)
(* Covered: calls that fail, writes whose answer is lost, runs that die.    *)
(* Not covered: other writers of 00_LIBRARY, malformed files.               *)
(***************************************************************************)
EXTENDS Naturals, Sequences, FiniteSets

CONSTANTS
  Ids,         \* the package ids, the highest first
  Target,      \* the library path of each package's record
  MaxRev,      \* bound on the revisions of a package
  Window,      \* --max-packages of the READY index
  MaxHandoff,  \* --max-handoff
  MaxState,    \* MAX_STATE_ITEMS
  MaxActs,     \* bound on the acts of the curator
  MaxFaults    \* bound on calls that fail and runs that die

Elements(s) == {s[k] : k \in DOMAIN s}
Package == Elements(Ids)

ASSUME CurationAssumption ==
  /\ Ids \in Seq(Package)
  /\ DOMAIN Target = Package
  /\ "nobody" \notin Package
  /\ {MaxRev, Window, MaxHandoff, MaxState, MaxActs, MaxFaults} \subseteq Nat

\* FINAL_REVISION_STATES, TERMINAL_STATES
Final == {"analyzed", "rejected"}
Terminal == {"do_not_reprocess"}
Verdict == Final \cup Terminal

Rev == 1..MaxRev
Item == [id : Package, rev : Rev]        \* a package at a revision
Nothing == [state |-> "none", rev |-> 0]
Path == {Target[p] : p \in Package}
Free == [id |-> "nobody", rev |-> 0]

VARIABLES
  evidence,   \* revision of each package in READY, 0 when it is not there
  newest,     \* pairs of packages in READY, the last modified of the two first
  index,      \* READY_INDEX: items, each with its place in the order of `newest`
  state,      \* STATE: state and revision of each package
  updated,    \* pairs of packages in STATE, the last updated of the two first
  offer,      \* handoff as curation_handoff.py has it in memory
  handoff,    \* HANDOFF: the items offered to the curator
  decisions,  \* DECISIONS: revision and verdict of each decided package
  outbox,     \* PUBLISH_READY: manifest and records of the curator
  library,    \* the record at each path of 00_LIBRARY
  routes,     \* the records named by the domain indexes and by MASTER_INDEX
  receipt,    \* PUBLISH_STATE
  pc,         \* the program that runs, or "idle"
  flow,       \* whether the run ingests or decides
  batch,      \* decisions as the run fetched them
  items,      \* manifest as library_publish.py read it
  done,       \* items it has handled
  misread,    \* files a failed read of which was taken for their absence
  acts,       \* acts of the curator so far
  faults      \* faults so far

ready == <<evidence, newest>>
curation == <<state, updated>>
curator == <<decisions, outbox, acts>>
shelf == <<library, routes, receipt>>
publish == <<items, done>>
vars == <<ready, index, curation, offer, handoff, curator, shelf, pc, flow, batch,
          publish, misread, faults>>

None == [p \in Package |-> Nothing]

Init ==
  /\ evidence = [p \in Package |-> 0]
  /\ newest = {} /\ index = {}
  /\ state = None /\ updated = {}
  /\ offer = {} /\ handoff = {}
  /\ decisions = None /\ outbox = {} /\ acts = 0
  /\ library = [t \in Path |-> Free]
  /\ routes = [file \in {"domain", "master"} |-> {}]
  /\ receipt = {}
  /\ pc = "idle" /\ flow = "ingest"
  /\ batch = None /\ items = {} /\ done = {}
  /\ misread = {} /\ faults = 0

Goto(from, to) == pc = from /\ pc' = to
Sound == faults' = faults
Fault == faults < MaxFaults /\ faults' = faults + 1

\* Packages come before others that have not changed since; among those that change
\* at once the higher ids come first.
Higher(p, q) == \E i, j \in DOMAIN Ids : i < j /\ Ids[i] = p /\ Ids[j] = q
ToFront(order, P) ==
  LET others == Package \ P
  IN (P \X others) \cup {x \in P \X P : Higher(x[1], x[2])} \cup (order \cap (others \X others))

\* What is before p in S, and the first n of S.
Ahead(order, S, p) == {q \in S \ {p} : <<q, p>> \in order}
First(order, S, n) == {p \in S : Cardinality(Ahead(order, S, p)) < n}

-----------------------------------------------------------------------------
(* The ingest run: packages arrive or are rebuilt, then the READY index.    *)

StartIngest ==
  /\ Goto("idle", "index") /\ Sound
  /\ flow' = "ingest"
  /\ \E P \in SUBSET {p \in Package : evidence[p] < MaxRev} :
       /\ evidence' = [p \in Package |-> evidence[p] + (IF p \in P THEN 1 ELSE 0)]
       /\ newest' = ToFront(newest, P)
  /\ UNCHANGED <<index, curation, offer, handoff, curator, shelf, batch, publish, misread>>

\* load_remote, sort_items: a package that cannot be read is left out.
Indexed(unread) ==
  {x \in [id : Package \ unread, rev : Rev, place : 1..Window] :
     /\ x.rev = evidence[x.id]
     /\ x.place = Cardinality(Ahead(newest, {p \in Package : evidence[p] # 0}, x.id)) + 1}

ReadyIndex ==
  /\ Goto("index", "handoff")
  /\ \/ index' = Indexed({}) /\ Sound
     \/ Fault /\ \E p \in Package : index' = Indexed({p})
     \/ Fault /\ UNCHANGED index
  /\ UNCHANGED <<ready, curation, offer, handoff, curator, shelf, flow, batch, publish, misread>>

-----------------------------------------------------------------------------
(* curation_handoff.py, alone or called by curation_decision_apply.py.      *)

ReadyIds == {x.id : x \in index}
RevisionOf(p) == (CHOOSE x \in index : x.id = p).rev

\* Mutant of ReconcileOne: a terminal state is reopened like a final one.
ReconcileOneTerminal(p, previous) ==
  IF p \notin ReadyIds \/ previous.rev = RevisionOf(p) THEN previous
  ELSE [state |-> "pending", rev |-> RevisionOf(p)]

\* Mutant of ReconcileOne: decided packages stay closed whatever arrives.
ReconcileOneClosed(p, previous) ==
  IF p \notin ReadyIds \/ previous.state \in Verdict THEN previous
  ELSE [state |-> "pending", rev |-> RevisionOf(p)]

\* reconcile_state, for one package of the index
ReconcileOne(p, previous) ==
  IF \/ p \notin ReadyIds
     \/ previous.state \in Terminal
     \/ previous.rev = RevisionOf(p)
  THEN previous
  ELSE [state |-> "pending", rev |-> RevisionOf(p)]

\* apply_transitions: the verdict is recorded for the revision of the index.
Transition(p, verdict) == [state |-> verdict, rev |-> RevisionOf(p)]

\* STATE after reconciliation and the decisions of `active`.
Refreshed(before, active) ==
  [p \in Package |->
     IF p \in active THEN Transition(p, batch[p].state) ELSE ReconcileOne(p, before[p])]

\* handoff_payload: the first pending items of the index.
Offer(after) ==
  LET pending == {x \in index : after[x.id].state = "pending"}
      Before(x) == {y \in pending : y.place < x.place}
      first == {x \in pending : Cardinality(Before(x)) < MaxHandoff}
  IN {[id |-> x.id, rev |-> after[x.id].rev] : x \in first}

\* state_payload and the write of STATE: the oldest entries over MaxState are
\* forgotten; the handoff is taken from the table that still has them.
WriteState(before, order, active) ==
  LET after == Refreshed(before, active)
      ordered == ToFront(order, {p \in Package : after[p] # before[p]})
      kept == First(ordered, {p \in Package : after[p] # Nothing}, MaxState)
  IN /\ updated' = ordered \cap (kept \X kept)
     /\ state' = [p \in Package |-> IF p \in kept THEN after[p] ELSE Nothing]
     /\ offer' = Offer(after)

\* A STATE that cannot be read is taken for an empty one.
RefreshState(active) ==
  \/ WriteState(state, updated, active) /\ UNCHANGED misread /\ Sound
  \/ /\ state # None /\ Fault
     /\ WriteState(None, {}, active)
     /\ misread' = misread \cup {"state"}

HandoffState ==
  /\ Goto("handoff", "handoff file")
  /\ RefreshState({})
  /\ UNCHANGED <<ready, index, handoff, curator, shelf, flow, batch, publish>>

HandoffFile ==
  /\ Goto("handoff file", "idle") /\ Sound
  /\ handoff' = offer
  /\ UNCHANGED <<ready, index, curation, offer, curator, shelf, flow, batch, publish, misread>>

-----------------------------------------------------------------------------
(* The decision run: fetch, library_publish.py, library_index_build.py.      *)

StartDecisions ==
  /\ Goto("idle", "publish") /\ Sound
  /\ decisions # None
  /\ flow' = "decide" /\ batch' = decisions
  /\ UNCHANGED <<ready, index, curation, offer, handoff, curator, shelf, publish, misread>>

\* No manifest, or one that cannot be read: exit 0.
PublishSkip ==
  /\ Goto("publish", "list")
  /\ (outbox = {} /\ Sound) \/ (outbox # {} /\ Fault)
  /\ UNCHANGED <<ready, index, curation, offer, handoff, curator, shelf, flow, batch,
                 publish, misread>>

PublishBegin ==
  /\ Goto("publish", "item") /\ Sound
  /\ outbox # {}
  /\ items' = outbox /\ done' = {}
  /\ UNCHANGED <<ready, index, curation, offer, handoff, curator, shelf, flow, batch, misread>>

\* Mutant of MayWrite: the owner of the target is not looked at.
MayWriteAny(x) == TRUE

\* target_owner: the target is free or holds an earlier text of the record.
MayWrite(x) == library[Target[x.id]].id \in {"nobody", x.id}

\* The record was replaced since the manifest was read, or the target is owned
\* by another record: the run ends.
PublishRefused ==
  /\ Goto("item", "idle") /\ Sound
  /\ \E x \in items \ done : x \notin outbox \/ ~MayWrite(x)
  /\ UNCHANGED <<ready, index, curation, offer, handoff, curator, shelf, flow, batch,
                 publish, misread>>

\* The write of one target.  A target that cannot be read counts as free; a
\* write that took effect may be reported as failed, which ends the run.
PublishItem(x) ==
  /\ pc = "item" /\ x \in (items \ done) \cap outbox
  /\ library' = [library EXCEPT ![Target[x.id]] = x]
  /\ \/ MayWrite(x) /\ pc' = pc /\ done' = done \cup {x} /\ UNCHANGED misread /\ Sound
     \/ MayWrite(x) /\ pc' = "idle" /\ UNCHANGED <<done, misread>> /\ Fault
     \/ /\ ~MayWrite(x) /\ pc' = pc /\ done' = done \cup {x}
        /\ misread' = misread \cup {"target"} /\ Fault
  /\ UNCHANGED <<ready, index, curation, offer, handoff, curator, routes, receipt, flow,
                 batch, items>>

\* Every target is read back before the receipt is written.
Verified == \A x \in items : library[Target[x.id]] = x

PublishReceipt ==
  /\ Goto("item", "list") /\ Sound
  /\ done = items /\ Verified
  /\ receipt' = items
  /\ UNCHANGED <<ready, index, curation, offer, handoff, curator, library, routes, flow,
                 batch, publish, misread>>

Records == {library[t] : t \in Path} \ {Free}

\* load_records: a listing that fails looks like an empty library, exit 0.
IndexSkip ==
  /\ Goto("list", "apply")
  /\ \/ Records = {} /\ UNCHANGED misread /\ Sound
     \/ Records # {} /\ misread' = misread \cup {"listing"} /\ Fault
  /\ UNCHANGED <<ready, index, curation, offer, handoff, curator, shelf, flow, batch, publish>>

\* The domain indexes are written first, MASTER_INDEX after them.
WriteRoutes(file, from, to) ==
  /\ Goto(from, to) /\ Sound
  /\ Records # {}
  /\ routes' = [routes EXCEPT ![file] = Records]
  /\ UNCHANGED <<ready, index, curation, offer, handoff, curator, library, receipt, flow,
                 batch, publish, misread>>

IndexDomains == WriteRoutes("domain", "list", "master")
IndexMaster == WriteRoutes("master", "master", "apply")

-----------------------------------------------------------------------------
(* The decision run: curation_decision_apply.py --require-publish-receipt.   *)

\* Decisions for a package and revision that the handoff offers.
Active == {p \in Package : [id |-> p, rev |-> batch[p].rev] \in handoff}

\* Mutant of Covered: no receipt is asked for.
CoveredAlways == TRUE

\* parse_publish_receipt: each analyzed decision has its receipt.
Covered ==
  \A p \in Active :
    batch[p].state = "analyzed" => [id |-> p, rev |-> batch[p].rev] \in receipt

NothingActive ==
  /\ Goto("apply", "idle") /\ Sound
  /\ Active = {}
  /\ UNCHANGED <<ready, index, curation, offer, handoff, curator, shelf, flow, batch,
                 publish, misread>>

\* One decision without a receipt, or off the index, holds up all of them.
ApplyRefused ==
  /\ Goto("apply", "idle") /\ Sound
  /\ ~Covered \/ ~(Active \subseteq ReadyIds)
  /\ UNCHANGED <<ready, index, curation, offer, handoff, curator, shelf, flow, batch,
                 publish, misread>>

ApplyState ==
  /\ Goto("apply", "handoff file")
  /\ Active # {} /\ Covered /\ Active \subseteq ReadyIds
  /\ RefreshState(Active)
  /\ UNCHANGED <<ready, index, handoff, curator, shelf, flow, batch, publish>>

-----------------------------------------------------------------------------
(* The curator, and the failures that end a program or a run.               *)

Act == acts < MaxActs /\ acts' = acts + 1

\* He decides on what the handoff offers; an analyzed package has a record.
Curate(x, verdict) ==
  /\ Act /\ x \in handoff
  /\ decisions' = [decisions EXCEPT ![x.id] = [state |-> verdict, rev |-> x.rev]]
  /\ outbox' = IF verdict = "analyzed"
       THEN {y \in outbox : Target[y.id] # Target[x.id]} \cup {x}
       ELSE outbox
  /\ UNCHANGED <<ready, index, curation, offer, handoff, shelf, pc, flow, batch, publish,
                 misread, faults>>

\* A call whose failure ends the program, or the end of the whole run.  In an
\* ingest run the handoff follows an index that failed.
Die ==
  /\ pc \notin {"idle", "index"} /\ pc' = "idle" /\ Fault
  /\ UNCHANGED <<ready, index, curation, offer, handoff, curator, shelf, flow, batch,
                 publish, misread>>

Ingest == StartIngest \/ ReadyIndex \/ HandoffState \/ HandoffFile

Publish ==
  \/ PublishSkip \/ PublishBegin \/ PublishRefused \/ PublishReceipt
  \/ \E x \in items : PublishItem(x)

Decide ==
  \/ Publish
  \/ IndexSkip \/ IndexDomains \/ IndexMaster
  \/ NothingActive \/ ApplyRefused \/ ApplyState

Next ==
  \/ Ingest \/ StartDecisions \/ Decide \/ Die
  \/ \E x \in handoff, verdict \in Verdict : Curate(x, verdict)

Spec == Init /\ [][Next]_vars

\* Ingest runs are scheduled for ever; a started run goes on.
FairSpec == Spec /\ WF_vars(Ingest) /\ SF_vars(StartIngest) /\ WF_vars(Decide)

-----------------------------------------------------------------------------
(* Safety.                                                                  *)

Point == {"idle", "index", "handoff", "handoff file", "publish", "item", "list", "master", "apply"}

\* Types.
TypeOK ==
  /\ evidence \in [Package -> 0..MaxRev]
  /\ newest \subseteq Package \X Package
  /\ index \subseteq [id : Package, rev : Rev, place : 1..Window]
  /\ \A table \in {state, decisions, batch} : DOMAIN table = Package
  /\ updated \subseteq Package \X Package
  /\ offer \cup handoff \cup outbox \cup items \cup receipt \subseteq Item
  /\ done \subseteq items
  /\ library \in [Path -> Item \cup {Free}]
  /\ pc \in Point
  /\ misread \subseteq {"state", "target", "listing"}
  /\ acts \in 0..MaxActs /\ faults \in 0..MaxFaults

\* A package on hold is never offered again, whatever arrives for it, through
\* crashes between STATE and the handoff, unless STATE could not be read
\* (reconcile_state; MaxState is not reached in this run).
HoldKept ==
  [][\A p \in Package : state[p].state \in Terminal =>
       state'[p].state \in Verdict \/ "state" \in misread']_vars

\* The text of a record is replaced by a later one of the same record only,
\* unless its target could not be read (library_publish.main).
OwnerKept ==
  [][\A t \in Path : library[t] # Free /\ library'[t].id # library[t].id =>
       "target" \in misread']_vars

NewlyAnalyzed(p) == state'[p].state = "analyzed" /\ state[p] # state'[p]

\* When a package becomes analyzed, its record is in the library at the revision
\* that was decided and MASTER_INDEX routes to it, whatever the curator rewrote
\* and whichever run died in between (curation_decision_apply.main).
AnalyzedPublished ==
  [][\A p \in Package : NewlyAnalyzed(p) =>
       \/ \E x \in routes["master"] : x.id = p /\ x.rev = batch[p].rev
       \/ misread \cap {"target", "listing"} # {}]_vars

\* What curation_decision_apply.py says of itself: a decision is applied only to
\* the revision it was made for.
DecidedRevision ==
  [][\A p \in Package : state'[p].state \in Verdict /\ state[p] # state'[p] =>
       state'[p].rev = batch[p].rev]_vars

(* Liveness, under FairSpec.                                                *)

\* Each revision in READY is in the end offered, decided, or of a package on hold.
Noticed ==
  \A p \in Package : \A r \in Rev :
    evidence[p] = r ~>
      (evidence[p] # r \/ state[p].rev = r \/ state[p].state \in Terminal)
=============================================================================
