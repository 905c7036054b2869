--------------------------- MODULE CandidateBatch ---------------------------
(***************************************************************************)
(* From READY_FOR_CURATION to settlement.  The local finalizer              *)
(* (candidate_finalize_local.py) renders a record for every candidate that  *)
(* is ready, overwrites four control files one after the other and seals    *)
(* them with FINALIZE_BATCH.  The operator then runs, by hand and at any    *)
(* time, the programs that turn the sealed batch into a transaction plan    *)
(* (candidate_transaction_prepare.py), accept it, gate it, authorize it,    *)
(* publish it, verify the library (stages 13 and 14) and settle it (stage   *)
(* 15).  Nothing locks the finalizer out meanwhile, nothing keeps two of    *)
(* them apart, and somebody else may edit the library.                      *)
(*                                                                          *)
(* A file is the value it holds: two files are equal when their digests are.*)
(* What is rendered for a candidate holds the answer of the local model and *)
(* the bytes of the record an update was merged into.                       *)
(* Publication itself is one step here; ControlledPublish takes it apart.   *)
(***************************************************************************)
EXTENDS Naturals, Sequences, FiniteSets

CONSTANTS
  Candidate,   \* candidates, numbers in the order of their file names
  Record,      \* the canonical record each candidate proposes or updates
  Updates,     \* candidates decided VALIDATED_UPDATE; the others are new
  MaxItems,    \* how many candidates one finalizer run looks at
  Answers,     \* what the local model may answer
  Finalizer,   \* finalizers that may run at the same time
  MaxRuns,     \* bound on finalizer runs
  MaxTrouble   \* bound on deaths, failed calls and edits by somebody else

ASSUME BatchAssumption ==
  /\ Candidate \subseteq Nat /\ Updates \subseteq Candidate
  /\ MaxItems \in Nat \ {0} /\ Answers \subseteq Nat
  /\ MaxRuns \in Nat /\ MaxTrouble \in Nat

Target == {Record[c] : c \in Candidate}
None == [nothing |-> TRUE]

\* The private files that settlement moves: the candidate, the artifact and the
\* body prepared for it, and TRANSACTION_READY/plan.json.
CandidateKey(c) == <<"candidate", c>>
EntryKey(c) == <<"entry", c>>
BodyKey(c) == IF c \in Updates THEN <<"update", Record[c]>> ELSE <<"new", c>>
PlanKey == <<"plan">>
Key == {CandidateKey(c) : c \in Candidate} \cup {EntryKey(c) : c \in Candidate}
         \cup {BodyKey(c) : c \in Candidate} \cup {PlanKey}

VARIABLES
  library,     \* the bytes of every record
  master,      \* the records MASTER_INDEX lists
  store,       \* the private files, by key
  audit,       \* RESOLVED/PUBLISHED/<transaction>: what settlement moved
  control,     \* the four control files of the finalizer
  finalizer,   \* the run of each: step, candidates to do, items, index it read
  reader,      \* candidate_transaction_prepare: how far it is, what it read
  accepted,    \* the operator's acceptances: a batch and its items
  ready, authorized,   \* readiness report and authorization: a transaction
  receipts,    \* verified publications, with the number of records after
  verified,    \* transactions that passed stages 13 and 14
  settled,     \* transactions with a settlement state
  settlement,  \* a run of stage 15: transaction and moves to do
  runs, trouble,
  made,        \* history: what a run has written to the control files, all of it
  sealed,      \* history: the batches that finalizer runs sealed
  shared,      \* history: those sealed by a run that another one overlapped
  overlapped   \* history: the finalizers whose runs another one overlapped

private == <<store, audit>>
operator == <<accepted, ready, authorized>>
published == <<receipts, verified, settled>>
bounds == <<runs, trouble>>
history == <<made, sealed, shared, overlapped>>
batchVars == <<library, master, private, control, finalizer, reader, operator, published,
          settlement, bounds, history>>

Exists(t) == library[t] # None
Present == {t \in Target : Exists(t)}
Owned(n) == [owner |-> n]     \* bytes that somebody else wrote
Page(c) == [candidate |-> c]
Rendered(c, answer, base) == [c |-> c, answer |-> answer, base |-> base]

Idle == [at |-> "idle", todo |-> {}, current |-> {}, new |-> {}, updates |-> {}, master |-> {}]
Nobody == [at |-> 0, seen |-> None]
AtRest == [tx |-> None, moves |-> {}]

BatchInit ==
  /\ library = [t \in Target |->
       IF \E c \in Updates : Record[c] = t THEN Owned(0) ELSE None]
  /\ master = Present
  /\ store = [k \in Key |-> IF k[1] = "candidate" THEN Page(k[2]) ELSE None]
  /\ audit = {}
  /\ control = [manifest |-> {}, updates |-> {}, validation |-> {}, batch |-> None]
  /\ finalizer = [f \in Finalizer |-> Idle] /\ reader = Nobody
  /\ accepted = {} /\ ready = None /\ authorized = None
  /\ receipts = {} /\ verified = {} /\ settled = {}
  /\ settlement = AtRest
  /\ runs = 0 /\ trouble = 0
  /\ made = {} /\ sealed = {} /\ shared = {} /\ overlapped = {}

---------------------------------------------------------------------------
(* candidate_finalize_local.py *)

Listed ==
  LET there == {c \in Candidate : store[CandidateKey(c)] # None}
  IN {c \in there : Cardinality({d \in there : d < c}) < MaxItems}

Active == {f \in Finalizer : finalizer[f].at # "idle"}

\* It reads MASTER_INDEX once, before anything else, and looks for no other run.
FinalizeStart(f) ==
  /\ f \notin Active /\ f = CHOOSE g \in Finalizer : g \notin Active
  /\ runs < MaxRuns
  /\ runs' = runs + 1
  /\ finalizer' = [finalizer EXCEPT ![f] =
       [Idle EXCEPT !.at = "candidates", !.todo = Listed, !.master = master]]
  /\ overlapped' = IF Active = {} THEN {} ELSE overlapped \cup Active \cup {f}
  /\ UNCHANGED <<library, master, private, control, reader, operator, published,
                 settlement, trouble, made, sealed, shared>>

\* The run of f goes on, or ends.
Continues(f, run) == finalizer' = [finalizer EXCEPT ![f] = run]
Leaves(f) == Continues(f, Idle)

\* The candidate is read; the model is asked about it for minutes before anything
\* is written, and the candidate is not looked at again.
Take(f, c) ==
  /\ finalizer[f].at = "candidates" /\ finalizer[f].current = {}
  /\ c \in finalizer[f].todo /\ \A d \in finalizer[f].todo : c <= d
  /\ Continues(f, [finalizer[f] EXCEPT !.todo = @ \ {c},
                     !.current = IF store[CandidateKey(c)] = None THEN {} ELSE {c}])
  /\ UNCHANGED <<library, master, private, control, reader, operator, published,
                 settlement, bounds, history>>

\* Held: its evidence or its claims do not suffice, or its draft is refused.  It
\* stays where it is.
Hold(f, c) ==
  /\ c \in finalizer[f].current
  /\ Continues(f, [finalizer[f] EXCEPT !.current = {}])
  /\ UNCHANGED <<library, master, private, control, reader, operator, published,
                 settlement, bounds, history>>

\* A new record: its title must not be in the index the run read.
TitleFree(f, c) == Record[c] \notin finalizer[f].master

PrepareNew(f, c, answer) ==
  /\ c \in finalizer[f].current \ Updates
  /\ TitleFree(f, c)
  /\ LET bytes == Rendered(c, answer, None) IN
       /\ store' = [store EXCEPT ![BodyKey(c)] = bytes, ![EntryKey(c)] = bytes]
       /\ Continues(f, [finalizer[f] EXCEPT !.current = {},
                                            !.new = @ \cup {[c |-> c, bytes |-> bytes]}])
  /\ UNCHANGED <<library, master, audit, control, reader, operator, published,
                 settlement, bounds, history>>

\* Claims the record already has are not added again.
Merged(c, answer, base) ==
  IF "c" \in DOMAIN base /\ base.c = c /\ base.answer = answer
  THEN base ELSE Rendered(c, answer, base)

\* The plan of an update is bound to the bytes it was made for.
UpdatePlan(c, answer, base) ==
  [c |-> c, bytes |-> Merged(c, answer, base), base |-> base]

\* An update: merged into the bytes the record has now.
PrepareUpdate(f, c, answer) ==
  LET base == library[Record[c]]
      item == UpdatePlan(c, answer, base)
  IN
  /\ c \in finalizer[f].current \cap Updates
  /\ Record[c] \in finalizer[f].master /\ base # None
  /\ store' = [store EXCEPT ![BodyKey(c)] = item.bytes,
                             ![EntryKey(c)] = [bytes |-> item.bytes, base |-> base]]
  /\ Continues(f, [finalizer[f] EXCEPT !.current = {}, !.updates = @ \cup {item}])
  /\ UNCHANGED <<library, master, audit, control, reader, operator, published,
                 settlement, bounds, history>>

OnePerRecord(items) == \A i, j \in items : Record[i.c] = Record[j.c] => i = j

\* All candidates have been looked at.
Prepared(f) ==
  finalizer[f].at = "candidates" /\ finalizer[f].todo \cup finalizer[f].current = {}

\* Two prepared candidates for one record end the run, whatever else it prepared.
WriteManifest(f) ==
  /\ Prepared(f)
  /\ IF OnePerRecord(finalizer[f].new)
     THEN /\ control' = [control EXCEPT !.manifest = finalizer[f].new]
          /\ Continues(f, [finalizer[f] EXCEPT !.at = "updates"])
     ELSE Leaves(f) /\ UNCHANGED control
  /\ UNCHANGED <<library, master, private, reader, operator, published, settlement,
                 bounds, history>>

\* The manifest goes through one staging file.  g stages its own over that of f, and
\* one of them, h, installs it; the other finds nothing left to install and ends, and
\* so does h if what it reads back is not its own.
Collide(f, g) ==
  /\ Prepared(f) /\ Prepared(g)
  /\ OnePerRecord(finalizer[f].new) /\ OnePerRecord(finalizer[g].new)
  /\ control' = [control EXCEPT !.manifest = finalizer[g].new]
  /\ \E h \in {f, g} : finalizer' = [i \in Finalizer |->
       IF i = h /\ finalizer[h].new = finalizer[g].new THEN [finalizer[h] EXCEPT !.at = "updates"]
       ELSE IF i \in {f, g} THEN Idle ELSE finalizer[i]]
  /\ UNCHANGED <<library, master, private, reader, operator, published, settlement,
                 bounds, history>>

\* Mutant: a run without updates leaves the former selection in place.
WriteUpdates_Selected(f) ==
  /\ finalizer[f].at = "updates"
  /\ IF OnePerRecord(finalizer[f].updates)
     THEN /\ control' = [control EXCEPT !.updates =
               IF finalizer[f].updates = {} THEN @ ELSE finalizer[f].updates]
          /\ Continues(f, [finalizer[f] EXCEPT !.at = "validation"])
     ELSE Leaves(f) /\ UNCHANGED control
  /\ UNCHANGED <<library, master, private, reader, operator, published, settlement,
                 bounds, history>>

\* An empty selection is written too.
WriteUpdates(f) ==
  /\ finalizer[f].at = "updates"
  /\ IF OnePerRecord(finalizer[f].updates)
     THEN /\ control' = [control EXCEPT !.updates = finalizer[f].updates]
          /\ Continues(f, [finalizer[f] EXCEPT !.at = "validation"])
     ELSE Leaves(f) /\ UNCHANGED control
  /\ UNCHANGED <<library, master, private, reader, operator, published, settlement,
                 bounds, history>>

\* It reads its manifest and its updates back; another run has replaced them already.
Overtaken(f) ==
  /\ \/ finalizer[f].at = "updates" /\ control.manifest # finalizer[f].new
     \/ finalizer[f].at = "validation" /\ control.updates # finalizer[f].updates
  /\ Leaves(f)
  /\ UNCHANGED <<library, master, private, control, reader, operator, published,
                 settlement, bounds, history>>

Creatable(f, i) == ~Exists(Record[i.c]) /\ Record[i.c] \notin finalizer[f].master
Unchanged(i) == library[Record[i.c]] = i.bytes

\* A target that is neither free nor equal ends the run.
Assessed(f) ==
  {[c |-> i.c, bytes |-> i.bytes,
    action |-> IF Unchanged(i) THEN "UNCHANGED" ELSE "CREATE"] : i \in finalizer[f].new}

\* build_finalize_batch: the digests of the four inputs.
BatchOf(index, c) ==
  [master |-> index, manifest |-> c.manifest, validation |-> c.validation,
   updates |-> c.updates]

\* The control files as this run has written them.
Output(f) ==
  [manifest |-> finalizer[f].new, updates |-> finalizer[f].updates, validation |-> Assessed(f)]

WriteValidation(f) ==
  /\ finalizer[f].at = "validation"
  /\ IF \A i \in finalizer[f].new : Creatable(f, i) \/ Unchanged(i)
     THEN /\ control' = [control EXCEPT !.validation = Assessed(f)]
          /\ Continues(f, [finalizer[f] EXCEPT !.at = "sealing"])
          /\ made' = made \cup {BatchOf(finalizer[f].master, Output(f))}
     ELSE Leaves(f) /\ UNCHANGED <<control, made>>
  /\ UNCHANGED <<library, master, private, reader, operator, published, settlement,
                 bounds, sealed, shared, overlapped>>

\* The barrier, written last and over the other three as they are stored now: they
\* are read again and not compared with what this run wrote.  (One step; a barrier
\* that comes later than these reads seals what nobody can verify any more.)
Seal(f) ==
  /\ finalizer[f].at = "sealing"
  /\ LET batch == BatchOf(finalizer[f].master, control) IN
       /\ control' = [control EXCEPT !.batch = batch]
       /\ sealed' = sealed \cup {batch}
       /\ shared' = IF f \in overlapped THEN shared \cup {batch} ELSE shared
  /\ Leaves(f)
  /\ UNCHANGED <<library, master, private, reader, operator, published, settlement,
                 bounds, made, overlapped>>

Trouble == trouble < MaxTrouble /\ trouble' = trouble + 1

\* A call fails or the process dies: what it has written stays.
FinalizeEnds(f) ==
  /\ finalizer[f].at # "idle" /\ Trouble
  /\ Leaves(f)
  /\ UNCHANGED <<library, master, private, control, reader, operator, published,
                 settlement, runs, history>>

---------------------------------------------------------------------------
(* candidate_batch_inspect.py, candidate_transaction_plan.py and
   candidate_transaction_prepare.py *)

\* verify_finalize_batch: every digest again.
Verified(batch, index, c) == batch = BatchOf(index, c)

NewItems(c) ==
  {[c |-> v.c, action |-> v.action, bytes |-> v.bytes, base |-> None] : v \in c.validation}
UpdateItems(c) ==
  {[c |-> u.c, action |-> "UPDATE", bytes |-> u.bytes, base |-> u.base] : u \in c.updates}
ItemsOf(c) == NewItems(c) \cup UpdateItems(c)

\* What the library and the private bodies must be for an item to be written.
Live(i) ==
  /\ store[BodyKey(i.c)] = i.bytes
  /\ CASE i.action = "CREATE" -> ~Exists(Record[i.c])
       [] i.action = "UNCHANGED" -> library[Record[i.c]] = i.bytes
       [] i.action = "UPDATE" -> library[Record[i.c]] = i.base

\* validate_new_lane: the validation plan is about the manifest.
NewLaneBound(c) == {[c |-> v.c, bytes |-> v.bytes] : v \in c.validation} = c.manifest

\* inspect_batch and prepare_transaction accept what was read.
Acceptable(index, c) ==
  /\ Verified(c.batch, index, c)
  /\ NewLaneBound(c)
  /\ OnePerRecord(ItemsOf(c))
  /\ \A i \in ItemsOf(c) : Live(i)

Transaction(index, c) ==
  [master |-> index, items |-> ItemsOf(c), batch |-> c.batch]

\* The control files are read one by one, in this order.  A batch that does not
\* verify ends the run; here, before it reads the plan in vain.
Reads == <<"master", "manifest", "validation", "updates", "batch", "plan">>

Content(file) ==
  CASE file = "master" -> master
    [] file = "plan" -> store[PlanKey]
    [] OTHER -> control[file]

ReadNext ==
  /\ reader.at < Len(Reads)
  /\ LET file == Reads[reader.at + 1]
         read == [f \in {Reads[n] : n \in 1..(reader.at + 1)} |->
                    IF f = file THEN Content(f) ELSE reader.seen[f]]
         refused == file = "batch" /\ ~Verified(read.batch, read.master, read)
     IN reader' = IF refused THEN Nobody ELSE [at |-> reader.at + 1, seen |-> read]
  /\ UNCHANGED <<library, master, private, control, finalizer, operator, published,
                 settlement, bounds, history>>

\* read_remote returns nothing when the call fails, as if no plan were stored.
MissPlan ==
  /\ reader.at = Len(Reads) - 1 /\ store[PlanKey] # None /\ Trouble
  /\ reader' = [at |-> Len(Reads),
                seen |-> [f \in {Reads[n] : n \in 1..Len(Reads)} |->
                            IF f = "plan" THEN None ELSE reader.seen[f]]]
  /\ UNCHANGED <<library, master, private, control, finalizer, operator, published,
                 settlement, runs, history>>

PlanMaster == reader.seen.master
PlanControl ==
  [f \in {"manifest", "validation", "updates", "batch"} |-> reader.seen[f]]

\* A plan is stored only where the run saw none; a different one is a conflict.
StorePlan ==
  /\ reader.at = Len(Reads)
  /\ IF Acceptable(PlanMaster, PlanControl) /\ reader.seen.plan = None
     THEN store' = [store EXCEPT ![PlanKey] = Transaction(PlanMaster, PlanControl)]
     ELSE UNCHANGED store
  /\ reader' = Nobody
  /\ UNCHANGED <<library, master, audit, control, finalizer, operator, published,
                 settlement, bounds, history>>

---------------------------------------------------------------------------
(* candidate_batch_editorial_acceptance.py, candidate_executor_readiness.py,
   candidate_publish_authorization.py, candidate_transaction_publish.py *)

\* The operator has read the report of the batch as it is now.
Accept ==
  /\ Acceptable(master, control) /\ ItemsOf(control) # {}
  /\ accepted' = accepted \cup {[batch |-> control.batch, items |-> ItemsOf(control)]}
  /\ UNCHANGED <<library, master, private, control, finalizer, reader, ready, authorized,
                 published, settlement, bounds, history>>

\* validate_acceptance: the acceptance is of this batch and of these items.
AcceptanceBound ==
  [batch |-> control.batch, items |-> ItemsOf(control)] \in accepted

\* Mutant: the stored plan is not compared with the live files again.
PlanIsLive_Stored == store[PlanKey] # None

\* The stored plan is what the live files still give.
PlanIsLive ==
  /\ Acceptable(master, control) /\ ItemsOf(control) # {}
  /\ store[PlanKey] = Transaction(master, control)

Ready == AcceptanceBound /\ PlanIsLive

Gate ==
  /\ Ready
  /\ ready' = store[PlanKey]
  /\ UNCHANGED <<library, master, private, control, finalizer, reader, accepted,
                 authorized, published, settlement, bounds, history>>

\* The operator confirms the batch and the transaction of one readiness report.
Authorize ==
  /\ ready # None /\ authorized # ready
  /\ authorized' = ready
  /\ UNCHANGED <<library, master, private, control, finalizer, reader, accepted, ready,
                 published, settlement, bounds, history>>

\* validate_authorization: it is for the readiness report at hand.
Authorized == ready # None /\ authorized = ready

\* Everything is checked again, then written, and the indexes are rebuilt.  The
\* receipt is of the items and of the number of records.
PublishBatch ==
  LET tx == store[PlanKey]
      bytesOf(t) == (CHOOSE i \in tx.items : Record[i.c] = t).bytes
      touched == {Record[i.c] : i \in tx.items}
  IN
  /\ Authorized
  /\ PlanIsLive /\ tx = ready
  /\ library' = [t \in Target |-> IF t \in touched THEN bytesOf(t) ELSE library[t]]
  /\ master' = {t \in Target : library'[t] # None}
  /\ receipts' = receipts \cup {[tx |-> tx, after |-> Cardinality(master')]}
  /\ UNCHANGED <<private, control, finalizer, reader, operator, verified, settled,
                 settlement, bounds, history>>

---------------------------------------------------------------------------
(* candidate_stage_13_verification.py, candidate_stage_14_verification.py *)

TargetsHold(tx) ==
  \A i \in tx.items : library[Record[i.c]] = i.bytes /\ Record[i.c] \in master

\* The inventory, the indexes and the targets are those of the publication.
Accepted(r) ==
  /\ Cardinality(Present) = r.after /\ master = Present
  /\ TargetsHold(r.tx)

VerifyPublication(r) ==
  /\ r \in receipts /\ r.tx \notin verified
  /\ Accepted(r)
  /\ verified' = verified \cup {r.tx}
  /\ UNCHANGED <<library, master, private, control, finalizer, reader, operator,
                 receipts, settled, settlement, bounds, history>>

---------------------------------------------------------------------------
(* candidate_stage_15_settlement.py *)

Archived(tx, k) == {a.bytes : a \in {b \in audit : b.tx = tx /\ b.key = k}}

\* The file is at its source or at its destination, and not at both with
\* different bytes.
Movable(tx, k) ==
  IF store[k] = None THEN Archived(tx, k) # {} ELSE Archived(tx, k) \subseteq {store[k]}

Expected(tx, k) ==
  IF store[k] # None THEN store[k] ELSE CHOOSE b \in Archived(tx, k) : TRUE

KeysOf(tx) ==
  UNION {{CandidateKey(i.c), EntryKey(i.c), BodyKey(i.c)} : i \in tx.items}

MoveOf(tx, k, place) == [key |-> k, place |-> place, bytes |-> Expected(tx, k)]

\* The candidate goes first, then what was prepared for it; the plan is last.
MovesOf(tx) ==
  {MoveOf(tx, PlanKey, 0)} \cup
  UNION {{MoveOf(tx, CandidateKey(i.c), 3 * i.c), MoveOf(tx, EntryKey(i.c), 3 * i.c + 1),
          MoveOf(tx, BodyKey(i.c), 3 * i.c + 2)} : i \in tx.items}

\* Mutant: settlement does not wait for stages 13 and 14.
SettlePlan_Unverified(r) ==
  /\ settlement = AtRest
  /\ r \in receipts /\ r.tx \notin settled
  /\ \A k \in KeysOf(r.tx) \cup {PlanKey} : Movable(r.tx, k)
  /\ Expected(r.tx, PlanKey) = r.tx
  /\ settlement' = [tx |-> r.tx, moves |-> MovesOf(r.tx)]
  /\ UNCHANGED <<library, master, private, control, finalizer, reader, operator,
                 published, bounds, history>>

\* The whole plan is made, or nothing is moved.
SettlePlan(r) ==
  /\ settlement = AtRest
  /\ r \in receipts /\ r.tx \in verified \ settled
  /\ \A i \in r.tx.items : library[Record[i.c]] = i.bytes
  /\ \A k \in KeysOf(r.tx) \cup {PlanKey} : Movable(r.tx, k)
  /\ Expected(r.tx, PlanKey) = r.tx
  /\ settlement' = [tx |-> r.tx, moves |-> MovesOf(r.tx)]
  /\ UNCHANGED <<library, master, private, control, finalizer, reader, operator,
                 published, bounds, history>>

\* The move that is due.
Due(m) ==
  /\ m \in settlement.moves
  /\ \A n \in settlement.moves \ {m} :
       n.key = PlanKey \/ (m.key # PlanKey /\ m.place < n.place)

Arrived(m) == m.bytes \in Archived(settlement.tx, m.key)

\* Mutant: a file that an earlier run has moved already is an error.
MoveAllowed_Once(m) ==
  store[m.key] = m.bytes /\ Archived(settlement.tx, m.key) \subseteq {m.bytes}

\* _private_move_exact: the source must still hold the planned bytes, or be gone
\* and the destination hold them; the destination holds nothing else.
MoveAllowed(m) ==
  IF store[m.key] = None THEN Arrived(m)
  ELSE store[m.key] = m.bytes /\ Archived(settlement.tx, m.key) \subseteq {m.bytes}

Filed(m) == audit \cup {[tx |-> settlement.tx, key |-> m.key, bytes |-> m.bytes]}

MoveExact(m) ==
  /\ Due(m)
  /\ IF MoveAllowed(m)
     THEN /\ store' = [store EXCEPT ![m.key] = None]
          /\ audit' = Filed(m)
          /\ settlement' = [settlement EXCEPT !.moves = @ \ {m}]
     ELSE settlement' = AtRest /\ UNCHANGED private
  /\ UNCHANGED <<library, master, control, finalizer, reader, operator, published,
                 bounds, history>>

\* The remote copies, and the delete of the source does not happen.
MoveHalf(m) ==
  /\ Due(m) /\ store[m.key] # None /\ MoveAllowed(m) /\ Trouble
  /\ audit' = Filed(m)
  /\ settlement' = AtRest
  /\ UNCHANGED <<library, master, store, control, finalizer, reader, operator, published,
                 runs, history>>

\* What must be true of every file and every target before the state is written.
SettlementHolds(tx) ==
  /\ \A k \in KeysOf(tx) \cup {PlanKey} : store[k] = None /\ Archived(tx, k) # {}
  /\ \A i \in tx.items : library[Record[i.c]] = i.bytes

SettleFinish ==
  /\ settlement.tx # None /\ settlement.moves = {}
  /\ settled' = IF SettlementHolds(settlement.tx) THEN settled \cup {settlement.tx} ELSE settled
  /\ settlement' = AtRest
  /\ UNCHANGED <<library, master, private, control, finalizer, reader, operator,
                 receipts, verified, bounds, history>>

SettleEnds ==
  /\ settlement # AtRest /\ Trouble
  /\ settlement' = AtRest
  /\ UNCHANGED <<library, master, private, control, finalizer, reader, operator,
                 published, runs, history>>

---------------------------------------------------------------------------
(* Whoever owns the library *)

\* A record is edited or created by hand, and later indexed.
Edit(t) ==
  /\ Trouble
  /\ library' = [library EXCEPT ![t] = Owned(trouble')]
  /\ UNCHANGED <<master, private, control, finalizer, reader, operator, published,
                 settlement, runs, history>>

Reindex ==
  /\ master # Present
  /\ master' = Present
  /\ UNCHANGED <<library, private, control, finalizer, reader, operator, published,
                 settlement, bounds, history>>

---------------------------------------------------------------------------
Prepare(f) ==
  \E c \in Candidate :
    Take(f, c) \/ Hold(f, c) \/ \E a \in Answers : PrepareNew(f, c, a) \/ PrepareUpdate(f, c, a)
Finalization(f) ==
  \/ Prepare(f) \/ WriteManifest(f) \/ WriteUpdates(f) \/ WriteValidation(f) \/ Seal(f)
  \/ Overtaken(f) \/ \E g \in Finalizer \ {f} : Collide(f, g)
Plan == ReadNext \/ MissPlan \/ StorePlan
Operate == Accept \/ Gate \/ Authorize \/ PublishBatch
Verify == \E r \in receipts : VerifyPublication(r)
Settle == (\E r \in receipts : SettlePlan(r)) \/ (\E m \in settlement.moves : MoveExact(m)) \/ SettleFinish

BatchNext ==
  \/ \E f \in Finalizer : FinalizeStart(f) \/ Finalization(f) \/ FinalizeEnds(f)
  \/ Plan \/ Operate \/ Verify
  \/ Settle \/ (\E m \in settlement.moves : MoveHalf(m)) \/ SettleEnds
  \/ (\E t \in Target : Edit(t)) \/ Reindex

BatchSpec == BatchInit /\ [][BatchNext]_batchVars

\* A started run goes on, and a committed publication is verified and settled:
\* the operator who published it runs those programs until they succeed.
FairBatchSpec ==
  /\ BatchSpec
  /\ WF_batchVars(\E f \in Finalizer : Finalization(f))
  /\ WF_batchVars(Verify) /\ WF_batchVars(Settle)

---------------------------------------------------------------------------
(* Properties *)

\* A stored plan is made of files that one run wrote, all four, although the runs
\* rewrite them one by one, give up half way, and the planner reads them one by one:
\* unless the run that sealed them was overlapped by another, it is its own.
NoMixedRuns ==
  LET tx == store[PlanKey]
  IN tx # None =>
       /\ tx.items = ItemsOf(tx.batch) /\ tx.master = tx.batch.master
       /\ tx.batch \in sealed
       /\ tx.batch \in made \/ tx.batch \in shared

\* What candidate_finalize_local.py:14-16 claims of overlapping runs: a plan is made of
\* what one of them wrote.  It need not be, as Seal takes the files as they are.
OverlapRejected ==
  store[PlanKey] # None /\ Active = {} => store[PlanKey].batch \in made

\* A publication writes what the operator accepted, item by item, and every
\* record it changes was rendered from the very bytes it replaces: no edit made
\* since is lost.
PublishedAsAccepted ==
  [][\A r \in receipts' \ receipts :
       /\ [batch |-> r.tx.batch, items |-> r.tx.items] \in accepted
       /\ \A t \in Target : library'[t] # library[t] => library'[t].base = library[t]]_batchVars

ArchivedUnder(c) == {a.tx : a \in {b \in audit : b.key = CandidateKey(c) /\ b.bytes = Page(c)}}

\* A candidate is never lost: it waits in READY_FOR_CURATION or is archived under
\* a verified transaction that published it, and no single failure archives it
\* under two; settled means archived, with everything that was prepared for it.
CandidateKept ==
  /\ \A c \in Candidate :
       /\ store[CandidateKey(c)] = Page(c) \/ ArchivedUnder(c) # {}
       /\ \A tx \in ArchivedUnder(c) : tx \in verified /\ \E i \in tx.items : i.c = c
       /\ trouble <= 1 => Cardinality(ArchivedUnder(c)) <= 1
  /\ \A tx \in settled : \A k \in KeysOf(tx) \cup {PlanKey} : Archived(tx, k) # {}

\* What only a human can put right: the library is no longer the published one,
\* the stored plan is another one, or a late finalizer run left a private file
\* that differs from the archived one.
Disturbed(r) ==
  \/ ~Accepted(r)
  \/ store[PlanKey] \notin {None, r.tx}
  \/ \E k \in KeysOf(r.tx) \cup {PlanKey} : ~Movable(r.tx, k)

\* Every publication is settled, whatever stage died halfway and how often it is
\* run again, unless it is disturbed.
Settles ==
  []<>(\A r \in receipts : r.tx \in settled \/ Disturbed(r))
=============================================================================
