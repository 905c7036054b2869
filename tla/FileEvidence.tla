---------------------------- MODULE FileEvidence ----------------------------
(***************************************************************************)
(* How the evidence of a READY package becomes a candidate.  The end of an    *)
(* ingest run (workflow) and stage16b_real_item.py on the operator's machine  *)
(* (operator) both run ready_evidence_bridge.py, each at its own time: it      *)
(* writes one envelope for each item of the handoff and then the index.  The   *)
(* operator then has file_evidence_candidate_bridge.py turn one indexed        *)
(* package into a candidate, or file_evidence_semantic_batch.py plan them all. *)
(* Packages of an older pipeline have no summary and no record of today's     *)
(* form; the operator's legacy_ready_evidence_rebuild.py and                  *)
(* legacy_ready_backfill.py give them both.                                   *)
(*                                                                          *)
(* The READY index, the handoff and the curator are CurationSync's; here each   *)
(* is one step.  What becomes of a candidate is CandidateCycle's.               *)
(***************************************************************************)
EXTENDS Naturals, Sequences

CONSTANTS
  Package,
  RevOf,       \* revision_key of the summaries each package has in turn (it knows their
               \* size, not their text); how many there are is a bound
  Legacy,      \* packages that an older pipeline has left without a summary
  MaxRuns,     \* bound on the operator's runs
  MaxFaults    \* bound on failed calls and on runs that die

Content == UNION {DOMAIN RevOf[p] : p \in Package}
Rev == UNION {{RevOf[p][c] : c \in DOMAIN RevOf[p]} : p \in Package}

ASSUME EvidenceAssumption ==
  /\ RevOf \in [Package -> Seq(Nat \ {0})]
  /\ Legacy \subseteq Package
  /\ MaxRuns \in Nat /\ MaxFaults \in Nat

Actor == {"workflow", "operator"}
Item == [id : Package, rev : Rev, sha : Content]   \* a line of the index
None == [id |-> "none"]

VARIABLES
  evidence,   \* evidence-summary.json of each package: which text it has, 0 for none
  record,     \* process-record.json of each package: none, old (of no valid form), current
              \* (an ingest's) or backfilled
  backups,    \* LEGACY_BACKFILL: packages whose old record was put aside
  offer,      \* handoff: the revision it offers of each package, 0 for none
  closed,     \* the revision of each package that the curator decided last
  envelope,   \* FILE_EVIDENCE/<package>.json
  index,      \* FILE_EVIDENCE/index.json
  plan,       \* SEMANTIC_PLANS/<package>.json
  queue,      \* candidates that wait in CHAT_RESEARCH, by candidate_key
  receipts,   \* CANDIDATE_RECEIPTS, likewise
  pc,         \* the step of each actor
  todo,       \* the items each has before it
  made,       \* the envelope each is writing
  prepared,   \* the envelopes each has written
  subject,    \* the package of the operator
  batch, seen,\* the packages a migration has before it, and the record it has read
  item, basis,\* the index line he works on and the envelope he has read
  created,    \* history: candidates that were created, and of which envelope
  lost,       \* history: keys whose candidate left the queue before its receipt was there
  misread,    \* history: whether a failed read was taken for a missing file
  runs, faults

library == <<evidence, record, backups, offer, closed>>
staged == <<envelope, index>>
candidates == <<plan, queue, receipts, created, lost>>
stager == <<todo, made, prepared>>
migration == <<batch, seen>>
bridge == <<subject, item, basis, migration>>
vars == <<library, staged, candidates, pc, stager, bridge, misread, runs, faults>>

Init ==
  /\ evidence = [p \in Package |-> 0]
  /\ record \in {[p \in Package |-> IF p \in L THEN "old" ELSE "none"] : L \in SUBSET Legacy}
  /\ backups = {} /\ batch = {} /\ seen = "none"
  /\ offer = [p \in Package |-> 0] /\ closed = [p \in Package |-> 0]
  /\ envelope = [p \in Package |-> None] /\ plan = [p \in Package |-> None]
  /\ index = {} /\ queue = {} /\ receipts = {} /\ created = {} /\ lost = {}
  /\ pc = [a \in Actor |-> "idle"]
  /\ todo = [a \in Actor |-> {}] /\ made = [a \in Actor |-> None]
  /\ prepared = [a \in Actor |-> {}]
  /\ subject = "none" /\ item = None /\ basis = None
  /\ misread = FALSE /\ runs = 0 /\ faults = 0

Sound == UNCHANGED faults
Fault == faults < MaxFaults /\ faults' = faults + 1
Goto(a, from, to) == pc[a] = from /\ pc' = [pc EXCEPT ![a] = to]

\* The end of a program, with what it had in memory.
Forget(a) ==
  /\ todo' = [todo EXCEPT ![a] = {}]
  /\ made' = [made EXCEPT ![a] = None]
  /\ prepared' = [prepared EXCEPT ![a] = {}]
  /\ IF a = "operator" THEN /\ subject' = "none" /\ item' = None /\ basis' = None
                            /\ batch' = {} /\ seen' = "none"
                       ELSE UNCHANGED bridge

-----------------------------------------------------------------------------
(* Packages arrive or are rebuilt; ready_index.py and curation_handoff.py.    *)

Renewable(p) == evidence[p] < Len(RevOf[p])

Summarized(P) ==
  evidence' = [p \in Package |-> IF p \in P THEN evidence[p] + 1 ELSE evidence[p]]

\* An ingest brings the summary and the record of a package (how its files are
\* written one by one is SourceLifecycle's).
Rebuilt(P) ==
  /\ Summarized(P)
  /\ record' = [p \in Package |-> IF p \in P THEN "current" ELSE record[p]]

StartIngest ==
  /\ Goto("workflow", "idle", "handoff")
  /\ \E P \in SUBSET {p \in Package : Renewable(p)} : Rebuilt(P)
  /\ UNCHANGED <<backups, offer, closed, staged, candidates, stager, bridge, misread, runs,
                 faults>>

Act == runs < MaxRuns /\ runs' = runs + 1

\* What ready_index.py asks of a package.
Complete(p) == evidence[p] > 0 /\ record[p] \in {"current", "backfilled"}

\* The package of an item is made or rebuilt, or it is found complete and only
\* finalized.
Processed(p) ==
  \/ Renewable(p) /\ Rebuilt({p})
  \/ Complete(p) /\ UNCHANGED <<evidence, record>>

\* stage16b_real_item.py routes one file and processes it.
StartItem(p) ==
  /\ Goto("operator", "idle", "handoff") /\ Act
  /\ Processed(p) /\ subject' = p
  /\ UNCHANGED <<backups, offer, closed, staged, candidates, stager, item, basis, migration,
                 misread, faults>>

Pending(p) == Complete(p) /\ closed[p] # RevOf[p][evidence[p]]

OfferAll(unread) ==
  offer' = [p \in Package |->
              IF p \notin unread /\ Pending(p) THEN RevOf[p][evidence[p]] ELSE 0]

\* A package whose listing or record cannot be read is left out of the index.
\* The workflow goes on with the old handoff when the refresh failed; the
\* operator's run ends.
Refresh(a) ==
  /\ pc[a] = "handoff"
  /\ \/ OfferAll({}) /\ pc' = [pc EXCEPT ![a] = "stage"] /\ Sound
     \/ /\ \E unread \in SUBSET Package : unread # {} /\ OfferAll(unread)
        /\ pc' = [pc EXCEPT ![a] = "stage"] /\ Fault
     \/ /\ a = "workflow" /\ pc' = [pc EXCEPT ![a] = "stage"]
        /\ Fault /\ UNCHANGED offer
  /\ UNCHANGED <<evidence, record, backups, closed, staged, candidates, stager, bridge,
                 misread, runs>>

\* The curator decides what the handoff offers.
Close(p) ==
  /\ offer[p] # 0
  /\ closed' = [closed EXCEPT ![p] = offer[p]]
  /\ offer' = [offer EXCEPT ![p] = 0]
  /\ UNCHANGED <<evidence, record, backups, staged, candidates, pc, stager, bridge, misread,
                 runs, faults>>

-----------------------------------------------------------------------------
(* ready_evidence_bridge.py.                                                *)

ReadHandoff(a) ==
  /\ Goto(a, "stage", "next") /\ Sound
  /\ todo' = [todo EXCEPT ![a] = {[id |-> p, rev |-> offer[p]] : p \in {q \in Package : offer[q] # 0}}]
  /\ prepared' = [prepared EXCEPT ![a] = {}]
  /\ UNCHANGED <<library, staged, candidates, made, bridge, misread, runs>>

\* Mutant of MakeEnvelope: an envelope of the revision is not made again.
MakeEnvelopeOnce(a, x) ==
  /\ pc[a] = "next" /\ x \in todo[a] /\ Sound
  /\ todo' = [todo EXCEPT ![a] = @ \ {x}]
  /\ IF envelope[x.id] # None /\ envelope[x.id].rev = x.rev
     THEN /\ prepared' = [prepared EXCEPT ![a] = @ \cup {envelope[x.id]}]
          /\ UNCHANGED <<made, pc>>
     ELSE /\ made' = [made EXCEPT ![a] = [id |-> x.id, rev |-> x.rev, sha |-> evidence[x.id]]]
          /\ pc' = [pc EXCEPT ![a] = "write"] /\ UNCHANGED prepared
  /\ UNCHANGED <<library, staged, candidates, bridge, misread, runs>>

\* The summary is read now: it may be a later one than the handoff offers.  An
\* item whose summary cannot be read is held, the others go on.
MakeEnvelope(a, x) ==
  /\ pc[a] = "next" /\ x \in todo[a]
  /\ todo' = [todo EXCEPT ![a] = @ \ {x}]
  /\ \/ /\ made' = [made EXCEPT ![a] = [id |-> x.id, rev |-> x.rev, sha |-> evidence[x.id]]]
        /\ pc' = [pc EXCEPT ![a] = "write"] /\ Sound
     \/ Fault /\ UNCHANGED <<made, pc>>
  /\ UNCHANGED <<library, staged, candidates, prepared, bridge, misread, runs>>

WriteEnvelope(a) ==
  /\ Goto(a, "write", "verify") /\ Sound
  /\ envelope' = [envelope EXCEPT ![made[a].id] = made[a]]
  /\ UNCHANGED <<library, index, candidates, stager, bridge, misread, runs>>

\* write_remote reads back what it wrote; another text there ends the program.
VerifyEnvelope(a) ==
  /\ pc[a] = "verify" /\ Sound
  /\ IF envelope[made[a].id] = made[a]
     THEN /\ prepared' = [prepared EXCEPT ![a] = @ \cup {made[a]}]
          /\ made' = [made EXCEPT ![a] = None]
          /\ pc' = [pc EXCEPT ![a] = "next"]
          /\ UNCHANGED <<todo, bridge>>
     ELSE pc' = [pc EXCEPT ![a] = "idle"] /\ Forget(a)
  /\ UNCHANGED <<library, staged, candidates, misread, runs>>

WriteIndex(a) ==
  /\ Goto(a, "next", "verify index") /\ Sound
  /\ todo[a] = {}
  /\ index' = prepared[a]
  /\ UNCHANGED <<library, envelope, candidates, stager, bridge, misread, runs>>

\* The operator goes on to his candidate.
VerifyIndex(a) ==
  /\ pc[a] = "verify index" /\ Sound
  /\ IF a = "operator" /\ index = prepared[a]
     THEN /\ pc' = [pc EXCEPT ![a] = "select"]
          /\ prepared' = [prepared EXCEPT ![a] = {}]
          /\ UNCHANGED <<todo, made, bridge>>
     ELSE pc' = [pc EXCEPT ![a] = "idle"] /\ Forget(a)
  /\ UNCHANGED <<library, staged, candidates, misread, runs>>

-----------------------------------------------------------------------------
(* file_evidence_semantic_batch.py.                                         *)

StartPlans ==
  /\ Goto("operator", "idle", "plan") /\ Act /\ Sound
  /\ todo' = [todo EXCEPT !["operator"] = index]
  /\ UNCHANGED <<library, staged, candidates, made, prepared, bridge, misread>>

BindingMatches(x) == envelope[x.id] = x

\* An envelope that is not the one of the index is held; whatever the model
\* answers there is a plan, if only NEEDS_REVIEW.
PlanItem(x) ==
  /\ pc["operator"] = "plan" /\ x \in todo["operator"] /\ Sound
  /\ todo' = [todo EXCEPT !["operator"] = @ \ {x}]
  /\ plan' = IF BindingMatches(x) THEN [plan EXCEPT ![x.id] = x] ELSE plan
  /\ UNCHANGED <<library, staged, queue, receipts, created, lost, pc, made, prepared,
                 bridge, misread, runs>>

EndPlans ==
  /\ Goto("operator", "plan", "idle") /\ Sound
  /\ todo["operator"] = {}
  /\ UNCHANGED <<library, staged, candidates, stager, bridge, misread, runs>>

-----------------------------------------------------------------------------
(* file_evidence_candidate_bridge.py.                                       *)

At(step) == pc["operator"] = step
To(step) == pc' = [pc EXCEPT !["operator"] = step] /\ UNCHANGED stager
Hold == pc' = [pc EXCEPT !["operator"] = "idle"] /\ Forget("operator")

\* The bridge may be started on its own, too.
StartBridge(p) ==
  /\ At("idle") /\ Act /\ Sound
  /\ subject' = p /\ To("select")
  /\ UNCHANGED <<library, staged, candidates, item, basis, migration, misread>>

Select ==
  /\ At("select") /\ Sound
  /\ \/ \E x \in index : x.id = subject /\ item' = x /\ To("envelope") /\ UNCHANGED <<subject, basis, migration>>
     \/ (\A x \in index : x.id # subject) /\ Hold
  /\ UNCHANGED <<library, staged, candidates, misread, runs>>

ReadEnvelope ==
  /\ At("envelope") /\ Sound
  /\ basis' = envelope[subject] /\ To("evidence")
  /\ UNCHANGED <<library, staged, candidates, subject, item, migration, misread, runs>>

\* Mutant of Bound: the envelope is not compared with the line of the index.
BoundUncompared == evidence[subject] = item.sha

\* bound_envelope: index, envelope and the summary in READY are of one text.
Bound == basis = item /\ evidence[subject] = item.sha

ReadEvidence ==
  /\ At("evidence") /\ Sound
  /\ IF Bound THEN To("receipt") /\ UNCHANGED bridge ELSE Hold
  /\ UNCHANGED <<library, staged, candidates, misread, runs>>

\* Mutant of ReadReceipt: receipts are not looked for.
ReadReceiptBlind ==
  /\ At("receipt") /\ Sound
  /\ To("existing")
  /\ UNCHANGED <<library, staged, candidates, bridge, misread, runs>>

\* A receipt says that the candidate was created.  One that cannot be read counts
\* as missing.
ReadReceipt ==
  /\ At("receipt")
  /\ \/ item \in receipts /\ Hold /\ Sound /\ UNCHANGED misread
     \/ item \notin receipts /\ To("existing") /\ UNCHANGED <<bridge, misread>> /\ Sound
     \/ item \in receipts /\ Fault /\ misread' = TRUE /\ To("existing") /\ UNCHANGED bridge
  /\ UNCHANGED <<library, staged, candidates, runs>>

\* A candidate that a stopped run has left gets its receipt.
ReadExisting ==
  /\ At("existing")
  /\ \/ item \in queue /\ To("seal") /\ Sound /\ UNCHANGED misread
     \/ item \notin queue /\ To("assess") /\ Sound /\ UNCHANGED misread
     \/ item \in queue /\ Fault /\ misread' = TRUE /\ To("assess")
  /\ UNCHANGED <<library, staged, candidates, bridge, runs>>

\* What stands between the evidence and a candidate.  Each check takes its time and may
\* hold the package; how it comes out is left open.
Check(from, to) ==
  /\ At(from) /\ Sound
  /\ (To(to) /\ UNCHANGED bridge) \/ Hold
  /\ UNCHANGED <<library, staged, candidates, misread, runs>>

\* The usable channels of the evidence suffice; a public source answers; the local
\* model answers; its answer keeps the contract and proposes one subject that the
\* evidence or the source names; the text is a valid candidate.
AssessEvidence == Check("assess", "source")
VerifySource == Check("source", "ask")
CallModel == Check("ask", "validate")
ValidatePayload == Check("validate", "render")
Render == Check("render", "create")

\* Storage.create never replaces a file; the readback shows whether the one that is
\* there happens to have the same text.
Create ==
  /\ At("create") /\ Sound
  /\ \/ /\ item \notin queue
        /\ queue' = queue \cup {item}
        /\ created' = created \cup {[key |-> item, basis |-> basis]}
        /\ To("seal") /\ UNCHANGED bridge
     \/ /\ item \in queue /\ UNCHANGED <<queue, created>>
        /\ (To("seal") /\ UNCHANGED bridge) \/ Hold
  /\ UNCHANGED <<library, staged, plan, receipts, lost, misread, runs>>

\* So with the receipt: one that is there already stays.
Seal ==
  /\ At("seal") /\ Sound
  /\ receipts' = receipts \cup {item} /\ lost' = lost \ {item}
  /\ Hold
  /\ UNCHANGED <<library, staged, plan, queue, created, misread, runs>>

-----------------------------------------------------------------------------
(* legacy_ready_evidence_rebuild.py --apply.                                *)

StartRebuild ==
  /\ At("idle") /\ Act /\ Sound
  /\ batch' = {p \in Legacy : evidence[p] = 0} /\ To("rebuild")
  /\ UNCHANGED <<library, staged, candidates, subject, item, basis, seen, misread>>

\* The summary is put where none was when the packages were listed.  One that cannot
\* be made is counted, and the others go on.
RebuildEvidence(p) ==
  /\ At("rebuild") /\ p \in batch /\ Sound
  /\ (Renewable(p) /\ Summarized({p})) \/ UNCHANGED evidence
  /\ batch' = batch \ {p}
  /\ UNCHANGED <<record, backups, offer, closed, staged, candidates, pc, stager, subject, item,
                 basis, seen, misread, runs>>

EndMigration ==
  /\ At("rebuild") \/ At("audit")
  /\ batch = {} /\ Hold /\ Sound
  /\ UNCHANGED <<library, staged, candidates, misread, runs>>

-----------------------------------------------------------------------------
(* legacy_ready_backfill.py --apply.                                        *)

StartBackfill ==
  /\ At("idle") /\ Act /\ Sound
  /\ batch' = Legacy \cup {p \in Package : evidence[p] > 0} /\ To("audit")
  /\ UNCHANGED <<library, staged, candidates, subject, item, basis, seen, misread>>

\* A record that cannot be read counts as missing.
ReadRecord(p) ==
  \/ seen' = record[p] /\ Sound /\ UNCHANGED misread
  \/ record[p] # "none" /\ seen' = "none" /\ Fault /\ misread' = TRUE

\* Mutant of Audit: the old record is not put aside.
AuditUnsaved(p) ==
  /\ At("audit") /\ p \in batch
  /\ ReadRecord(p)
  /\ \/ /\ seen' \notin {"current", "backfilled"} /\ evidence[p] > 0
        /\ subject' = p /\ To("migrate") /\ UNCHANGED batch
     \/ UNCHANGED subject /\ batch' = batch \ {p} /\ To("audit")
  /\ UNCHANGED <<library, staged, candidates, item, basis, runs>>

\* Packages that have a valid record are left, and so are those without a summary or
\* another file, or of a kind that their files do not tell.
Audit(p) ==
  /\ At("audit") /\ p \in batch
  /\ ReadRecord(p)
  /\ \/ /\ seen' \notin {"current", "backfilled"} /\ evidence[p] > 0
        /\ subject' = p /\ UNCHANGED batch
        /\ To(IF seen' = "old" THEN "backup" ELSE "migrate")
     \/ UNCHANGED subject /\ batch' = batch \ {p} /\ To("audit")
  /\ UNCHANGED <<library, staged, candidates, item, basis, runs>>

\* What is put aside is the record that was read.
Backup ==
  /\ At("backup") /\ Sound
  /\ backups' = backups \cup {subject} /\ To("migrate")
  /\ UNCHANGED <<evidence, record, offer, closed, staged, candidates, bridge, misread, runs>>

\* The new record goes to the package, then to the central folder; a run that stops in
\* between leaves the second to reconcile.py (QueueReconciliation).
Migrate ==
  /\ At("migrate") /\ Sound
  /\ record' = [record EXCEPT ![subject] = "backfilled"]
  /\ batch' = batch \ {subject} /\ subject' = "none" /\ seen' = "none" /\ To("audit")
  /\ UNCHANGED <<evidence, backups, offer, closed, staged, candidates, item, basis, misread,
                 runs>>

-----------------------------------------------------------------------------

\* The candidate pipeline takes a candidate up.
Take(key) ==
  /\ queue' = queue \ {key}
  /\ lost' = IF key \in receipts THEN lost ELSE lost \cup {key}
  /\ UNCHANGED <<library, staged, plan, receipts, created, pc, stager, bridge, misread, runs,
                 faults>>

\* A call that ends its program fails, or the run dies.
Die(a) ==
  /\ pc[a] # "idle" /\ pc' = [pc EXCEPT ![a] = "idle"] /\ Forget(a) /\ Fault
  /\ UNCHANGED <<library, staged, candidates, misread, runs>>

Stage(a) ==
  \/ Refresh(a) \/ ReadHandoff(a) \/ WriteEnvelope(a) \/ VerifyEnvelope(a)
  \/ WriteIndex(a) \/ VerifyIndex(a)
  \/ \E x \in todo[a] : MakeEnvelope(a, x)

Bridge ==
  \/ Select \/ ReadEnvelope \/ ReadEvidence \/ ReadReceipt \/ ReadExisting
  \/ AssessEvidence \/ VerifySource \/ CallModel \/ ValidatePayload \/ Render
  \/ Create \/ Seal

Next ==
  \/ StartIngest
  \/ \E p \in Package : StartItem(p) \/ StartBridge(p) \/ Close(p)
  \/ \E a \in Actor : Stage(a) \/ Die(a)
  \/ StartPlans \/ EndPlans \/ \E x \in todo["operator"] : PlanItem(x)
  \/ StartRebuild \/ StartBackfill \/ EndMigration \/ Backup \/ Migrate
  \/ \E p \in batch : RebuildEvidence(p) \/ Audit(p)
  \/ Bridge
  \/ \E key \in queue : Take(key)

Spec == Init /\ [][Next]_vars

\* The ingest workflow runs for ever, and what was started goes on.
FairSpec == Spec /\ WF_vars(StartIngest \/ Stage("workflow"))

-----------------------------------------------------------------------------
(* Properties.                                                              *)

Step ==
  {"idle", "handoff", "stage", "next", "write", "verify", "verify index", "plan", "select",
   "envelope", "evidence", "receipt", "existing", "assess", "source", "ask",
   "validate", "render", "create", "seal", "rebuild", "audit", "backup", "migrate"}

TypeOK ==
  /\ evidence \in [Package -> Content \cup {0}]
  /\ record \in [Package -> {"none", "old", "current", "backfilled"}]
  /\ seen \in {"none", "old", "current", "backfilled"}
  /\ backups \subseteq Package /\ batch \subseteq Package
  /\ offer \in [Package -> Rev \cup {0}] /\ closed \in [Package -> Rev \cup {0}]
  /\ \A p \in Package : {envelope[p], plan[p]} \subseteq Item \cup {None}
  /\ index \subseteq Item /\ queue \subseteq Item /\ receipts \subseteq Item
  /\ lost \subseteq Item /\ {c.key : c \in created} \subseteq Item
  /\ pc \in [Actor -> Step]
  /\ \A a \in Actor : prepared[a] \subseteq Item /\ made[a] \in Item \cup {None}
  /\ subject \in Package \cup {"none"} /\ {item, basis} \subseteq Item \cup {None}
  /\ misread \in BOOLEAN /\ runs \in 0..MaxRuns /\ faults \in 0..MaxFaults

\* A candidate is made of the evidence it names, although the envelopes and the index
\* are rewritten by two programs at once.
BoundToEvidence == \A c \in created : c.basis = c.key

\* The same evidence is not made a candidate twice: only when its first candidate
\* left the queue before a stopped run had its receipt written, or a read failed.
CandidateOnce ==
  [][\A key \in queue' \ queue :
       key \in {c.key : c \in created} => key \in lost \/ misread]_vars

\* Every summary of a complete package that the curator has not decided on gets into
\* the index, under its own revision, unless a later one replaces it.
Indexed ==
  \A p \in Package : \A c \in DOMAIN RevOf[p] :
    evidence[p] = c /\ Complete(p) ~>
      \/ evidence[p] # c \/ closed[p] = RevOf[p][c]
      \/ [id |-> p, rev |-> RevOf[p][c], sha |-> c] \in index

\* A line of the index names the revision of its summary.
RevisionNamed == \A x \in index : x.rev = RevOf[x.id][x.sha]

\* The migration replaces no old record that it has not put aside, unless it could not
\* read it.
OldKept ==
  [][\A p \in Package :
       record[p] = "old" /\ record'[p] = "backfilled" => p \in backups \/ misread]_vars

\* It leaves an ingest's record alone.
CurrentKept ==
  [][\A p \in Package : record[p] = "current" => record'[p] = "current"]_vars
=============================================================================
