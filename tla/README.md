# Verification of Technology-Library-Ingestor

TLA+ models of the protocols of this repository: the production coordinator, the
controlled publication with its recovery, the intake of new files, the life of a
source from its queue to its purge, the cloud cycle, the two stores, the curation
of packages, the pipeline of candidates, and the evidence of files. TLC checks
them on small instances; TLAPS proves the central safety properties of all of them
for every value of the constants.

    tlc -workers 2 -config MCCoordinatorGit.cfg MCCoordinator
    tlapm CoordinatorProofs.tla

## The system

The repository is a set of short-lived programs run by GitHub Actions. They
share nothing but remote stores: a private Drive reached through `rclone`, and
one Git ref (or one Drive file) that serves as a lock. There are no threads.
What is concurrent is whole processes, and what fails is a process (killed,
cancelled, timed out) or a remote call (not done, done but not acknowledged,
done late).

| Component | State it keeps | Operations | What makes it correct |
|---|---|---|---|
| Production coordinator (`candidate_production_coordinator.py`) | one JSON document: FREE/ACTIVE, owner identity, generation, `canonical_write_performed`, release reason | `acquire`, `mark_canonical_write_started`, `release_prewrite_abort`, `release_committed`, `release_recovered` | one owner at a time; an owner past the write boundary is never released as a clean abort; no stale write |
| Controlled publication (`candidate_controlled_publish.py`, `candidate_transaction_prewrite_arm.py`, the mutation, index, receipt and commit engines) | canonical library files, recovery journal, snapshots, receipt | preflight, acquire, revalidate, capture, arm, open, write, verify, commit, release, roll back | readers outside a lease see whole committed publications only; a committed publication is final |
| Recovery (`candidate_production_recover.py`, `candidate_production_recovery_engine.py`, `candidate_committed_reconciliation.py`) | the same | classify a stopped run; abort, roll back or release it | every lease is returned; rollback is exact |
| Cloud cycle E1/E2/E3 (`e123_cloud_cycle.py`, `e1_*`, `e2_*`, `e3_*`) | batch workspace, private Drive receipts, the coordinator | recover first, select, extract, decide, commit | no source is processed twice or lost; a stopped cycle can go on |
| Zero-touch intake (`zero_touch_intake.py`, `intake_daily_session.py`) | per-item ledger, daily session document, queue copies | baseline, snapshot, worker, continuation | every dropped item reaches the queue, once; no endless dispatch |
| Ingest core and lanes (`media_router.py`, `workload_plan.py`, `*_bridge.py`, `*_ingest.py`, `batch_ingest.py`) | queue folders, packages, checkpoints | plan, stage, ingest, upload, settle | an input leaves the queue only with a verified package |
| Queue reconciliation and retention (`reconcile*.py`, `retention_cleanup.py`) | queue folders, packages, retention manifests | reconcile, move, delete | nothing is deleted that is not safely stored |
| Storage replicas (`storage_*.py`, `standby_readiness.py`) | two accounts | preflight, failover, replicate, reconcile | the chosen account is fresh; a merge loses nothing |
| Curation (`curation_*.py`, `library_publish.py`, `library_index_build.py`, `ready_index.py`) | READY index, STATE, handoff, decisions, library records, receipts | index, hand off, publish, rebuild, apply | holds stay, records keep their owner, nothing is analyzed before it is published |
| Candidate cycle (`candidate_local_cycle.py`, `candidate_queue.py`, `candidate_validate.py`, `candidate_semantic_*.py`, `candidate_resolution_apply.py`, `candidate_split_*.py`) | candidate folders, queue index, proposals, reviews, split plans | queue, validate, review, resolve, split | what is finalized was reviewed, no text is lost |
| Finalizer to settlement (`candidate_finalize_local.py`, `candidate_transaction_prepare.py`, `candidate_stage_1*.py`) | four control files, artifacts, plan, authorization, receipts | render, seal, plan, accept, authorize, publish, verify, settle | plans are of one batch; a decision is applied once, to the bytes it was made for |
| File evidence and legacy migration (`ready_evidence_bridge.py`, `file_evidence_*.py`, `legacy_ready_*.py`, `stage16b_*.py`) | envelopes, their index, plans, candidate receipts, process records | stage, plan, make a candidate, rebuild, backfill | a candidate is made of the evidence it names, once; old records are put aside |
| Metrics, guards, reports; probes, fixtures, proofs | generated files | summarise; exercise the others | no state of their own |

`PROJECT.json` lists every component with its source files, and the hazards with
the line each one bites at.

How the parts interact. The intake copies dropped files into queues; the lanes turn
each into a package in READY_FOR_ANALYSIS; the curation offers packages to the curator
and publishes what he writes; the file evidence turns packages into candidates, which
the candidate cycle reviews and the finalizer prepares for a controlled publication
under the coordinator's lease. The cloud cycle is a way of its own from dropped files
to the library, under a lease of its own. The stores lie beneath all of them. Each of
these interfaces is a folder or a document; where a model stops at one, the other side
is a step of it that may happen at any time.

## Modules

| Module | Models | Composes |
|---|---|---|
| `Lease` | what the coordinator promises | |
| `Coordinator`, `CoordinatorProofs` | `candidate_production_coordinator.py` | implements `Lease` |
| `AtomicPublication` | what a reader of the library is promised | |
| `ControlledPublish`, `PublicationProofs` | a publication, its rollback and its recovery | `Lease`; implements `AtomicPublication` |
| `IntakeSession`, `IntakeSessionProofs` | the daily session and its workers | |
| `SourceStore`, `QueueReconciliation`, `LaneBridges`, `RetentionCleanup` | the folders and records of the ingest, and the three programs that work on them | |
| `SourceLifecycle`, `SourceLifecycleProofs` | the ingest workflow | the four above |
| `CloudCycle`, `CloudCycleProofs` | `e123_cloud_cycle.py` with E1, E2 and E3 | |
| `StandbyStorage`, `StandbyStorageProofs` | the primary store, its standby, failover and failback | |
| `CurationSync`, `CurationSyncProofs` | the curation of packages | |
| `CandidateCycle`, `CandidateProofs` | from CHAT_RESEARCH to the finalizer, and the split | |
| `CandidateBatch`, `PublicationProofs` | from the finalizer to settlement | |
| `FileEvidence`, `CandidateProofs` | from a READY package to a candidate; the legacy migrations | |

The `MC` modules hold the constants of the TLC instances.

`Lease` is the abstract lease: acquire, cross the write boundary, abort before
it, finish after it. Every step is atomic.

`Coordinator` is `candidate_production_coordinator.py` call by call. A run reads
the document (`ReadRefused`, `ReadResumed`, `ReadAdmitted`), re-reads the base
(`Prepare`), pushes (`SendPush`), is answered, and reads the result back
(`Verified`); any error or timeout is `Fail`. A push is a message in `inflight`:
`Apply` lands it, `Reject` refuses it by force-with-lease, and it may land long
after its sender has gone. `Backend` selects the Git ref or the Drive file, which
compares at the client and writes without a condition. `IdentityOf` lets several
runs present one identity. The version token (commit id or SHA-256) is the
document itself. `ref` is the remote document, `call` the local variables
`base_sha`/`current`/`next_state`, `holds` and `marked` record what a caller was
told.

`AtomicPublication`: outside a publication a reader sees the result of the last
committed one.

`ControlledPublish` follows a publication from preflight to release with its
rollback, the recovery CLI and the reconciliation of a committed run. Each
program step that changes something durable is one action, in the program's
order. Files are numbered in write order, records first and the master index
last; their content is the run that wrote it. The lease is the atomic one of
`Lease`, used through `INSTANCE`, which `Coordinator` is shown to implement; the
answer of each of its steps can still be lost. `Remote` is the shape of every remote
call: it takes effect and is answered, or the answer is lost with or without the
effect. Somebody else may write to the library at any moment (`MaxForeign`).

`IntakeSession` is the daily session of the intake with the chain of workers
that works it off. `StartSession`, `ContinueSession` and `FinishSession` are
`run_session` before and after the worker; the actions from `ListInbox` to
`Complete` are one pass of `process` over one item, in its order: receipt and
lease, check of the source, copy, check of the copy, completion. A version is
an item with a revision; `Content` says which revisions have the same bytes,
because the code tells a revision by its time and a copy by its size and hashes.
`trigger` is the concurrency group with its one pending run, which `Displace`
throws away when another is asked for; the baseline may be asked for until its
marker is there. The owner edits the inbox (`Edit`) and the ingest workflow empties
the queues (`Ingest`) between any two steps. `Misses` is `stat`: a stat that fails is
taken for a missing object when the directory above can be listed; `Misread` says
which documents this may happen to.

`SourceLifecycle` is one run of the ingest workflow after the other. `SourceStore`
holds the folders and the records: `loc` says where a file is and under which name,
`record` and `packageRecord` are the two copies of what the code believes. Moves are
by path: `PutAt` moves whatever lies there and replaces whatever lies at the
destination; `SafeDestination` looks before a move and appends the package id. A move
that fails may have taken effect when the instance allows it. `QueueReconciliation` is
`reconcile_queues.py`: it restores lost central records (`StartRun`) and decides on
each record (`SkipRecord` to `MarkQueued`). `LaneBridges` routes (`Arrive`), chooses
the bridges (`Plan`, with one of the two transcribing lanes per run), and takes the
items of each in the order of `drive-ingest.yml`, at most `MaxBatch` of a queue, through
`process_one` (`PickItem` to `Log`). Text and documents share a bridge and are one
lane. The bridges of links, images and audio fail when an item failed and the job ends
with them; the others go on. An extraction that raises what nobody catches ends its
process: the whole batch of a lane that extracts in process, one item elsewhere.
`RetentionCleanup` is `retention_cleanup.py --apply` (`Quarantine`, `Purge`,
`MarkCleaned`).

`CloudCycle` is `run_cycle` step by step: it first settles what the last cycle left
(`recover_first`), then extracts, receives, builds a lot, has it decided, and publishes
it under the private lease, one remote write after the other. One cycle runs at a time.
`Stop` kills it between any two writes; a write of uncertain outcome ends the cycle
too, which is a `Stop` before or after it. The model may answer anything (`Reply`).

`StandbyStorage` is a run of the workflow with the store in its centre: reconcile
(failback), select, lock, replicate before and after the work. A scope is copied in one
step that may leave any part undone, a marker says how old a copy is, and a lock on both
stores says that the standby is authoritative.

`CurationSync` has the two workflows of the curation, which exclude each other, and
the curator, who excludes nobody. A record's path comes from its package (`Target`), so
that two packages may claim one path. `misread` remembers files whose failed read was
taken for their absence, as these programs do.

`CandidateCycle` runs the five programs of `candidate_local_cycle.py` in order and
beside them the operator's split, both in steps that may stop and be run again. A
candidate is its text (the code's digest); the owner may put another text under a name
at any time. The answer of the model is open within `Answers`; `ReviewOf` takes it
through `review_candidate`, `apply_scope_audit` and the checks of the evidence to a
decision, and `Destination` to a folder. A move is a copy and a deletion with a check
of the digest at either side. `Perils` names what else may go wrong: `half` is a move
that copied and did not delete, `misread` a failed read that is taken for a missing file,
and `race` whatever comes between a check and the step that rests on it (`Unguarded` for
the owner, `Deleting` for a split, which may write a child under the very name the cycle
has checked and is about to delete).

`CandidateBatch` goes on from there. A finalizer overwrites four control files one
after the other. Nothing keeps two of them apart, so each of `Finalizer` has a run of its
own: it may find that another has replaced what it wrote (`Overtaken`), lose its manifest
in the one staging file they share (`Collide`), or seal what the other wrote (`Seal` takes
the files as they are; its reads and its write are one step, and so are the files of one
candidate, whose content the batch is not about). Runs are anonymous: a new one takes the
first free place. What a run has written is kept in `made`, what it sealed in `sealed`,
and in `shared` if another run overlapped it. The planner reads the files one by one; acceptance, readiness,
authorization, publication, stages 13 and 14 and stage 15 are programs the operator
runs by hand at any time. Publication is one step (`ControlledPublish` takes it apart),
settlement is one move of a private file after the other, each when those before it have
arrived (`Due`).

`FileEvidence` has two actors, the end of an ingest run and the operator, that both
write the envelopes of the handoff and then their index; the operator also makes plans
and candidates and runs the two legacy migrations, `legacy_ready_evidence_rebuild.py`
(`StartRebuild`, `RebuildEvidence`) and `legacy_ready_backfill.py` (`StartBackfill`,
`ReadRecord`, `Audit`, `Backup`, `Migrate`). `RevOf` gives the revision key of each
summary of a package, which knows its size and not its text: two summaries may share it.

Mutants: next to some definitions stands a variant of it with a plausible bug;
no action uses it. A property of a run is only kept if replacing the definition
by its variant makes TLC report the property.

## Properties and runs

The runs of `PROJECT.json`:

| Run | Instance | Properties |
|---|---|---|
| `coordinator_git` | two concurrent runs of one identity over Git, pushes that land late | `HolderExact`, `BoundaryExact`, `LeaseImplemented` |
| `publish_safety` | two runs, two records (one created), two indexes, four faults, one foreign write | `RollbackExact`, `PublicationAtomic`, `CommittedIsFinal` |
| `publish_recovery` | updates only, faults from the durable journal on, fair recovery | `BoundaryAgreement`, `LeaseReturned` |
| `intake` | two items of two revisions, one edit, one fault, fair | `CompletedDelivered`, `BaselineNeverQueued`, `NoDispatchLoop`, `Drained` |
| `lifecycle_safety` | two sources in six pairs of lanes and kinds, two faults, failed moves that may be done, fair | `MovedIsPackaged`, `PurgedInTime`, `RetriesEnd`, `QueuesDrain` |
| `cloud_cycle` | four files, one that crashes the decoder, one read by chance, two deaths, fair | `LeavesSettled`, `AppliedOnce`, `LotsDisjoint`, `SourcesRead`, `LotsSettled` |
| `standby_storage` | two files, four faults, fair | `Kept`, `WorkKept`, `FailoverFresh`, `Processed` |
| `curation_sync` | two packages of two revisions on one path, two acts of the curator, one fault, fair | `HoldKept`, `OwnerKept`, `AnalyzedPublished`, `Noticed` |
| `curation_revision` | the same, without fairness | `DecidedRevision` is violated |
| `candidate_batch` | one new and one updated record, two finalizer runs that may overlap, or one death, failed call or foreign edit, fair | `NoMixedRuns`, `CandidateKept`, `PublishedAsAccepted`, `Settles` |
| `candidate_cycle` | three names, four texts, two files put by the owner, a split, one failure, fair | `Justified`, `NothingLost`, `Reviewed` |
| `file_evidence` | one legacy package of two summaries of one size, two operator runs, two faults, fair | `BoundToEvidence`, `CandidateOnce`, `OldKept`, `Indexed` |

Coordinator: `HolderExact`: a caller that was told it has the lease really has it,
until it or a run of the very same identity asks to release it. `BoundaryExact`: a
caller that was told it crossed the boundary is never released as a pre-write abort,
not even by a stale abort of a twin. `LeaseImplemented`: the document implements
`Lease` (`holder` is the identity, `written` the write flag, `epoch` the generation).

Publication: `PublicationAtomic` is the refinement of `AtomicPublication`;
`RollbackExact` says that a rolled back library is the one before; `CommittedIsFinal`
that no recovery undoes a commit; `BoundaryAgreement` that coordinator and journal tell
a fresh process the same story; `LeaseReturned` that every lease is returned in the
end.

Intake: a revision marked complete was copied with its bytes (`CompletedDelivered`),
what was there at the deployment is never ingested (`BaselineNeverQueued`), a
session starts no more workers than it may (`NoDispatchLoop`), and every revision that
stays is completed (`Drained`).

Lifecycle: a source is in PROCESSED, in quarantine or purged only with a complete
package (`MovedIsPackaged`); originals go only through retention and grace of their
own record (`PurgedInTime`); retries end (`RetriesEnd`); an item that fails, in its own
lane or in one before, keeps no other one waiting for ever (`QueuesDrain`).

Cloud cycle: once a transaction has crossed the boundary it holds the lease until it is
committed, received and settled, whatever dies (`LeavesSettled`); a lot is applied once
(`AppliedOnce`); no file is in two lots and no lot opens before the last is settled
(`LotsDisjoint`); every readable file is read (`SourcesRead`) and every lot settled
(`LotsSettled`), but for the exceptions these definitions name.

Stores: no file is lost (`Kept`); the work of the authoritative store stays
(`WorkKept`); the standby that takes over is fresh (`FailoverFresh`); what is dropped is
worked on (`Processed`). `WorkKept` and `Processed` stop at a run that took the primary
in spite of a lock (`split`).

Curation: a hold stays (`HoldKept`), a record keeps its owner (`OwnerKept`), what is
analyzed is published and routed (`AnalyzedPublished`), every revision is offered or
decided (`Noticed`).

Candidates: a plan is what one finalizer run sealed, and what that run itself wrote,
unless another overlapped it (`NoMixedRuns`; then it need not be, see
`OverlapRejected` below); a candidate waits or
is archived under its one verified transaction (`CandidateKept`; after two failures it
may be archived under two, as a failed read of the stored plan lets a second transaction
take what a half-done move of the first left behind); a publication writes
what was accepted over the very bytes it was rendered from (`PublishedAsAccepted`);
every publication is settled unless only a human can (`Settles`). What is ready for the
finalizer was reviewed and found sufficient (`Justified`); no text is lost, and a split
archives its parent only when every child of its plan is there (`NothingLost`); and a fit candidate leaves the inbox (`Reviewed`).

File evidence: a candidate is made of the evidence it names (`BoundToEvidence`), once
(`CandidateOnce`); no old record is replaced that was not put aside (`OldKept`); every
summary gets into the index (`Indexed`).

Other configurations, to be started by hand. They show where a property ends, and how
the program differs from what it says of itself:

| Configuration | Instance | Result |
|---|---|---|
| `MCCoordinatorDrive` | three runs, two of one identity, Drive, serialised, writes decided when their sender gives up | the coordinator's properties hold, as proved |
| `MCCoordinatorDriveLate` | Drive, serialised runs, late writes | `HolderExact` violated |
| `MCPublishRecovery`, with `UncertainAt <- OnlyMark` | the answer of the boundary mark is lost | `BoundaryAgreement` violated |
| `MCPublishRecovery`, with `CrashAt <- BeforeJournal` and `INVARIANT OwnerLeavesJournal` | killed between acquisition and journal | `OwnerLeavesJournal` violated |
| `MCPublishCreate` | killed before a record is created | `LeaseReturned` violated |
| `MCPublishCapture` | a read fails during the capture | `RollbackExact` violated |
| `MCPublishStale` | recovery while the publisher is alive | `RestoreOwned` violated |
| `MCIntakeMisread` | one failed stat of a receipt | `ReceiptsKept` violated |
| `MCLifecycleOverwrite` | two videos of one name, no fault | `PurgedInTime` violated |
| `MCLifecycleMalformed` | a shortcut that ends its bridge | `MalformedRejected` violated |
| `MCCuration`, with `MaxState = 1` and `PROPERTY HoldKept` | more packages than STATE keeps | `HoldKept` violated |
| `MCBatch`, with `SPECIFICATION BatchSpec`, `MaxTrouble = 0` and `INVARIANT OverlapRejected` | two finalizers at once | `OverlapRejected` violated |
| `MCBatch`, with `SPECIFICATION BatchSpec`, without its constraint and `Settles` | two finalizers at once and one failure | the safety properties hold (1,327,936 states) |
| `MCCloudReconciled` | a cycle dies after its before-images | `Reconciled` violated |
| `MCStandbySplit` | one call fails while the lock is read | `LockRespected` violated |
| `MCCycleTwins` | one text under two names | `Reviewed` violated |
| `MCCycleRace` | the owner or a split writes a file between its check and its deletion | `NothingLost` violated |
| `MCCycleRace`, with `Perils = {"misread"}` | a failed read is taken for a missing file | `NothingLost` violated |
| `MCEvidence`, with `RevOf <- OtherSize` and `INVARIANT RevisionNamed` | the handoff offers a package while its summary is replaced by one of another size | `RevisionNamed` violated |
| `MCEvidence`, with `PROPERTY CurrentKept` | an ingest between the audit and the migration | `CurrentKept` violated |

The listed violation, `curation_revision`, and the finding that goes with it quote the
program and its documentation. `MCLifecycleMalformed` shows a second disagreement:
`docs/ARCHITECTURE.md:329-332` says that a malformed shortcut moves to `ERROR/LINKS`
as not retryable, while `parse_webloc` (`src/link_ingest.py:75-86`) catches
`InvalidFileException`, `ValueError` and `OSError` and not the `ExpatError` that
`plistlib` raises for malformed XML, and neither does the bridge around it
(`src/link_bridge.py:378-432`). `MCBatch` with `OverlapRejected` shows a third:
`src/candidate_finalize_local.py:14-16` says that transaction preparation "can therefore
reject torn/mixed control state from concurrent finalizer runs", while the run that seals
reads its control files again at lines 427-429 and compares them with nothing. In the
trace one run has read its updates back when the other replaces them with an empty
selection; the seal of the mix verifies, and a plan is stored from it. The violations of the lifecycle have two causes: the
code finds files by name where records are told apart by identity, and an exception
nobody catches ends the job. The passing runs exclude exactly the faults of the violations
that concern their properties, through `UncertainAt`, `CrashAt`, `ConcurrentRecovery`,
`Misread`, `Perils`, the name and kind tables of the `MC` modules, or the exception
named in the property, so that what they say is what the code does guarantee.

### Bounds

Coordinator: a race on one document needs one stale writer and one that made it
stale; `MaxGeneration` allows a full life of one lease and the next acquisition, and
`FewInFlight` one push and one that is late. Runs that share an identity are the harder
case, as the code takes one for the other; with `IdentityOf <- Distinct`, two
identities and neither symmetry nor constraint the same properties hold (676,594
states). `MCCoordinatorDrive` has both kinds at once.
Publication: two records and two indexes give a first, a middle and a last write in
both phases; two runs give a successor that can be harmed by its predecessor; four
faults allow one in the run, in its rollback, in the recovery and in the second
recovery. Intake: one item per worker and two workers per session make a session of
three versions hit its ceiling. Leases and the eight hours of a session have no clock:
they may expire at any moment after they began. Lifecycle: two retries, a retention and
a grace of one day let every comparison come out both ways; the six pairs put a source
that fails before another one in the same lane and in a later one. Cloud cycle: four files, a window of
three and lots of two make the window, the lot and the receipt limit bite; two deaths
allow a recovery to die. Stores: two files, one that is copied and one that is not,
and markers that are fresh for one run; four faults allow one in each of replication,
failover, failback and the run after. Curation: two packages on one path, the second
revision of one arriving while the first is decided. Batch: two candidates, one to
create and one to update; two finalizer runs overwrite each other's control files, one
after the other or at once. Runs that overlap are explored without a failure and failures
without an overlap (`OneDisturbance`); as neither is ever bound to happen, this cuts off
no behaviour that `Settles` is about, and by hand the safety properties hold with both.
Cycle: a broad and a narrow text under one name, a broad one split into a child without
a source and one whose title is known; a batch of three and a threshold of two make the
cap and the threshold bite. Evidence: one package with two summaries is enough for
every order of staging, candidate and migration of one package; what is proved of it
holds for any number of packages.

Deadlock is not checked where a system may stop: when every run is over and the bounds
on faults, edits and days are used up. `cloud_cycle`, `standby_storage`,
`curation_sync` and `candidate_batch` check it, as their programs can always run again.

### Fairness

In the `FairSpec`s (`FairBatchSpec`, `FairCycleSpec`) only; deaths and failed calls are bounded, so that the network works
in the end. Publication: a live process goes on (`WF` of its steps), and somebody starts
the recovery of a stopped run (`WF` of `StartRestart`): the workflow schedules it or an
operator does. Intake: a worker goes on and the schedule fires (`WF`); days pass, leases
expire and the ingest workflow empties its queues again and again (`SF`, as the
occasions come and go). Lifecycle: the workflow is started again and again and its
programs go on (`WF`), while nothing is assumed of arrivals or days. Cloud cycle and
stores: the scheduled workflow runs and goes on (`WF`), and an owner drops files or not.
Curation: an ingest run ends (`WF`) and is started again even when decision runs keep
taking the concurrency group (`SF`); the curator owes nothing. Batch: a finalizer
that runs goes on (some one of them, not each), and the operator runs verification and settlement again until they are done (`WF`);
he need not accept or publish anything. Cycle: the cycle goes on (`WF`) and is started
again with an old index at hand, though splits come between (`SF`). Evidence: the ingest
workflow runs and stages (`WF`); the operator owes nothing. The coordinator has no
liveness property: a call that fails is not retried by the coordinator.

## Proofs

`CoordinatorProofs` proves, for any sets of runs and identities and any generation
bound, from `CoordinatorAssumption`:

* `TypeCorrect`: types and well-formedness, for both backends.
* `StaleWritesAreFenced` (the document is replaced only by a push computed from the
  version it replaces), `LeaseIsImplemented`, `HolderIsExact`, `BoundaryIsExact`: under
  `Fenced`, which is the Git backend, shared identities and late writes included, or
  serial runs whose writes do not outlive them.

The argument: `IInv` says that every push in flight, and every call that is
about to push, is *legal*: its base is a well-formed version that admits the
operation and its new document is the successor of that base. It is needed
because a push is sent in one step and lands in another. Git compares at the server.
Drive does not, and there `Ordered` says that the pushes in flight are of the one live
run and that the document has not changed since it compared; a seed may still be under
way when its sender has gone on to other operations, but then the document is missing and
all it can be told is an error. `MCCoordinatorDriveLate` violates `HolderExact` without
the hypothesis on late writes. Either way a change of the document is a legal step from
the very document it replaces (`RefStep`), which is a step of `Lease` (`LegalStep`).
`Claims` adds that a run believes it holds the lease only before its first release, from
which `LosesOnlyByRelease` gives the two statements about callers.

`StandbyStorageProofs` proves, for any files, any age of a marker and any number of
faults, from `StandbyAssumption`:

* `TypeCorrect`, `FilesKeptAlways` (`Kept`), `WorkKeptAlways` (`WorkKept`),
  `FailoverIsFresh` (`FailoverFresh`).

The argument: what a copy displaces it puts aside, which gives `Kept` step by step.
`WorkKept` needs to know what a run has established when a store becomes
authoritative: `Stages` says that from the first whole check of a failback both stores
hold the same work, and that a run on the primary has seen no lock. `Current` ties
the age of a marker to the age of the work missing from the copy it marks, which gives
`FailoverFresh`.

`CloudCycleProofs` proves, for any files, any lots and any number of cycles that die,
from `CloudCycleAssumption` and `NoTxAssumption`:

* `TypeCorrect`, `LeavesSettledAlways` (`LeavesSettled`), `LotsAppliedOnce`
  (`AppliedOnce`), `LotsKeptApart` (`LotsDisjoint`).

The argument: `AppliedOnce` is about two transactions, of which only one can hold the
lease. `Stages` says which state the journal of the holder is in at each point of the
cycle, and that up to the write its lot is not settled. A second transaction of that
lot that had written would, by `LeavesSettled`, have settled it before it gave the
lease back. `Decisions` adds that what is settled or held was decided, so that
deciding a lot never touches it.

`CurationSyncProofs` proves, for any packages, any paths of their records and any
number of acts of the curator and of faults, from `CurationAssumption`:

* `OwnerKeptAlways` (`OwnerKept`), `AnalyzedIsPublished` (`AnalyzedPublished`), and
  `HoldIsKept` (`HoldKept`) as long as STATE has room for all packages.

The argument: a receipt may be older than the run that reads it, so `Receipted` only
says that the library has the text with the receipt or a later one of the same record.
That it is not later follows from `Latest`: nothing curated or published is newer than
what the handoff offers, which is the revision the decision was made for. `Latest` holds
because the handoff is taken from the index (`Offered`) and nothing is ahead of the
index (`Behind`). `Routed` says that MASTER_INDEX has all records when the decisions are
applied, `OneText` that the outbox has one record for a path. For a hold nothing may be
forgotten (`AllFirst`: fewer than `MaxState` entries come before any package) and a
decision that is applied must have a verdict (`Decided`). `MCCuration` with
`MaxState = 1` violates `HoldKept`: the code keeps 1000 entries.

`PublicationProofs` proves of `ControlledPublish`, for any runs, any numbers of records and indexes, any
crashes, lost answers and writes of others, from `ControlledPublishAssumption`:

* `TypeCorrect`, `CommittedStaysFinal` (`CommittedIsFinal`), `RollbackIsExact`
  (`RollbackExact`), `BoundaryAgrees` (`BoundaryAgreement`), and `PublicationIsAtomic`, the
  refinement of `AtomicPublication`, step by step;
* `RestoresAreOwned` (`RestoreOwned`): no publisher restores a file without the lease,
  though it looks at the lease once before it restores them all; and `OwnersLeaveJournals`
  (`OwnerLeavesJournal`): a run that stops while it owns the lease leaves a recovery
  journal, if no run dies between the acquisition and the journal and no answer to the
  acquisition, the arming or an unarmed release is lost (`ReachesJournal`;
  `MCPublishRecovery` with `BeforeJournal` violates it without).

All of them assume that a recovery waits for the publisher (`ConcurrentRecovery = FALSE`;
`MCPublishStale` shows what happens otherwise). `RollbackIsExact` and
`PublicationIsAtomic` assume that no read fails while before-images are captured,
`BoundaryAgrees` that the answer of the boundary mark is not lost: `MCPublishCapture` and
`MCPublishRecovery` with `OnlyMark` violate the properties without. The argument: one
process works for the owner of the lease at a time (`Owners`), and the place it has
reached determines the journal it will find and the side of the boundary it is on
(`Stages`). The last committed run is the one whose journal says so (`Contents`); as long
as nobody else wrote, the library is at each place what the lease, the journal and the
before-images say (`Exact`). `OwnerStep` reduces every step of a process to what it does
to these. In the refinement every step acquires the lease, commits its owner,
releases the lease, or changes neither the owner nor the last committed run (`Outcome`);
by `Exact` these are a `Begin`, `Commit`, `Close` or a stutter of the abstract
specification (`PublicationStep`).

`PublicationProofs` proves of `CandidateBatch`, for any candidates and records, any number
of finalizers, finalizer runs and faults, from `BatchAssumption`:

* `PlansAreOfOneRun` (`NoMixedRuns`), `CandidatesAreKept` (`CandidateKept`) and
  `PublishedIsAccepted` (`PublishedAsAccepted`), from `BatchInductive`;
* `OneFinalizerNeverMixes`: where there is one finalizer, every plan is of what one run
  wrote (`OverlapRejected`).

The argument: the control files may be of two finalizer runs, and may be overwritten while
the planner reads them. A run that nobody has overlapped is alone, and what it has written
so far is still there, so the barrier seals its own documents; what another run overlapped
goes to `shared` (`OwnFiles`). The planner compares what it read with a seal (`SealsRead`),
so a plan is of one seal whatever is in the files by then. What it names was rendered from
nothing or from the base it names (`Rendering`). From there the invariant follows the
transaction: a stored plan was accepted (`ReadyAccepted`), and what is verified was
published, what is filed or settled was verified (`Ledger`). A candidate's file holds that
candidate, and when it is gone it is filed (`Pages`). Settlement moves the plan last
(`PlanLast`), so that a stored plan stands in the way of the next one until its candidates
are filed (`PlanStays`). A candidate is filed under two transactions only if both had it in
the queue, for which a move must have stopped half-way and a second plan have been stored
over the first (`OneTransaction`): two failures.

`CandidateProofs` proves of `FileEvidence`, for any packages, any numbering of their summaries, any
number of operator runs and of faults, from `EvidenceAssumption`:

* `CandidateBound` (`BoundToEvidence`), `CreatedOnce` (`CandidateOnce`),
  `OldRecordKept` (`OldKept`).

The argument: `IInv` adds to `BoundToEvidence` that from the check of the envelope on
the operator works with an envelope of the very line of the index he selected
(`BasisBound`), that a candidate once created is in the queue, has its receipt or was
taken away (`CreatedKept`), that a program which looked for the receipt and is about to
create has none (`NoReceiptYet`), and that a migration which goes on to write has put
the old record aside (`OldSaved`). The first is needed because both programs rewrite
envelopes and index at any time, the others because a run may die between the candidate
and its receipt and between the backup and the record.

It proves of `CandidateCycle`, for any names, texts, answers, plans of a split and any
number of faults, from `CycleAssumption`:

* `RecordsAreJustified` (`Justified`) whatever is misread and whoever writes in between;
* `NoTextIsLost` (the texts of `NothingLost`), as long as no failed read is taken for a
  missing file and nothing comes between a check and the step that rests on it
  (`ChecksHold`), and `TextsAndParents` (`NothingLost`), if also the owner puts nothing
  under the name of a child (`OwnerLeavesChildren`); both from `CycleInductive`.

`MCCycleRace` violates `NothingLost` without the first hypothesis. The argument for
`Justified`: every stored decision and every review that makes a text ready rests on a
sufficient answer about that very text (`Decided`, `ReviewsRest`); files are moved under
the digest they were reviewed with. For `NothingLost` each step that removes a text must
have a copy: a move goes to a free place or to one with the same text (`MoveFree`), what is
deleted is elsewhere (`DeleteCopied`), and a split writes its children to free places and
archives the parent where nothing else lies (`SplitFree`, `SplitCopied`). The children of
a plan stay while the split lasts (`ChildrenKept`). The second hypothesis is needed as
the owner may put another file over a child that is there.

`IntakeSessionProofs` proves, for any items, revisions and contents, any limits and any
number of edits and faults, from `IntakeAssumption`:

* `TypeCorrect` with the limits of workers and sessions, `CompletedIsDelivered`
  (`CompletedDelivered`) whatever is misread, and, as long as no receipt is taken for a
  missing one, `BacklogStaysOut` (`BaselineNeverQueued`), `DispatchesArePaid`
  (`NoDispatchLoop`) and `ReceiptsAreKept` (`ReceiptsKept`).

`MCIntakeMisread` violates `ReceiptsKept` without that hypothesis. The argument: what is
in a queue was sent last (`Delivery`), and once its copy is checked the version at hand was
too. That version is on the list of the worker and not done (`Stage`), for which the oldest
of a list has to be one of the list (`OldestOf`). Nothing is sent before the baseline is complete, and what it
recorded stays done (`Backlog`). Each worker that goes on to dispatch has completed a
version that is done for good, so the dispatches are at most the versions done (`Paid`).

`SourceLifecycleProofs` proves, for any sources, lanes and classes, any limits, failed
moves that may be done and any number of faults, from `LifecycleAssumption`:

* `TypeCorrect`, `MovedOncePackaged` (`MovedIsPackaged`), `PurgedOnlyInTime`
  (`PurgedInTime`).

They assume that different sources arrive under different names (`DistinctNames`), as the
code finds a file by its name: `MCLifecycleOverwrite` violates `PurgedInTime` without. The
names a source can ever have then belong to it alone (`Own`), so that a move by path moves
no other file and replaces none (`MoveOwn`, `MoveStep`). `Records` says that a record in
the quarantine has its retention behind it, in both of its copies, as a restored central
record is taken from the package; `Stages` says what the reconciliation, the bridge and
the cleanup know of the item at hand: it is in a folder, and its package is complete when
it is about to leave its queue.

TLC evaluates every assumption in the runs of the modules that declare it.

Only model-checked is liveness under fairness (`LeaseReturned`, `Drained`, `RetriesEnd`,
`QueuesDrain`, `SourcesRead`, `LotsSettled`, `Processed`, `Noticed`, `Settles`, `Reviewed`,
`Indexed`), which is out of the prover's reach. Every invariant and every action property
of a passing run is a theorem, under the hypotheses named above.

## Not modelled

Parsing, formatting and text production; the contents of records, receipts and
indexes (they are identified with the bytes' origin); the validation of command line
arguments; metrics, guards and reports, which only read; probes, fixtures and proof
scripts, which drive the modelled programs on throw-away data.

* Publication: the recheck and the write of a record are one step.
* Intake: the stand-alone poll (no workflow runs it), the classification of
  `media_router.py`, `--fixture-only`, items without identity or size.
* Lifecycle: what happens inside an extraction, records with `keep_original`,
  unreadable records, `--only-name`, the older dispatcher of `reconcile.py`. The
  workflows run `retention_cleanup.py` without `--apply`; the model runs it with.
* Cloud cycle: oversize and unhashed files, files of DROP_HERE that are edited or
  removed, other writers of the library, the stand-alone fixtures and the audit.
* Stores: other writers of the primary, reconciliation by hand with other scopes,
  `standby_readiness.py`.
* Curation: other writers of the library, malformed files, the rendering of texts.
* Candidates: two cycles at once; the queue and the validator each
  read all files in one step; the operator's gates read the control files in one step;
  the document of semantic decisions is the cycle's own copy; the receipts of a split;
  the benchmark, the inventory and the retrieval reports; the executor fixtures and the
  reports of the stages.
* File evidence: two programs of the operator at once, the limit of 50 items of a
  handoff, the audit of missing files, and the central record of a backfill, which the
  reconciliation is left to restore.

## Plan

What is left, in the order of what it would add:

1. Two cycles at once, which nothing in the code excludes.
2. The composition of `CandidateBatch` with `ControlledPublish`, through an abstract
   publication both are checked against.
