--------------------------- MODULE CandidateCycle ---------------------------
(***************************************************************************)
(* From CHAT_RESEARCH to the finalizer.  candidate_local_cycle.py runs, one *)
(* after the other, the queue, the validator, the semantic batch, the       *)
(* resolution and the finalizer; each of them reads the candidate files     *)
(* again and binds what it does to their digests, because the owner may     *)
(* revise them at any time and the cycle may stop anywhere and be run       *)
(* again.  Beside it the operator splits a broad candidate into narrower    *)
(* ones (candidate_split_controlled.py), also in steps that may be repeated.*)
(*                                                                          *)
(* A file is the text it holds, a number; NoText is no file.  A candidate's *)
(* identity is its text (the code's digest), not its name.  The queue and   *)
(* the validator each read all files in one step.  What the finalizer       *)
(* does with a candidate it may prepare is CandidateBatch.                  *)
(***************************************************************************)
EXTENDS Naturals, Sequences, FiniteSets

CONSTANTS
  Names,       \* how many file names there are; they are numbers in their order
  Text,        \* candidate texts, numbers in the order of LAST_CHECKED
  Invalid,     \* texts the schema refuses
  Known,       \* texts whose title MASTER_INDEX lists
  OwnerFiles,  \* the <<name, text>> the owner may put in CHAT_RESEARCH
  Children,    \* the <<name, text>> each broad text is split into
  Answers,     \* what the local model and the source probe may give for each text
  Threshold,   \* volume_threshold
  BatchSize,   \* max_batch
  Perils,      \* failures in scope beside deaths and failed moves: "half",
               \* "misread", "race"
  MaxPuts,     \* bound on files put by the owner
  MaxTrouble   \* bound on deaths and failed calls

NoText == 0
Name == 1..Names

Promotions == {"VALIDATED_NEW", "VALIDATED_UPDATE"}
ReadyDecisions == Promotions \cup {"SOURCE_ONLY"}
Decision == ReadyDecisions \cup
  {"DUPLICATE", "REJECTED", "SPLIT_REQUIRED", "SUSPECTED_ACCIDENTAL", "NEEDS_REVIEW"}
Strong == {"HIGH", "MEDIUM"}
Evidence == Strong \cup {"LOW", "CONFLICT"}

\* Decision "NONE": the answer to the question for a review has no form that can be
\* read; no subjects: the answer to the one for the scope has none.
Answer == [decision : Decision \cup {"NONE"}, evidence : Evidence, probed : Nat,
           sources : Nat, match : BOOLEAN, subjects : Nat]

\* The children of one plan have names and texts of their own.
ASSUME CycleAssumption ==
  /\ Names \in Nat /\ Text \subseteq Nat \ {NoText}
  /\ Invalid \subseteq Text /\ Known \subseteq Text
  /\ OwnerFiles \subseteq Name \X Text
  /\ \A t \in Text : Answers[t] \subseteq Answer
  /\ \A t \in DOMAIN Children :
       /\ Children[t] \subseteq Name \X Text
       /\ \A c, d \in Children[t] : c[1] = d[1] => c = d
  /\ Threshold \in Nat \ {0} /\ BatchSize \in Nat \ {0}
  /\ MaxPuts \in Nat /\ MaxTrouble \in Nat

\* READY_FOR_CURATION, or a folder of RESOLVED or NEEDS_REVIEW for each decision.
Destination(decision) == IF decision \in ReadyDecisions THEN "READY" ELSE decision

Bucket == {"READY", "DUPLICATE", "REJECTED", "SPLIT_REQUIRED", "SUSPECTED_ACCIDENTAL",
           "NEEDS_REVIEW"}
Folder == Bucket \cup {"CHAT", "SPLIT_PARENT"}

VARIABLES
  files,      \* the text in each folder under each name
  indexed,    \* index.json: the valid candidates the queue saw
  proposals,  \* validation-proposals.json: all the validator saw
  reviews,    \* SEMANTIC_REVIEWS: the last review of each text
  cycle,      \* a run of candidate_local_cycle.py
  split,      \* a run of candidate_split_controlled.py --apply
  envelopes,  \* split plans on the operator's disk
  puts, trouble,
  supported,  \* history: the texts for which the answers sufficed
  published   \* history: the texts that were published and settled

documents == <<indexed, proposals, reviews>>
bounds == <<puts, trouble>>
history == <<supported, published>>
cycleVars == <<files, documents, cycle, split, envelopes, bounds, history>>

Empty == [n \in Name |-> NoText]
NoCycle == [at |-> "idle", mode |-> "adaptive", todo |-> <<>>, decided |-> <<>>,
            failed |-> FALSE]
NoSplit == [at |-> "idle", name |-> NoText, text |-> NoText, todo |-> {}, archived |-> FALSE]

CycleInit ==
  /\ files = [f \in Folder |-> Empty]
  /\ indexed = Empty /\ proposals = Empty
  /\ reviews = [t \in Text |-> [decision |-> "NONE"]]
  /\ cycle = NoCycle /\ split = NoSplit /\ envelopes = {}
  /\ puts = 0 /\ trouble = 0
  /\ supported = {} /\ published = {}

Chat == files["CHAT"]
Trouble == trouble < MaxTrouble /\ trouble' = trouble + 1

\* The sequences that list a set in order; for the sets here there is one.
Listings(S) ==
  {s \in [1..Cardinality(S) -> S] : \A i, j \in 1..Cardinality(S) : i < j => s[i] < s[j]}

FirstOf(n, seq) == SubSeq(seq, 1, IF Len(seq) < n THEN Len(seq) ELSE n)

\* The name a document gives for a text: entries are kept by digest, and the last
\* one with a digest replaces the others.
NameOf(seen, t) ==
  LET names == {n \in Name : seen[n] = t}
  IN IF names = {} THEN NoText ELSE CHOOSE n \in names : \A m \in names : m <= n

---------------------------------------------------------------------------
(* candidate_queue.py, candidate_validator.py and the plan *)

Goes(at) == cycle.at = at

CycleStart(mode) ==
  /\ Goes("idle")
  /\ cycle' = [NoCycle EXCEPT !.at = "queue", !.mode = mode]
  /\ UNCHANGED <<files, documents, split, envelopes, bounds, history>>

\* A file that cannot be read is indexed as invalid.
Queue ==
  /\ Goes("queue")
  /\ \E missed \in {{}} \cup {{n} : n \in {m \in Name : Chat[m] # NoText}} :
       /\ indexed' = [n \in Name |-> IF n \in missed \/ Chat[n] \in Invalid THEN NoText ELSE Chat[n]]
       /\ IF missed = {} THEN UNCHANGED trouble ELSE Trouble
  /\ cycle' = [cycle EXCEPT !.at = "validate"]
  /\ UNCHANGED <<files, proposals, reviews, split, envelopes, puts, history>>

Validate ==
  /\ Goes("validate")
  /\ proposals' = Chat
  /\ cycle' = [cycle EXCEPT !.at = "plan"]
  /\ UNCHANGED <<files, indexed, reviews, split, envelopes, bounds, history>>

Proposal(seen, n) ==
  CASE seen[n] \in Invalid -> "NEEDS_REVIEW"
    [] seen[n] \notin Invalid /\ (\E m \in Name : m < n /\ seen[m] = seen[n]) -> "DUPLICATE"
    [] seen[n] \in Known /\ ~(\E m \in Name : m < n /\ seen[m] = seen[n]) -> "NEEDS_REVIEW"
    [] OTHER -> "READY_FOR_SEMANTIC"

ReadyNames(seen) ==
  {n \in Name : seen[n] # NoText /\ Proposal(seen, n) = "READY_FOR_SEMANTIC"}

\* Mutant: a text that has a review is not reviewed again.
Waiting_Unreviewed ==
  {t \in {proposals[n] : n \in ReadyNames(proposals)} :
     NameOf(indexed, t) # NoText /\ reviews[t].decision = "NONE"}

\* Adaptive: what both documents list, the oldest first.
Waiting == {t \in {proposals[n] : n \in ReadyNames(proposals)} : NameOf(indexed, t) # NoText}

\* Due by volume, by the age of the oldest one, or because the operator forces it:
\* then by name, and whatever the index says.
Selections(mode) ==
  CASE mode = "forced" ->
         {FirstOf(BatchSize, [i \in DOMAIN s |-> proposals[s[i]]]) :
            s \in Listings(ReadyNames(proposals))}
    [] mode = "old" \/ (mode = "adaptive" /\ Cardinality(Waiting) >= Threshold) ->
         {FirstOf(BatchSize, s) : s \in Listings(Waiting)}
    [] OTHER -> {<<>>}

Plan ==
  /\ Goes("plan")
  /\ \E selected \in Selections(cycle.mode) :
       cycle' = IF selected = <<>> THEN NoCycle
                ELSE [NoCycle EXCEPT !.at = "semantic", !.todo = selected]
  /\ UNCHANGED <<files, documents, split, envelopes, bounds, history>>

---------------------------------------------------------------------------
(* candidate_semantic_local.py, candidate_semantic_batch.py *)

ReviewRead(a) == a.decision # "NONE"
AuditRead(a) == a.subjects > 0

\* No sources, no answer or an answer that breaks the contract.
Fallback == [decision |-> "NEEDS_REVIEW", evidence |-> "LOW", sources |-> 0]

\* apply_fail_closed_policy.
Policy(a) ==
  CASE a.decision \in Promotions /\ a.sources = 0 -> [a EXCEPT !.decision = "NEEDS_REVIEW",
                                                               !.evidence = "LOW"]
    [] a.decision \in Promotions /\ a.sources > 0 /\ a.evidence \notin Strong ->
         [a EXCEPT !.decision = "NEEDS_REVIEW"]
    [] a.decision \in {"VALIDATED_UPDATE", "DUPLICATE"} /\ ~a.match ->
         [a EXCEPT !.decision = "NEEDS_REVIEW"]
    [] a.decision = "VALIDATED_NEW" /\ a.match -> [a EXCEPT !.decision = "NEEDS_REVIEW"]
    [] OTHER -> a

\* Mutant: the scope is not audited.
Audited_Trusting(a) == a

\* apply_scope_audit: a second question to the model about a promotion.
Audited(a) ==
  CASE a.decision \in Promotions /\ ~AuditRead(a) ->
         [a EXCEPT !.decision = "NEEDS_REVIEW", !.evidence = "LOW"]
    [] a.decision \in Promotions /\ a.subjects > 1 -> [a EXCEPT !.decision = "SPLIT_REQUIRED"]
    [] OTHER -> a

\* review_candidate: the policy decides before the scope is asked for.
ReviewOf(a) ==
  LET final == Audited(Policy(a))
  IN [decision |-> final.decision, evidence |-> final.evidence, sources |-> a.sources]

\* review_one: what is decided on the text read, for the text that was selected.
Reviewing(t, text, a) ==
  IF text # t \/ a.probed = 0 \/ ~ReviewRead(a) THEN Fallback ELSE ReviewOf(a)

\* A text the index lacks, or whose last proposal is not READY_FOR_SEMANTIC, is
\* passed over.
Reviewable(t) ==
  NameOf(indexed, t) # NoText /\ NameOf(proposals, t) \in ReadyNames(proposals)

\* validate_semantic_payload: no promotion on weak evidence.
ContractHolds(decided) ==
  \A i \in DOMAIN decided :
    decided[i].review.decision \in Promotions => decided[i].review.evidence \in Strong

\* After the last one the contract is checked and the reviews are stored.
ReviewsLeft(todo, decided, failed) ==
  IF todo = <<>> /\ (decided = <<>> \/ ~ContractHolds(decided)) THEN NoCycle
  ELSE [NoCycle EXCEPT !.at = IF todo = <<>> THEN "store" ELSE "semantic",
          !.todo = IF todo = <<>> THEN decided ELSE todo,
          !.decided = decided, !.failed = failed]

\* What an answer must be for a record to rest on it.
Sufficient(a) ==
  /\ a.probed > 0 /\ a.decision \in ReadyDecisions
  /\ a.decision \in Promotions => a.sources > 0 /\ a.evidence \in Strong /\ a.subjects = 1

Review(a) ==
  /\ Goes("semantic")
  /\ LET t == Head(cycle.todo)
         text == Chat[NameOf(indexed, t)]
         decision == [text |-> t, review |-> Reviewing(t, text, a)]
     IN /\ a \in Answers[t]
        /\ cycle' = IF Reviewable(t)
                    THEN ReviewsLeft(Tail(cycle.todo), Append(cycle.decided, decision), cycle.failed)
                    ELSE ReviewsLeft(Tail(cycle.todo), cycle.decided, TRUE)
        /\ supported' = IF Reviewable(t) /\ text = t /\ Sufficient(a)
                        THEN supported \cup {t} ELSE supported
  /\ UNCHANGED <<files, documents, split, envelopes, bounds, published>>

\* The reviews are stored one by one, then the decisions; the cycle goes on if
\* every text it selected was decided.
StoreReview ==
  /\ Goes("store")
  /\ reviews' = [reviews EXCEPT ![Head(cycle.todo).text] = Head(cycle.todo).review]
  /\ cycle' = IF Len(cycle.todo) > 1 THEN [cycle EXCEPT !.todo = Tail(@)]
              ELSE IF cycle.failed THEN NoCycle
              ELSE [NoCycle EXCEPT !.at = "resolve", !.todo = cycle.decided]
  /\ UNCHANGED <<files, indexed, proposals, split, envelopes, bounds, history>>

---------------------------------------------------------------------------
(* candidate_resolution.py *)

Current == Head(cycle.todo)
ItemName == NameOf(indexed, Current.text)
ItemFolder == Destination(Current.review.decision)
There == files[ItemFolder][ItemName]

\* A failed item does not stop the others, but the finalizer is not run then.
NextItem(ok) ==
  IF Len(cycle.todo) > 1
  THEN [cycle EXCEPT !.at = "resolve", !.todo = Tail(@), !.failed = @ \/ ~ok]
  ELSE IF cycle.failed \/ ~ok THEN NoCycle
  ELSE [NoCycle EXCEPT !.at = "finalize"]

\* Mutant: any file at the destination is taken for a copy of the candidate.
Copied_Any(there) == there # NoText

\* The destination holds the very text.
Copied(there) == there = Current.text

\* A failed read of the destination is taken for no file there.
ReadThere == {There} \cup (IF "misread" \in Perils THEN {NoText} ELSE {})

\* The two reads of apply_item.
CheckItem ==
  /\ Goes("resolve")
  /\ \E here \in {Chat[ItemName]}, there \in ReadThere :
       cycle' = CASE here = NoText -> NextItem(Copied(there))
                  [] here # NoText /\ here # Current.text -> NextItem(FALSE)
                  [] here = Current.text /\ Copied(there) -> [cycle EXCEPT !.at = "delete"]
                  [] here = Current.text /\ ~Copied(there) /\ there # NoText -> NextItem(FALSE)
                  [] OTHER -> [cycle EXCEPT !.at = "move"]
  /\ UNCHANGED <<files, documents, split, envelopes, bounds, history>>

\* moveto moves what is there now; the read afterwards tells whether it was the
\* text that was decided.
MoveItem ==
  /\ Goes("move")
  /\ LET here == Chat[ItemName] IN
       /\ files' = IF here = NoText THEN files
                   ELSE [files EXCEPT !["CHAT"][ItemName] = NoText, ![ItemFolder][ItemName] = here]
       /\ cycle' = NextItem(here = Current.text)
  /\ UNCHANGED <<documents, split, envelopes, bounds, history>>

\* The remote copies and does not delete.
MoveItemHalf ==
  /\ Goes("move") /\ "half" \in Perils /\ Chat[ItemName] # NoText /\ Trouble
  /\ files' = [files EXCEPT ![ItemFolder][ItemName] = Chat[ItemName]]
  /\ cycle' = NextItem(FALSE)
  /\ UNCHANGED <<documents, split, envelopes, puts, history>>

DeleteItem ==
  /\ Goes("delete")
  /\ files' = [files EXCEPT !["CHAT"][ItemName] = NoText]
  /\ cycle' = NextItem(Chat[ItemName] # NoText)
  /\ UNCHANGED <<documents, split, envelopes, bounds, history>>

ItemFails ==
  /\ cycle.at \in {"move", "delete"} /\ Trouble
  /\ cycle' = NextItem(FALSE)
  /\ UNCHANGED <<files, documents, split, envelopes, puts, history>>

---------------------------------------------------------------------------
(* candidate_finalize_local.py, up to the draft *)

\* build_draft: the review stored for this very text allows it.
Draftable(t) ==
  LET r == reviews[t] IN
  /\ t \notin Invalid
  /\ r.decision \in ReadyDecisions
  /\ r.decision \in Promotions => r.evidence \in Strong
  /\ r.decision # "VALIDATED_UPDATE" => t \notin Known

\* The finalizer ends the cycle; CandidateBatch has its steps.
Finalize ==
  /\ Goes("finalize")
  /\ cycle' = NoCycle
  /\ UNCHANGED <<files, documents, split, envelopes, bounds, history>>

\* A finalizer run, of the cycle or of its own, has prepared it; it is published,
\* settled, and leaves for the audit folder.
Publish(n) ==
  LET t == files["READY"][n] IN
  /\ t # NoText /\ Draftable(t)
  /\ files' = [files EXCEPT !["READY"][n] = NoText]
  /\ published' = published \cup {t}
  /\ UNCHANGED <<documents, cycle, split, envelopes, bounds, supported>>

CycleDies ==
  /\ ~Goes("idle") /\ Trouble
  /\ cycle' = NoCycle
  /\ UNCHANGED <<files, documents, split, envelopes, puts, history>>

---------------------------------------------------------------------------
(* candidate_split_controlled.py *)

\* Planning: resolve_selected on the stored documents, a review of its own, and
\* the plan on the local disk.
SplitPrepare(n, a) ==
  LET t == indexed[n] IN
  /\ t # NoText /\ NameOf(indexed, t) = n
  /\ NameOf(proposals, t) \in ReadyNames(proposals)
  /\ t \in DOMAIN Children /\ a \in Answers[t]
  /\ Reviewing(t, Chat[n], a).decision = "SPLIT_REQUIRED"
  /\ envelopes' = envelopes \cup {[name |-> n, text |-> t]}
  /\ UNCHANGED <<files, documents, cycle, split, bounds, history>>

Archive == files["SPLIT_PARENT"]

\* The cycle has found this file copied and is about to delete it.
Deleting(n) == Goes("delete") /\ ItemName = n

\* preflight_apply: the parent is here or archived already, and no child's name
\* is taken by something else.
SplitApply(e) ==
  /\ split.at = "idle" /\ e \in envelopes
  /\ IF Chat[e.name] = NoText THEN Archive[e.name] = e.text
     ELSE Chat[e.name] = e.text /\ Archive[e.name] \in {NoText, e.text}
  /\ \A c \in Children[e.text] : Chat[c[1]] \in {NoText, c[2]}
  /\ split' = [at |-> "children", name |-> e.name, text |-> e.text,
               todo |-> {c \in Children[e.text] : Chat[c[1]] = NoText},
               archived |-> Chat[e.name] = NoText]
  /\ UNCHANGED <<files, documents, cycle, envelopes, bounds, history>>

SplitChild(c) ==
  /\ split.at = "children" /\ c \in split.todo
  /\ Deleting(c[1]) => "race" \in Perils
  /\ files' = [files EXCEPT !["CHAT"][c[1]] = c[2]]
  /\ split' = [split EXCEPT !.todo = @ \ {c}]
  /\ UNCHANGED <<documents, cycle, envelopes, bounds, history>>

\* The parent is moved; where an earlier run has copied it, it is deleted.
SplitArchive ==
  /\ split.at = "children" /\ split.todo = {}
  /\ LET here == Chat[split.name]
     IN files' = CASE split.archived \/ here = NoText -> files
                   [] ~split.archived /\ here # NoText /\ Archive[split.name] = NoText ->
                        [files EXCEPT !["CHAT"][split.name] = NoText,
                                      !["SPLIT_PARENT"][split.name] = here]
                   [] OTHER -> [files EXCEPT !["CHAT"][split.name] = NoText]
  /\ split' = NoSplit
  /\ UNCHANGED <<documents, cycle, envelopes, bounds, history>>

SplitArchiveHalf ==
  /\ split.at = "children" /\ split.todo = {} /\ ~split.archived
  /\ "half" \in Perils /\ Chat[split.name] # NoText /\ Archive[split.name] = NoText /\ Trouble
  /\ files' = [files EXCEPT !["SPLIT_PARENT"][split.name] = Chat[split.name]]
  /\ split' = NoSplit
  /\ UNCHANGED <<documents, cycle, envelopes, puts, history>>

SplitDies ==
  /\ split.at # "idle" /\ Trouble
  /\ split' = NoSplit
  /\ UNCHANGED <<files, documents, cycle, envelopes, puts, history>>

---------------------------------------------------------------------------
(* The owner *)

\* Between a check and the deletion or the write it allows, a revision would be lost
\* unread.
Unguarded(n) ==
  \/ Deleting(n)
  \/ \E c \in split.todo : c[1] = n
  \/ split.at # "idle" /\ split.name = n /\ Archive[n] # NoText

Put(n, t) ==
  /\ puts < MaxPuts /\ Chat[n] # t
  /\ Unguarded(n) => "race" \in Perils
  /\ files' = [files EXCEPT !["CHAT"][n] = t]
  /\ puts' = puts + 1
  /\ UNCHANGED <<documents, cycle, split, envelopes, trouble, history>>

---------------------------------------------------------------------------
AnyAnswer == UNION {Answers[t] : t \in Text}
Assess == Queue \/ Validate \/ Plan
Semantic == (\E a \in AnyAnswer : Review(a)) \/ StoreReview
Resolve == CheckItem \/ MoveItem \/ DeleteItem
Run == Assess \/ Semantic \/ Resolve \/ Finalize
Fails == MoveItemHalf \/ ItemFails \/ CycleDies
Split ==
  \/ \E n \in Name, a \in AnyAnswer : SplitPrepare(n, a)
  \/ \E e \in envelopes : SplitApply(e)
  \/ \E c \in split.todo : SplitChild(c)
  \/ SplitArchive \/ SplitArchiveHalf \/ SplitDies

CycleNext ==
  \/ \E mode \in {"adaptive", "old", "forced"} : CycleStart(mode)
  \/ Run \/ Fails \/ Split
  \/ \E n \in Name : Publish(n)
  \/ \E f \in OwnerFiles : Put(f[1], f[2])

CycleSpec == CycleInit /\ [][CycleNext]_cycleVars

\* A started cycle goes on, and the cycle is run again and again: a candidate that
\* waits grows old, and then every adaptive run takes it up.
FairCycleSpec == CycleSpec /\ WF_cycleVars(Run) /\ SF_cycleVars(CycleStart("old"))

---------------------------------------------------------------------------
(* Properties *)

\* The finalizer prepares a record only for a text on which the model was asked
\* and found it ready: for a promotion on a retrieved source, with enough evidence
\* and one subject.  The owner revises files meanwhile, moves fail and are repeated.
Justified ==
  \A n \in Name :
    LET t == files["READY"][n] IN t # NoText /\ Draftable(t) => t \in supported

Texts(f) == {f[x][n] : x \in Folder, n \in Name} \ {NoText}

\* No step of a program loses a text that is not published, whoever interrupts it.
TextsStay == puts' = puts => \A t \in Texts(files) \ Texts(files') : t \in published'

\* A split archives nothing before all children of its plan are there.
ParentLast ==
  Archive' # Archive =>
    \A c \in Children[split.text] : c[2] \in Texts(files) \cup published

\* The programs that move files between the folders, in any order and stopped anywhere,
\* neither lose a text nor take away a broad one before its children.
NothingLost == [][TextsStay /\ ParentLast]_cycleVars

\* Another text of the same name is where a decision on this one may lead.
Conflict(n) ==
  \E a \in Answers[Chat[n]] :
    files[Destination(Reviewing(Chat[n], Chat[n], a).decision)][n] \notin {NoText, Chat[n]}

\* A candidate that is fit for review leaves CHAT_RESEARCH, also when an earlier
\* move of it or of another one failed, unless its own name is taken.
Reviewed ==
  \A n \in Name :
    []<>(Chat[n] = NoText \/ Chat[n] \in Invalid \cup Known \/ Conflict(n))
=============================================================================
