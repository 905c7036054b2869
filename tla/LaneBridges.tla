----------------------------- MODULE LaneBridges -----------------------------
(***************************************************************************)
(* The part of drive-ingest.yml after the reconciliation: media_router.py     *)
(* fills the queues, workload_plan.py decides which bridges run, and these     *)
(* take the items of their queues one by one, in the order of Lanes.  The      *)
(* bridges of links, images and audio fail when an item failed, and the job    *)
(* ends with them; those of videos, contents and spreadsheets do not.          *)
(*                                                                          *)
(* A listing or a folder that is not to be had ends the job, like a runner    *)
(* that dies, and is no step of its own.                                      *)
(***************************************************************************)
EXTENDS SourceStore, FiniteSets

\* media_router.py moves a source out of DROP_HERE into its queue, under a name
\* with a token of the source when its own is taken there; or zero_touch_intake.py
\* does, between two runs.
Arrive(s) ==
  LET plain == At("inbox", <<Name[s]>>, s)
      renamed == At("inbox", <<Name[s], "token", s>>, s) IN
  /\ pc \in {"idle", "route"} /\ loc[s] = Outside
  /\ loc' = [loc EXCEPT ![s] = IF \E x \in Source : loc[x] = plain THEN renamed ELSE plain]
  /\ UNCHANGED <<package, packageRecord, record, attempts, pc, subject, item, run, day,
                 faults>>

-----------------------------------------------------------------------------
(* workload_plan.py.                                                        *)

Queued(lane) == {s \in Source : In("inbox", s) /\ kind[s].lane = lane}

\* Files of other formats stay in their queues and wake no bridge.
Supported(lane) == {s \in Queued(lane) : kind[s].class # "unsupported"}

\* Mutant of Heavy: whatever is oldest in the two queues decides.
HeavyRaw ==
  IF \E a \in Queued("audio") : \A v \in Queued("videos") : Age[a] <= Age[v]
  THEN "audio" ELSE "videos"

\* One of the two lanes that transcribe runs: the one with the oldest item.
Heavy ==
  IF \E a \in Supported("audio") : \A v \in Supported("videos") : Age[a] <= Age[v]
  THEN "audio" ELSE "videos"

Plan ==
  /\ pc = "route"
  /\ plan' = {l \in Lane : Supported(l) # {} /\ (l \in {"audio", "videos"} => l = Heavy)}
  /\ Goto("planned")
  /\ UNCHANGED <<stored, todo, errors, outcome, day, faults>>

\* The oldest items of a queue, as many as the plan allows.
Selected(lane) ==
  {s \in Supported(lane) :
     Cardinality({x \in Supported(lane) : Age[x] < Age[s]}) < MaxBatch[lane]}

Upcoming == Lanes[CHOOSE n \in 1..Len(Lanes) :
                    Lanes[n] \in plan /\ \A m \in 1..(n - 1) : Lanes[m] \notin plan]

\* The bridge of the videos takes a listing that failed for an empty queue.
StartBridge ==
  /\ pc = "planned" /\ plan # {}
  /\ plan' = plan \ {Upcoming}
  /\ \/ todo' = Selected(Upcoming) /\ UNCHANGED faults
     \/ Upcoming = "videos" /\ Fault /\ todo' = {}
  /\ errors' = FALSE
  /\ Goto(IF Upcoming = "videos" THEN "batch" ELSE "bridge")
  /\ UNCHANGED <<stored, outcome, day>>

EndRun ==
  /\ pc = "planned" /\ plan = {}
  /\ Goto("idle")
  /\ UNCHANGED <<stored, run, day, faults>>

-----------------------------------------------------------------------------
(* Extraction.                                                              *)

Good(s) == kind[s].class = "good"

\* ingest_link runs in the process of the bridge, which knows some of its errors as
\* reasons to reject the shortcut; an exception it does not expect ends the bridge.
LinkResult(s) ==
  CASE Good(s) -> "upload"
    [] kind[s].class = "rejected" -> "unextracted"
    [] kind[s].class = "fatal" -> "dead"
    [] OTHER -> "unprocessed"

\* So does ingest_audio, and every error the bridge expects fails the item.
AudioResult(s) ==
  CASE Good(s) -> "upload"
    [] kind[s].class = "fatal" -> "dead"
    [] OTHER -> "unextracted"

\* Images, contents and spreadsheets are extracted by a process of their own: its
\* exit code is all the bridge sees, whether it reports an error or dies of one.
ImageResult(s) == IF Good(s) THEN "upload" ELSE "unextracted"
ContentResult(s) == IF Good(s) THEN "upload" ELSE "unextracted"
SpreadsheetResult(s) == IF Good(s) THEN "upload" ELSE "unextracted"

Result(s) ==
  CASE kind[s].lane = "links" -> LinkResult(s)
    [] kind[s].lane = "audio" -> AudioResult(s)
    [] kind[s].lane = "images" -> ImageResult(s)
    [] kind[s].lane = "content" -> ContentResult(s)
    [] OTHER -> SpreadsheetResult(s)

\* Any extraction may also fail by chance, and its files after it; a link is then
\* left for a retry.
Extract ==
  /\ pc = "extract"
  /\ \/ Result(subject) = "dead" /\ Stop /\ UNCHANGED <<faults, errors>>
     \/ Result(subject) # "dead" /\ Goto(Result(subject)) /\ UNCHANGED <<faults, run>>
     \/ kind[subject].lane # "links" /\ Fault /\ Goto("unextracted") /\ UNCHANGED run
     \/ Fault /\ Goto("unprocessed") /\ UNCHANGED run
  /\ UNCHANGED <<stored, day>>

\* A video is one of a batch: its process either writes the package or fails.
VideoResult(s) == IF Good(s) THEN "ok" ELSE "bad"

\* The bridge of the videos downloads its items, as far as it can, and one batch
\* extracts them all, each in a process of its own: some may fail, or all of them
\* with the batch.
RunBatch ==
  /\ pc = "batch"
  /\ \E lost \in SUBSET todo : \E bad \in SUBSET (todo \ lost) :
       /\ \A s \in todo \ (lost \cup bad) : VideoResult(s) = "ok"
       /\ IF lost = {} /\ \A s \in bad : VideoResult(s) = "bad" THEN UNCHANGED faults ELSE Fault
       /\ outcome' = [s \in Source |-> CASE s \in lost -> "lost"
                                         [] s \in bad -> "bad"
                                         [] s \in todo \ (lost \cup bad) -> "ok"
                                         [] OTHER -> "none"]
  /\ Goto("bridge")
  /\ UNCHANGED <<stored, todo, errors, plan, day>>

-----------------------------------------------------------------------------
(* process_one of a bridge.                                                 *)

Strict == {"links", "images", "audio"}
Video(s) == kind[s].lane = "videos"

\* The bridge of the videos does not look whether the destination is taken.
Destination(folder, s) == IF Video(s) THEN At(folder, item, s) ELSE SafeDestination(folder, item, s)

\* The file of the item goes to `folder`, or the call fails.
Move(folder, done, failed) ==
  LET from == At("inbox", item, subject) to == Destination(folder, subject) IN
  IF Exists("inbox", item, subject)
  THEN \/ PutAt(from, to) /\ Goto(done) /\ UNCHANGED faults
       \/ FailedMove(from, to) /\ Goto(failed)
  ELSE Goto(failed) /\ UNCHANGED <<loc, faults>>

\* Writes the central record; the answer matters to no later step, except for a
\* rejected link.
Persist(r) ==
  \/ record' = [record EXCEPT ![subject] = r] /\ UNCHANGED faults
  \/ Fault /\ UNCHANGED record

\* The item is done with; `failed` when its bridge counts it as an error.
Handled(failed) ==
  /\ Finish("bridge")
  /\ errors' = (errors \/ (failed /\ kind[subject].lane \in Strict))
  /\ UNCHANGED <<plan, outcome, day>>

\* The items are taken oldest first.  A complete package whose record says
\* processed is only finished.
Oldest(s) == \A x \in todo : Age[s] <= Age[x]

PickItem(s) ==
  /\ pc = "bridge" /\ s \in todo /\ Oldest(s) /\ ~Video(s)
  /\ Begin(IF package[s] = "complete" /\ packageRecord[s].status = "processed"
           THEN "reuse" ELSE "fetch", s, loc[s][3])
  /\ UNCHANGED <<stored, run, day, faults>>

\* The bridge of the videos looks for no package.  It may fail to complete one.
PickVideo(s) ==
  /\ pc = "bridge" /\ s \in todo /\ Oldest(s) /\ Video(s)
  /\ \/ /\ Begin(CASE outcome[s] = "lost" -> "unprocessed"
                   [] outcome[s] = "bad" -> "unextracted"
                   [] OTHER -> "upload", s, loc[s][3])
        /\ UNCHANGED faults
     \/ outcome[s] = "ok" /\ Fault /\ Begin("unprocessed", s, loc[s][3])
  /\ UNCHANGED <<stored, run, day>>

Reuse ==
  /\ pc = "reuse"
  /\ Move("processed", "restore", "fetch")
  /\ UNCHANGED <<package, packageRecord, record, attempts, run, day>>

Restore ==
  /\ pc = "restore"
  /\ Persist(packageRecord[subject])
  /\ Handled(FALSE)
  /\ UNCHANGED <<loc, package, packageRecord, attempts>>

Fetch ==
  /\ pc = "fetch"
  /\ \/ In("inbox", subject) /\ Goto("extract") /\ UNCHANGED faults
     \/ ~In("inbox", subject) /\ Goto("unprocessed") /\ UNCHANGED faults
     \/ Fault /\ Goto("unprocessed")
  /\ UNCHANGED <<stored, run, day>>

\* A source that could not be fetched, or whose package could not be completed or
\* uploaded, stays where it is; so does a link that failed for no known reason.
MarkUnprocessed ==
  /\ pc = "unprocessed"
  /\ Persist(Failure("other", item, "inbox"))
  /\ Handled(TRUE)
  /\ UNCHANGED <<loc, package, packageRecord, attempts>>

\* Rejected links and sources that could not be extracted go to the error folder.
MoveToError ==
  /\ pc = "unextracted"
  /\ Move("error", "in_error", "not_in_error")
  /\ UNCHANGED <<package, packageRecord, record, attempts, run, day>>

\* A link is rejected, and no error, when it was moved and recorded.
MarkInError ==
  LET link == kind[subject].lane = "links" IN
  /\ pc \in {"in_error", "not_in_error"}
  /\ Persist(Record("error", "other", ~link, item,
                    IF pc = "in_error" THEN "error" ELSE "inbox"))
  /\ Handled(~(link /\ pc = "in_error" /\ faults' = faults))
  /\ UNCHANGED <<loc, package, packageRecord, attempts>>

\* Mutant of Upload: a failed upload is not noticed.
UploadUnchecked ==
  /\ pc = "upload"
  /\ \/ /\ package' = [package EXCEPT ![subject] = "complete"]
        /\ packageRecord' = [packageRecord EXCEPT ![subject] =
                               Record("processed", "none", FALSE, item, "processed")]
        /\ UNCHANGED faults
     \/ Fault /\ UNCHANGED <<package, packageRecord>>
  /\ Goto("move")
  /\ UNCHANGED <<loc, record, attempts, run, day>>

\* The files of a package are uploaded one by one, its record among them.
Upload ==
  LET r == Record("processed", "none", FALSE, item, "processed") IN
  /\ pc = "upload"
  /\ \/ /\ package' = [package EXCEPT ![subject] = "complete"]
        /\ packageRecord' = [packageRecord EXCEPT ![subject] = r]
        /\ Goto("move") /\ UNCHANGED faults
     \/ /\ Fault
        /\ package' = [package EXCEPT ![subject] = IF @ = "complete" THEN @ ELSE "partial"]
        /\ packageRecord' \in {packageRecord, [packageRecord EXCEPT ![subject] = r]}
        /\ Goto("unprocessed")
  /\ UNCHANGED <<loc, record, attempts, run, day>>

MoveToProcessed ==
  /\ pc = "move"
  /\ Move("processed", "log", "left")
  /\ UNCHANGED <<package, packageRecord, record, attempts, run, day>>

\* The central record and the record of the package both say source_move_failed,
\* as far as their writes succeed.
MarkLeft ==
  LET r == Failure("move", item, "inbox") IN
  /\ pc = "left"
  /\ \/ /\ record' = [record EXCEPT ![subject] = r]
        /\ packageRecord' = [packageRecord EXCEPT ![subject] = r]
        /\ UNCHANGED faults
     \/ /\ Fault
        /\ \/ UNCHANGED record /\ packageRecord' = [packageRecord EXCEPT ![subject] = r]
           \/ record' = [record EXCEPT ![subject] = r] /\ UNCHANGED packageRecord
  /\ Handled(TRUE)
  /\ UNCHANGED <<loc, package, attempts>>

Log ==
  /\ pc = "log"
  /\ Persist(packageRecord[subject])
  /\ Handled(FALSE)
  /\ UNCHANGED <<loc, package, packageRecord, attempts>>

\* The next bridge starts, unless this one failed.
EndBridge ==
  /\ pc = "bridge" /\ todo = {}
  /\ IF errors THEN Stop ELSE Goto("planned") /\ UNCHANGED <<todo, plan>>
  /\ outcome' = NoOutcome /\ errors' = FALSE
  /\ UNCHANGED <<stored, day, faults>>

Ingest ==
  \/ Plan \/ StartBridge \/ EndRun \/ Extract \/ RunBatch
  \/ Reuse \/ Restore \/ Fetch \/ MarkUnprocessed \/ MoveToError \/ MarkInError
  \/ Upload \/ MoveToProcessed \/ MarkLeft \/ Log \/ EndBridge
  \/ \E s \in Source : PickItem(s) \/ PickVideo(s)
=============================================================================
