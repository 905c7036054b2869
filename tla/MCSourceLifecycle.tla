-------------------------- MODULE MCSourceLifecycle --------------------------
(* Instances of SourceLifecycle for TLC.                                    *)
EXTENDS SourceLifecycle, TLC

CONSTANTS s1, s2

OwnNames == s1 :> "a" @@ s2 :> "b"
SameName == s1 :> "a" @@ s2 :> "a"

\* s1 is the older one.
Ages == s1 :> 1 @@ s2 :> 2

\* MAX_BATCH, cut down to what two sources can fill.
Batches == [l \in Lane |-> IF l = "audio" THEN 1 ELSE 2]

Pair(lane1, class1, lane2, class2) ==
  s1 :> [lane |-> lane1, class |-> class1] @@ s2 :> [lane |-> lane2, class |-> class2]

\* A source that fails before a good one: in one lane, in a lane that runs earlier,
\* in the other heavy lane; and a format that no bridge takes.
Mixed ==
  {Pair("images", "broken", "images", "good"),
   Pair("links", "rejected", "links", "broken"),
   Pair("links", "broken", "content", "good"),
   Pair("audio", "broken", "videos", "good"),
   Pair("audio", "unsupported", "videos", "broken"),
   Pair("content", "broken", "spreadsheets", "good")}

GoodVideos == {Pair("videos", "good", "videos", "good")}

\* A shortcut that is not well-formed XML, and a sheet behind it.
FatalLink == {Pair("links", "fatal", "spreadsheets", "good")}
=============================================================================
