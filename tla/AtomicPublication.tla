-------------------------- MODULE AtomicPublication --------------------------
(***************************************************************************)
(* What controlled publication promises a reader of the library: it looks   *)
(* at the library only while no publication is open, and what it then sees  *)
(* is exactly the result of the last publication that committed, complete,  *)
(* with nothing of the ones that were rolled back or abandoned.             *)
(***************************************************************************)
CONSTANTS
  Run,      \* publications
  NoRun,
  Base,     \* the library before the first of them
  Image(_)  \* the bytes of the library after a publication, or of Base

VARIABLES
  open,     \* the publication in progress, or NoRun
  content,  \* the last publication that committed, or Base
  shown     \* what a reader sees, or NoRun while a publication is open

publicationVars == <<open, content, shown>>

Init ==
  /\ open = NoRun
  /\ content = Base
  /\ shown = Image(Base)

Begin(r) ==
  /\ open = NoRun
  /\ open' = r
  /\ shown' = NoRun
  /\ UNCHANGED content

Commit ==
  /\ open # NoRun
  /\ content # open
  /\ content' = open
  /\ UNCHANGED <<open, shown>>

Close ==
  /\ open # NoRun
  /\ open' = NoRun
  /\ shown' = Image(content)
  /\ UNCHANGED content

Next == (\E r \in Run : Begin(r)) \/ Commit \/ Close

Spec == Init /\ [][Next]_publicationVars
=============================================================================
