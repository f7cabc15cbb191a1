----------------------------- MODULE MCSession -----------------------------
(***************************************************************************)
(* The agent session with its history and, beside it, the live box of the  *)
(* terminal, to which a session's events come as input in any order they   *)
(* may have: a behaviour is about one of them.                             *)
(***************************************************************************)
EXTENDS AgentSessionHistory

CONSTANTS
  Width, ShortLine, LongLine, MenuRows, MaxText, MaxPrints, MaxLines, LineKinds \* LiveBox

VARIABLES
  part,  \* "session" or "box"
  posix, box, live, status, buf, reader, phase, stream, todo, prints, lines,
  paper, clean, stale

boxVars ==
  <<posix, box, live, status, buf, reader, phase, stream, todo, prints, lines,
    paper, clean, stale>>

B == INSTANCE LiveBox

ASSUME B!LiveBoxAssumption

InitBoth ==
  /\ part \in {"session", "box"}
  /\ part = "session" => posix = FALSE
  /\ part = "box" => model = CHOOSE m \in Models : TRUE
  /\ InitH /\ B!Init

(* The box is followed until a print meets it: nothing is claimed of what  *)
(* comes after, which LiveBox.cfg shows.  An idle terminal may stay idle.  *)
NextBoth ==
  \/ part = "session" /\ NextH /\ UNCHANGED <<part, boxVars>>
  \/ part = "box" /\ clean /\ B!Next /\ UNCHANGED <<part, vars, history>>
  \/ part = "box" /\ UNCHANGED <<part, vars, history, boxVars>>

(* As FairSpecH, where the session is what the behaviour is about.         *)
FairBoth ==
  /\ InitBoth /\ [][NextBoth]_<<part, vars, history, boxVars>>
  /\ WF_vars(part = "session" /\ Advance)

(* LiveBox: below the transcript stands one box, an erase leaves nothing   *)
(* of it, and the shell's prompt comes below it.                           *)
BoxLeavesNoTrace == part = "box" => B!BoxLeavesNoTrace
=============================================================================
