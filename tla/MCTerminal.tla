----------------------------- MODULE MCTerminal -----------------------------
(***************************************************************************)
(* The terminal loop and, beside it, the text helpers of an editor, which  *)
(* share no state with it: a behaviour is about one of them.               *)
(***************************************************************************)
EXTENDS Repl

CONSTANTS TextSize, MaxEdits  \* TextHelpers

VARIABLE part  \* the component that this behaviour is about

VARIABLES charKind, chars, point, ring, undo, killing, textEdits, before, original

Helpers == INSTANCE TextHelpers WITH kind <- charKind, edits <- textEdits

ASSUME TerminalAssumption == Helpers!TextHelpersAssumption

helperVars ==
  <<charKind, chars, point, ring, undo, killing, textEdits, before, original>>

(* The component that is not chosen stands still in one initial state.     *)
Started ==
  /\ part # "repl" => current = CHOOSE s \in Sessions : TRUE
  /\ part # "helpers" => charKind = [i \in 1..TextSize |-> "word"]
  /\ Init /\ Helpers!Init

InitAll == part \in {"repl", "helpers"} /\ Started

NextAll ==
  \/ part = "repl" /\ Next /\ UNCHANGED <<part, helperVars>>
  \/ part = "helpers" /\ Helpers!Next /\ UNCHANGED <<part, vars>>

(* Loop and Turn as in FairSpec, where the loop is what happens.           *)
FairAll ==
  /\ InitAll /\ [][NextAll]_<<part, vars, helperVars>>
  /\ WF_vars(part = "repl" /\ Loop) /\ WF_vars(part = "repl" /\ Turn)

-----------------------------------------------------------------------------
(***************************************************************************)
(* Properties                                                              *)
(***************************************************************************)

(* TextHelpers: what was killed is in the ring, what was changed is        *)
(* undone.                                                                 *)
KillsComeBack == part = "helpers" => Helpers!KillsComeBack
=============================================================================
