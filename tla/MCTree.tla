------------------------------- MODULE MCTree -------------------------------
(***************************************************************************)
(* The tree of a conversation and the wire that a client follows it on,    *)
(* side by side for model checking.  They share no state: a behaviour      *)
(* chooses one of them and keeps to it.                                    *)
(***************************************************************************)
EXTENDS SessionTree, TLC

CONSTANTS
  Clients, LenBase, MaxFrame, MaxDepth, MaxItems, MaxCommands, MaxSends, Pieces

VARIABLES
  part,  \* "tree" or "wire"
  live, holders, commands, wire, sent, buffer, state, failed, got, arrived,
  clientView

W == INSTANCE Wire WITH SessionIds <- Sessions, view <- clientView

ASSUME WireAssumption == W!WireAssumption

wireVars ==
  <<live, holders, commands, wire, sent, buffer, state, failed, got, arrived,
    clientView>>

(* The one that is not chosen stands still in one initial state.           *)
InitBoth ==
  /\ part \in {"tree", "wire"}
  /\ part = "wire" => backing = "memory" /\ users = Handles
  /\ Init /\ W!Init

NextBoth ==
  \/ part = "tree" /\ Next /\ UNCHANGED <<part, wireVars>>
  \/ part = "wire" /\ W!Next /\ UNCHANGED <<part, vars>>

SpecBoth == InitBoth /\ [][NextBoth]_<<part, vars, wireVars>>

(* The handles and the clients are the same two model values.              *)
Symmetry == Permutations(Sessions) \cup Permutations(Handles)

(* What a client hears and shows is what the server did.                   *)
Remote == part = "wire" => W!Remote
=============================================================================
