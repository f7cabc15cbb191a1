------------------------------- MODULE MCRepl -------------------------------
(***************************************************************************)
(* For model checking: the terminal loop and the text helpers, and beside  *)
(* them the stream of a response, which shares no state with either.       *)
(***************************************************************************)
EXTENDS MCTerminal

CONSTANTS Producers, Chain, MaxSent  \* ResponseStream

VARIABLES producer, task, attempt, lines, p, st, consumer, taken, pushed

A == INSTANCE ResponseStream WITH MaxLines <- MaxSent

ASSUME StreamAssumption == A!ResponseAssumption

responseVars ==
  <<producer, task, attempt, lines, p, st, consumer, taken, pushed>>

InitBoth ==
  /\ part \in {"repl", "helpers", "response"}
  /\ part # "response" => producer = CHOOSE n \in Producers : TRUE
  /\ Started /\ A!Init

NextBoth ==
  \/ NextAll /\ UNCHANGED responseVars
  \/ part = "response" /\ A!Next /\ UNCHANGED <<part, vars, helperVars>>

FairBoth ==
  /\ InitBoth /\ [][NextBoth]_<<part, vars, helperVars, responseVars>>
  /\ WF_vars(part = "repl" /\ Loop) /\ WF_vars(part = "repl" /\ Turn)

-----------------------------------------------------------------------------
(***************************************************************************)
(* Properties                                                              *)
(***************************************************************************)

(* ResponseStream: the consumer gets the answer that the provider sent.    *)
AnswerArrives == part = "response" => A!AnswerArrives
=============================================================================
