---------------------------- MODULE MCBackground ----------------------------
(***************************************************************************)
(* What runs in the background: the job table under two processes and,     *)
(* beside it, a call of the subagent tool.  A job is not a child: the two  *)
(* share no state, and a behaviour is about one of them.                   *)
(***************************************************************************)
EXTENDS Scheduler, SubagentState

VARIABLE part  \* "jobs" or "children"

S == INSTANCE Subagent

InitBoth ==
  /\ part \in {"jobs", "children"}
  /\ part = "jobs" => mode = "chain"
  /\ Init /\ S!Init

NextBoth ==
  \/ part = "jobs" /\ Next /\ UNCHANGED <<part, subagentVars>>
  \/ part = "children" /\ S!Next /\ UNCHANGED <<part, vars>>

(* As FairSpec of the one that the behaviour is about.                     *)
FairBoth ==
  /\ InitBoth /\ [][NextBoth]_<<part, vars, subagentVars>>
  /\ \A p \in Procs : WF_vars(part = "jobs" /\ Step(p))
  /\ \A i \in Tasks :
       /\ WF_subagentVars(part = "children" /\ S!Slot(i))
       /\ WF_subagentVars(part = "children" /\ S!Exit(i))
       /\ WF_subagentVars(part = "children" /\ S!Driver(i))
       /\ WF_subagentVars(part = "children" /\ S!DriveTimesOut(i))
  /\ \A s \in Stoppers : WF_subagentVars(part = "children" /\ S!Stopping(s))
  /\ WF_subagentVars(part = "children" /\ S!Return)

-----------------------------------------------------------------------------
(***************************************************************************)
(* Properties                                                              *)
(***************************************************************************)

(* Subagent: the tool call ends, unless a driving task broke.              *)
CallReturns == part = "children" => S!CallReturns
=============================================================================
