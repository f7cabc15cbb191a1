----------------------------- MODULE MCRuntime -----------------------------
(***************************************************************************)
(* The runtime and, beside it, the job table whose jobs it runs: a job is  *)
(* opaque to Scheduler, so the two share no state, and a behaviour is      *)
(* about one of them.                                                      *)
(***************************************************************************)
EXTENDS Scheduler, RuntimeState

VARIABLE part  \* "jobs" or "runtime"

runtimeVars ==
  <<phase, run, plan, current, planned, status, stopReason, failed,
    decisions, budget, constrained, mode, spec, audit, confirmed, stopping,
    notes, told, call, calls, unfinished, opened, recorded, raised>>

R == INSTANCE Runtime

TwoTools == <<"read", "bash">>

TwoRegistries ==
  {[read |-> "low", bash |-> "high"], [read |-> "medium", bash |-> "unregistered"]}

InitBoth ==
  /\ part \in {"jobs", "runtime"}
  /\ part = "jobs" => mode = "none" /\ spec = CHOOSE r \in Registries : TRUE
  /\ Init /\ R!Init

NextBoth ==
  \/ part = "jobs" /\ Next /\ UNCHANGED <<part, runtimeVars>>
  \/ part = "runtime" /\ R!Next /\ UNCHANGED <<part, vars>>

(* The runtime's coroutine goes on when its prompt does, and prompts end;  *)
(* nothing is assumed of the jobs.                                         *)
FairBoth ==
  InitBoth /\ [][NextBoth]_<<part, vars, runtimeVars>> /\ WF_runtimeVars(R!Advance)

(* A run ends, whatever its prompts answer: with a limit or without, it    *)
(* does not replan for ever (AgentRuntime.run).                            *)
EveryRunEnds == R!RunEnds
=============================================================================
