---------------------------- MODULE RuntimeState ----------------------------
(***************************************************************************)
(* The state of the autonomous runtime, of the session it prompts and of   *)
(* what its recorder traces; and what the steps of Runtime must keep true  *)
(* of it.                                                                  *)
(***************************************************************************)
EXTENDS Integers, Sequences, FiniteSets

CONSTANTS
  ActiveTools, \* the session's active tools, in order
  Limits,      \* values of max_iterations
  NoLimit,     \* the value None of max_iterations
  Registries,  \* what a registry may know of each active tool: its risk, or why
               \* the tool is refused
  MaxPlanned,  \* bound: steps a planner plans (the built-in one plans one)
  MaxRuns,     \* bound: runs on the session
  MaxCalls     \* bound: tool calls in one prompt

Tools == {ActiveTools[i] : i \in 1..Len(ActiveTools)}

ASSUME RuntimeAssumption ==
  /\ ActiveTools \in Seq(Tools) /\ IsFiniteSet(Tools)
  /\ Registries \subseteq [Tools -> {"low", "medium", "high", "unregistered", "unavailable"}]
  /\ NoLimit \notin Nat
  /\ Limits # {} /\ Limits \subseteq Nat \cup {NoLimit}
  /\ MaxPlanned \in Nat \ {0} /\ {MaxRuns, MaxCalls} \subseteq Nat

VARIABLES
  phase,        \* "idle", the loop's "head", the await of "prompt" split in
                \* "prompting", "streaming" and "calling", and "over"
  run,          \* number of the run
  plan,         \* plan.steps: objective and attempts of each
  current,      \* plan.current_step_index, counted from 1
  planned,      \* number of objectives the planner planned
  status,       \* state.status
  stopReason,   \* state.stop_reason
  failed,       \* state.error_message is set
  decisions,    \* state.decisions: the objectives completed
  budget,       \* of the goal: max_iterations, consumed_iterations, deadline past
  constrained,  \* the goal has constraints
  mode,         \* of the policy engine; "none" without one
  spec,         \* the registry
  audit,        \* audit_log: the tools allowed for the attempt in progress
  confirmed,    \* history: tools the callback said yes to for that attempt
  stopping,     \* _stop_requested of the session
  notes,        \* context notes among the session's pending steers
  told,         \* history: the note the model heard last
  call,         \* the tool call in progress, 0 when there is none
  calls,        \* tool calls of the prompt so far
  unfinished,   \* the trace's spans of tool calls that have not ended
  opened,       \* _open_tool_spans: the span of a tool, 0 when there is none
  recorded,     \* the trace's spans of runs: did the run end in error
  raised        \* history: prompts that raised

Reasons == {"completed", "budget_exceeded", "max_iterations", "error"}

MaxAttemptsPerStep == 2

-----------------------------------------------------------------------------
(***************************************************************************)
(* Properties                                                              *)
(***************************************************************************)

RuntimeTyped ==
  /\ phase \in {"idle", "head", "prompting", "streaming", "calling", "over"}
  /\ plan \in Seq([objective : Nat, attempts : Nat])
  /\ status \in {"pending", "running", "done", "failed", "stopped"}
  /\ stopReason \in Reasons \cup {"none"}
  /\ decisions \in Seq(Nat)
  /\ budget \in [limit : Nat \cup {NoLimit}, used : Nat, late : BOOLEAN]
  /\ spec \in Registries /\ audit \subseteq Tools /\ confirmed \subseteq Tools
  /\ notes \in Seq([run : Nat, decisions : Nat])
  /\ unfinished \subseteq [id : Nat \ {0}, name : Tools]
  /\ recorded \in Seq(BOOLEAN)
  /\ opened \in [Tools -> Nat]
  /\ run \in Nat /\ current \in Nat /\ planned \in Nat
  /\ call \in Nat /\ calls \in Nat /\ raised \in Nat
  /\ failed \in BOOLEAN /\ constrained \in BOOLEAN /\ stopping \in BOOLEAN

(* A run that ends says why: completed means that every objective of the   *)
(* plan passed its verification, in order, however often steps were        *)
(* repaired; otherwise there is an error message and an objective unmet    *)
(* ("Never accept 'parece que funcionou' as proof", "never returns without *)
(* a stop reason").                                                        *)
StopReasonHonest ==
  phase = "over" =>
    /\ stopReason \in Reasons
    /\ status = CASE stopReason = "completed" -> "done"
                  [] stopReason = "error"     -> "failed"
                  [] OTHER                    -> "stopped"
    /\ stopReason = "completed" <=> decisions = [i \in 1..planned |-> i]
    /\ failed <=> stopReason # "completed"

(* Repairs never loop: an objective is tried at most twice, the plan keeps *)
(* the objectives in order with their attempts counted through, and all    *)
(* runs of a goal together stay within its limit of iterations (Replanner, *)
(* "Real, enforced limits").                                               *)
WorkBounded ==
  /\ \A i \in 1..Len(plan) :
       /\ plan[i].attempts <= MaxAttemptsPerStep
       /\ i > 1 =>
            \/ plan[i].objective = plan[i - 1].objective + 1
            \/ /\ plan[i].objective = plan[i - 1].objective
               /\ plan[i].attempts \in {plan[i - 1].attempts, plan[i - 1].attempts + 1}
  /\ Len(plan) <= MaxAttemptsPerStep * planned
  /\ budget.limit # NoLimit => budget.used <= budget.limit

(* With a policy engine the session works on a step only when every active *)
(* tool was evaluated for that very attempt, none of them is unknown or    *)
(* lacks its environment, and what is risky in the mode was confirmed      *)
(* (tools.py: never treat "should ask" as "should allow").                 *)
PolicyEnforced ==
  phase \in {"prompting", "streaming", "calling"} /\ mode # "none" =>
    /\ audit = Tools
    /\ \A t \in Tools :
         /\ spec[t] \notin {"unregistered", "unavailable"}
         /\ mode # "permissive" /\ spec[t] = "high" => t \in confirmed
         /\ mode = "strict" /\ spec[t] = "medium" => t \in confirmed

(* The model knows of all decisions of the run when it works on a step,    *)
(* also after an attempt that was aborted before it heard the note meant   *)
(* for it (context.py: "preserve decisoes").                               *)
DecisionsReachModel ==
  phase \in {"streaming", "calling"} /\ decisions # <<>> =>
    told.run = run /\ told.decisions = Len(decisions)

(* Each call's span is finished by the end of that very call: a span that  *)
(* is open belongs to the call in progress or to a prompt that raised, and *)
(* every run that ended has one span, in error unless it completed.        *)
SpansAccounted ==
  /\ Cardinality(unfinished) <= raised + IF call = 0 THEN 0 ELSE 1
  /\ call # 0 => opened[ActiveTools[call]] # 0
  /\ \A t \in Tools : opened[t] # 0 => [id |-> opened[t], name |-> t] \in unfinished
  /\ Len(recorded) = IF phase \in {"idle", "over"} THEN run ELSE run - 1
  /\ phase = "over" => recorded[run] = failed

(* A run ends with an honest reason, within the limits of its goal, under  *)
(* the policy, with the model told of the decisions and one span for each  *)
(* thing done (AgentRuntime.run).                                          *)
RuntimeSound ==
  /\ RuntimeTyped /\ StopReasonHonest /\ WorkBounded /\ PolicyEnforced
  /\ DecisionsReachModel /\ SpansAccounted
=============================================================================
