------------------------------- MODULE Runtime -------------------------------
(***************************************************************************)
(* The autonomous runtime: AgentRuntime.run takes a goal through plan,     *)
(* execute, verify and replan, one AgentSession.prompt per step, under the *)
(* goal's budget and, if there is one, a policy engine.  A telemetry       *)
(* recorder listens to the session and to the runs.  Runs follow each      *)
(* other on one session, as the jobs of a scheduler's tick do.             *)
(***************************************************************************)
EXTENDS RuntimeState

runVars == <<run, plan, current, planned, status, stopReason, failed, decisions>>
goal    == <<budget, constrained>>
policy  == <<mode, spec, audit, confirmed>>
session == <<stopping, notes, told, call, calls>>
trace   == <<unfinished, opened, recorded, raised>>
vars == <<phase, runVars, goal, policy, session, trace>>

NoNote == [run |-> 0, decisions |-> 0]

Init ==
  /\ phase = "idle"
  /\ run = 0 /\ plan = <<>> /\ current = 1 /\ planned = 0
  /\ status = "pending" /\ stopReason = "none" /\ failed = FALSE /\ decisions = <<>>
  /\ budget = [limit |-> NoLimit, used |-> 0, late |-> FALSE] /\ constrained = FALSE
  /\ mode \in {"none", "default", "strict", "permissive"}
  /\ spec \in Registries /\ audit = {} /\ confirmed = {}
  /\ stopping = FALSE /\ notes = <<>> /\ told = NoNote /\ call = 0 /\ calls = 0
  /\ unfinished = {} /\ opened = [t \in Tools |-> 0] /\ recorded = <<>> /\ raised = 0

-----------------------------------------------------------------------------
(* Plans.                                                                  *)

Step(objective, attempts) == [objective |-> objective, attempts |-> attempts]

IsComplete == current > Len(plan)

InsertAfter(steps, i, step) == SubSeq(steps, 1, i) \o <<step>> \o SubSeq(steps, i + 1, Len(steps))

-----------------------------------------------------------------------------
(* The start and the end of a run.                                         *)

(* A goal used again keeps its budget, which the run shares with it.       *)
Run(n, limit, again) ==
  /\ phase \in {"idle", "over"}
  /\ run < MaxRuns
  /\ phase' = "head"
  /\ run' = run + 1
  /\ plan' = [i \in 1..n |-> Step(i, 0)]
  /\ current' = 1
  /\ planned' = n
  /\ status' = "running" /\ stopReason' = "none" /\ failed' = FALSE /\ decisions' = <<>>
  /\ IF again
     THEN run > 0 /\ UNCHANGED goal
     ELSE /\ budget' = [limit |-> limit, used |-> 0, late |-> FALSE]
          /\ constrained' \in BOOLEAN
  /\ UNCHANGED <<policy, session, trace>>

(* record_run: one span for the whole run.                                 *)
RecordRun(error) == recorded' = Append(recorded, error)

Finish(finalStatus, reason) ==
  /\ phase' = "over"
  /\ status' = finalStatus
  /\ stopReason' = reason
  /\ failed' = (finalStatus # "done")

-----------------------------------------------------------------------------
(* The head of the loop.                                                   *)

\* Mutant: the limit is only met when it is passed.
ExceededLate(late) ==
  IF budget.limit # NoLimit /\ budget.used > budget.limit THEN "max_iterations"
  ELSE IF late THEN "deadline"
  ELSE "no"

(* Nothing records tokens, cost or tool calls, so those limits never bite. *)
Exceeded(late) ==
  IF budget.limit # NoLimit /\ budget.used >= budget.limit THEN "max_iterations"
  ELSE IF late THEN "deadline"
  ELSE "no"

Complete ==
  /\ phase = "head"
  /\ IsComplete
  /\ Finish("done", "completed")
  /\ RecordRun(FALSE)
  /\ UNCHANGED <<run, plan, current, planned, decisions, goal, policy, session,
                 unfinished, opened, raised>>

(* The clock is read here only; a deadline that is past stays past.        *)
StopOnBudget(late) ==
  /\ phase = "head"
  /\ ~IsComplete
  /\ budget.late => late
  /\ Exceeded(late) # "no"
  /\ Finish("stopped", IF Exceeded(late) = "max_iterations" THEN "max_iterations"
                       ELSE "budget_exceeded")
  /\ RecordRun(TRUE)
  /\ budget' = [budget EXCEPT !.late = late]
  /\ UNCHANGED <<run, plan, current, planned, decisions, constrained, policy, session,
                 unfinished, opened, raised>>

\* Mutant: with nobody to ask, what should be asked is allowed.
DecisionOpen(tool, yes) ==
  IF spec[tool] \in {"unregistered", "unavailable"} THEN "refuse" ELSE "allow"

(* _decide, and what becomes of an ask: a callback's answer, or a denial.  *)
Decision(tool, yes) ==
  IF spec[tool] \in {"unregistered", "unavailable"} THEN "refuse"
  ELSE IF mode = "permissive" THEN "allow"
  ELSE IF spec[tool] = "high" \/ (mode = "strict" /\ spec[tool] = "medium")
  THEN IF yes THEN "allow" ELSE "deny"
  ELSE "allow"

(* evaluate_active_tools stops at the first tool that is not allowed.      *)
Stopper(yes) ==
  LET bad == {i \in 1..Len(ActiveTools) : Decision(ActiveTools[i], yes[i]) # "allow"}
  IN  IF mode = "none" \/ bad = {} THEN 0 ELSE CHOOSE i \in bad : \A j \in bad : i <= j

(* The tools evaluated and allowed before that.                            *)
Allowed(yes) ==
  LET last == IF Stopper(yes) = 0 THEN Len(ActiveTools) ELSE Stopper(yes) - 1
  IN  IF mode = "none" THEN {} ELSE {ActiveTools[i] : i \in 1..last}

\* Mutant: only the constraints of the goal make a note.
NoteOfConstraints ==
  IF constrained THEN <<[run |-> run, decisions |-> Len(decisions)]>> ELSE <<>>

(* render_working_set_note: constraints and decisions, if there are any.   *)
Note ==
  IF constrained \/ decisions # <<>>
  THEN <<[run |-> run, decisions |-> Len(decisions)]>>
  ELSE <<>>

(* The step counts its attempt and the run its iteration before anything   *)
(* can refuse it.                                                          *)
Execute(yes) ==
  /\ phase = "head"
  /\ ~IsComplete
  /\ Exceeded(budget.late) = "no"
  /\ budget' = [budget EXCEPT !.used = @ + 1]
  /\ plan' = [plan EXCEPT ![current].attempts = @ + 1]
  /\ audit' = Allowed(yes)
  /\ confirmed' = {t \in Allowed(yes) : \E i \in 1..Len(ActiveTools) : ActiveTools[i] = t /\ yes[i]}
  /\ IF Stopper(yes) # 0
     THEN /\ Finish("failed", "error")
          /\ RecordRun(TRUE)
          /\ notes' = notes
     ELSE /\ phase' = "prompting"
          /\ notes' = notes \o Note
          /\ UNCHANGED <<status, stopReason, failed, recorded>>
  /\ calls' = 0
  /\ UNCHANGED <<run, current, planned, decisions, constrained, mode, spec, stopping,
                 told, call, unfinished, opened, raised>>

-----------------------------------------------------------------------------
(* AgentSession.prompt and what the recorder hears of it.                  *)

(* The first round: the notes are heard, unless a stop is pending.         *)
Stream ==
  /\ phase = "prompting"
  /\ ~stopping
  /\ phase' = "streaming"
  /\ told' = IF notes = <<>> THEN told ELSE notes[Len(notes)]
  /\ notes' = <<>>
  /\ UNCHANGED <<runVars, goal, policy, stopping, call, calls, trace>>

(* Spans that ended do not matter any more: their numbers are used again.  *)
NewSpan(i) ==
  [id   |-> CHOOSE n \in 1..(Cardinality(unfinished) + 1) : \A s \in unfinished : s.id # n,
   name |-> ActiveTools[i]]

ToolCallStart(i) ==
  /\ phase = "streaming"
  /\ calls < MaxCalls
  /\ phase' = "calling"
  /\ call' = i
  /\ calls' = calls + 1
  /\ unfinished' = unfinished \cup {NewSpan(i)}
  /\ opened' = [opened EXCEPT ![ActiveTools[i]] = NewSpan(i).id]
  /\ UNCHANGED <<runVars, goal, policy, stopping, notes, told, recorded, raised>>

\* Mutant: the finished span stays the tool's open span.
KeepSpan(tool) == opened

CloseSpan(tool) == [opened EXCEPT ![tool] = 0]

ToolCallEnd ==
  /\ phase = "calling"
  /\ phase' = "streaming"
  /\ call' = 0
  /\ unfinished' = {s \in unfinished : s.id # opened[ActiveTools[call]]}
  /\ opened' = CloseSpan(ActiveTools[call])
  /\ UNCHANGED <<runVars, goal, policy, stopping, notes, told, calls, recorded, raised>>

(* verify, replan, advance: all before the loop's next step.               *)
Verified(outcome) == outcome = "text"

\* Mutant: a repair step counts its attempts anew.
RepairAfresh == InsertAfter(plan, current, Step(plan[current].objective, 0))

Repaired == InsertAfter(plan, current, Step(plan[current].objective, plan[current].attempts))

\* Mutant: a failed step is given up by moving on.
ReplanOrSkip ==
  /\ phase' = "head"
  /\ current' = current + 1
  /\ plan' = IF plan[current].attempts < MaxAttemptsPerStep
             THEN Repaired
             ELSE plan
  /\ UNCHANGED <<status, stopReason, failed, recorded>>

Replan ==
  IF plan[current].attempts < MaxAttemptsPerStep
  THEN /\ phase' = "head"
       /\ plan' = Repaired
       /\ current' = current + 1
       /\ UNCHANGED <<status, stopReason, failed, recorded>>
  ELSE /\ UNCHANGED <<plan, current>>
       /\ Finish("failed", "error")
       /\ RecordRun(TRUE)

Returns(outcome) ==
  /\ IF Verified(outcome)
     THEN /\ phase' = "head"
          /\ plan' = plan
          /\ decisions' = Append(decisions, plan[current].objective)
          /\ current' = current + 1
          /\ UNCHANGED <<status, stopReason, failed, recorded>>
     ELSE /\ Replan
          /\ decisions' = decisions
  /\ UNCHANGED <<run, planned, goal, policy, notes, told, call, calls, unfinished, opened,
                 raised>>

PromptReturns(outcome) ==
  /\ phase = "streaming"
  /\ UNCHANGED stopping
  /\ Returns(outcome)

\* Mutant: the stop is looked at after a round of tools only.
AbortedAfterTools ==
  /\ phase = "streaming" /\ calls > 0
  /\ stopping
  /\ stopping' = FALSE
  /\ Returns("aborted")

(* A stop ends the prompt at the head of a round, the first one included;  *)
(* the runtime takes it for a failed attempt.                              *)
Aborted ==
  /\ phase \in {"prompting", "streaming"}
  /\ phase = "streaming" => calls > 0
  /\ stopping
  /\ stopping' = FALSE
  /\ Returns("aborted")

PromptRaises ==
  /\ phase \in {"prompting", "streaming", "calling"}
  /\ Finish("failed", "error")
  /\ RecordRun(TRUE)
  /\ raised' = raised + 1
  /\ call' = 0
  /\ UNCHANGED <<run, plan, current, planned, decisions, goal, policy, stopping,
                 notes, told, calls, unfinished, opened>>

-----------------------------------------------------------------------------
RequestStop ==
  /\ ~stopping
  /\ stopping' = TRUE
  /\ UNCHANGED <<phase, runVars, goal, policy, notes, told, call, calls, trace>>

Advance ==
  \/ Complete \/ Stream \/ ToolCallEnd \/ Aborted
  \/ \E late \in BOOLEAN : StopOnBudget(late)
  \/ \E yes \in [1..Len(ActiveTools) -> BOOLEAN] : Execute(yes)
  \/ \E outcome \in {"text", "empty", "error"} : PromptReturns(outcome)

Next ==
  \/ Advance
  \/ \E n \in 1..MaxPlanned, limit \in Limits, again \in BOOLEAN : Run(n, limit, again)
  \/ \E i \in 1..Len(ActiveTools) : ToolCallStart(i)
  \/ PromptRaises \/ RequestStop

Spec == Init /\ [][Next]_vars

(* The runtime's coroutine goes on when its prompt does, and prompts end.  *)
FairSpec == Spec /\ WF_vars(Advance)

-----------------------------------------------------------------------------
(* A run ends, whatever its prompts answer: with a limit or without, it    *)
(* does not replan for ever (AgentRuntime.run).                            *)
RunEnds == phase = "head" ~> phase = "over"
=============================================================================
