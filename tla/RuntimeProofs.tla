---------------------------- MODULE RuntimeProofs ----------------------------
(***************************************************************************)
(* A run of the autonomous runtime is sound, for every plan, limit,        *)
(* registry, list of tools and number of runs.                             *)
(***************************************************************************)
EXTENDS Runtime, SequenceTheorems, FiniteSetTheorems, TLAPS

-----------------------------------------------------------------------------
(* The inductive invariant.                                                *)

Working == phase \in {"prompting", "streaming", "calling"}

(* The steps that are ahead are the objectives unmet, each for the first   *)
(* time, except that the current one may be a repair.                      *)
PlanAhead ==
  /\ current \in 1..(Len(plan) + 1)
  /\ planned = Len(decisions) + Len(plan) + 1 - current
  /\ \A i \in current..Len(plan) : plan[i].objective = Len(decisions) + 1 + i - current
  /\ \A i \in (current + 1)..Len(plan) : plan[i].attempts = 0

(* The objectives met are the first ones, in order.                        *)
DecisionsInOrder == \A i \in 1..Len(decisions) : decisions[i] = i

(* At the head of the loop the current step, if there is one, has as many  *)
(* attempts as the step it repairs, or none; in a prompt it has one more.  *)
(* What is behind took two steps for each objective met, and one for each  *)
(* attempt at the current one that failed.                                 *)
Tried ==
  /\ phase = "head" /\ current <= Len(plan) =>
       /\ plan[current].attempts < MaxAttemptsPerStep
       /\ current <= MaxAttemptsPerStep * Len(decisions) + 1 + plan[current].attempts
       /\ current > 1 /\ plan[current].objective = plan[current - 1].objective =>
            plan[current].attempts = plan[current - 1].attempts
  /\ phase = "head" /\ current > Len(plan) =>
       current <= MaxAttemptsPerStep * Len(decisions) + 1
  /\ Working =>
       /\ current <= Len(plan)
       /\ plan[current].attempts \in 1..MaxAttemptsPerStep
       /\ current <= MaxAttemptsPerStep * Len(decisions) + plan[current].attempts

(* The note of the prompt in progress is the last one, until it is heard.  *)
NoteWaits ==
  phase = "prompting" /\ decisions # <<>> =>
    /\ notes # <<>>
    /\ notes[Len(notes)].run = run
    /\ notes[Len(notes)].decisions = Len(decisions)

(* A call is in progress in the middle of a prompt only, and the spans     *)
(* that have not ended have numbers of their own.                          *)
SpansApart ==
  /\ IsFiniteSet(unfinished)
  /\ \A s, t \in unfinished : s.id = t.id => s = t
  /\ call \in 0..Len(ActiveTools)
  /\ call # 0 <=> phase = "calling"

RuntimeInv ==
  /\ RuntimeTyped
  /\ PlanAhead /\ DecisionsInOrder /\ Tried /\ WorkBounded
  /\ StopReasonHonest
  /\ PolicyEnforced
  /\ NoteWaits /\ DecisionsReachModel
  /\ SpansApart /\ SpansAccounted

-----------------------------------------------------------------------------
(* Sequences.                                                              *)

LEMMA ToolsTyped ==
  /\ ActiveTools \in Seq(Tools)
  /\ \A i \in 1..Len(ActiveTools) : ActiveTools[i] \in Tools
  /\ Len(ActiveTools) \in Nat
<1>1. ActiveTools \in Seq(Tools)
  BY RuntimeAssumption
<1> QED
  BY <1>1, ElementOfSeq, LenProperties

LEMMA FunctionIsSeq ==
  ASSUME NEW S, NEW n \in Nat, NEW f \in [1..n -> S]
  PROVE  f \in Seq(S) /\ Len(f) = n
BY SeqDef

LEMMA Inserted ==
  ASSUME NEW S, NEW s \in Seq(S), NEW i \in 1..Len(s), NEW x \in S
  PROVE  /\ InsertAfter(s, i, x) \in Seq(S)
         /\ Len(InsertAfter(s, i, x)) = Len(s) + 1
         /\ \A k \in 1..i : InsertAfter(s, i, x)[k] = s[k]
         /\ InsertAfter(s, i, x)[i + 1] = x
         /\ \A k \in (i + 2)..(Len(s) + 1) : InsertAfter(s, i, x)[k] = s[k - 1]
<1> DEFINE a == SubSeq(s, 1, i)
           b == SubSeq(s, i + 1, Len(s))
<1>1. /\ a \in Seq(S) /\ Len(a) = i
      /\ \A k \in 1..i : a[k] = s[k]
  BY SubSeqProperties
<1>2. /\ b \in Seq(S) /\ Len(b) = Len(s) - i
      /\ \A k \in 1..(Len(s) - i) : b[k] = s[k + i]
  BY SubSeqProperties
<1>3. /\ a \o <<x>> \in Seq(S) /\ Len(a \o <<x>>) = i + 1
      /\ \A k \in 1..i : (a \o <<x>>)[k] = s[k]
      /\ (a \o <<x>>)[i + 1] = x
  BY <1>1
<1>4. (a \o <<x>>) \o b \in Seq(S) /\ Len((a \o <<x>>) \o b) = Len(s) + 1
  <2> HIDE DEF a, b
  <2>1. Len(s) \in Nat
    BY LenProperties
  <2>2. (a \o <<x>>) \o b \in Seq(S)
    BY <1>2, <1>3, ConcatProperties
  <2>3. Len((a \o <<x>>) \o b) = Len(a \o <<x>>) + Len(b)
    BY <1>2, <1>3, ConcatProperties
  <2>4. Len((a \o <<x>>) \o b) = (i + 1) + (Len(s) - i)
    BY <1>2, <1>3, <2>3
  <2>5. (i + 1) + (Len(s) - i) = Len(s) + 1
    BY <2>1
  <2> QED
    BY <2>2, <2>4, <2>5
<1>5. \A k \in 1..(i + 1) : ((a \o <<x>>) \o b)[k] = (a \o <<x>>)[k]
  BY <1>2, <1>3
<1>6. \A k \in (i + 2)..(Len(s) + 1) : ((a \o <<x>>) \o b)[k] = s[k - 1]
  <2> HIDE DEF a, b
  <2> SUFFICES ASSUME NEW k \in (i + 2)..(Len(s) + 1)
               PROVE  ((a \o <<x>>) \o b)[k] = s[k - 1]
    OBVIOUS
  <2>1. ((a \o <<x>>) \o b)[k] = b[k - (i + 1)]
    BY <1>2, <1>3, ConcatProperties
  <2>2. k - (i + 1) \in 1..(Len(s) - i) /\ k - (i + 1) + i = k - 1
    OBVIOUS
  <2> QED
    BY <1>2, <2>1, <2>2
<1>7. InsertAfter(s, i, x) = (a \o <<x>>) \o b
  BY DEF InsertAfter
<1> HIDE DEF a, b
<1> QED
  BY <1>3, <1>4, <1>5, <1>6, <1>7

-----------------------------------------------------------------------------
(* Types.                                                                  *)

LEMMA InitSound == Init => RuntimeInv
<1> SUFFICES ASSUME Init
             PROVE  RuntimeInv
  OBVIOUS
<1> USE DEF Init
<1>1. RuntimeTyped
  <2>1. opened \in [Tools -> Nat]
    OBVIOUS
  <2>2. budget \in [limit : Nat \cup {NoLimit}, used : Nat, late : BOOLEAN]
    OBVIOUS
  <2>3. notes = <<>> /\ plan = <<>> /\ decisions = <<>> /\ recorded = <<>>
    OBVIOUS
  <2>4. \A S : <<>> \in Seq(S)
    BY EmptySeq
  <2>5. /\ plan \in Seq([objective : Nat, attempts : Nat])
        /\ decisions \in Seq(Nat)
        /\ notes \in Seq([run : Nat, decisions : Nat])
        /\ recorded \in Seq(BOOLEAN)
    BY <2>3, <2>4
  <2>6. /\ run \in Nat /\ current \in Nat /\ planned \in Nat
        /\ call \in Nat /\ calls \in Nat /\ raised \in Nat
        /\ failed \in BOOLEAN /\ constrained \in BOOLEAN /\ stopping \in BOOLEAN
    OBVIOUS
  <2>7. /\ unfinished \subseteq [id : Nat \ {0}, name : Tools]
        /\ audit \subseteq Tools /\ confirmed \subseteq Tools
    BY Zenon
  <2> QED
    BY <2>1, <2>2, <2>5, <2>6, <2>7 DEF RuntimeTyped
<1>2. PlanAhead /\ DecisionsInOrder /\ Tried
  BY DEF PlanAhead, DecisionsInOrder, Tried, Working
<1>3. WorkBounded
  BY RuntimeAssumption DEF WorkBounded, MaxAttemptsPerStep
<1>4. StopReasonHonest /\ PolicyEnforced /\ NoteWaits /\ DecisionsReachModel
  BY DEF StopReasonHonest, PolicyEnforced, NoteWaits, DecisionsReachModel
<1>5. SpansApart
  BY FS_EmptySet, ToolsTyped DEF SpansApart
<1>6. SpansAccounted
  BY FS_EmptySet DEF SpansAccounted
<1> QED
  BY <1>1, <1>2, <1>3, <1>4, <1>5, <1>6 DEF RuntimeInv

-----------------------------------------------------------------------------
(* What a step can be.  A prompt that returned has its step accepted,      *)
(* tried again, or given up and the run with it.                           *)

Answered ==
  /\ phase \in {"prompting", "streaming"}
  /\ UNCHANGED stopping \/ stopping' = FALSE
  /\ UNCHANGED <<run, planned, goal, policy, notes, told, call, calls, unfinished, opened,
                 raised>>

Accepted ==
  /\ Answered
  /\ phase' = "head"
  /\ plan' = plan
  /\ decisions' = Append(decisions, plan[current].objective)
  /\ current' = current + 1
  /\ UNCHANGED <<status, stopReason, failed, recorded>>

TriedAgain ==
  /\ Answered
  /\ plan[current].attempts < MaxAttemptsPerStep
  /\ phase' = "head"
  /\ plan' = Repaired
  /\ current' = current + 1
  /\ UNCHANGED <<decisions, status, stopReason, failed, recorded>>

GivenUp ==
  /\ Answered
  /\ UNCHANGED <<plan, current, decisions>>
  /\ Finish("failed", "error")
  /\ RecordRun(TRUE)

(* A step refused by the policy, and one that is prompted for.             *)
ExecutedWith(yes) ==
  /\ phase = "head"
  /\ ~IsComplete
  /\ Exceeded(budget.late) = "no"
  /\ budget' = [budget EXCEPT !.used = @ + 1]
  /\ plan' = [plan EXCEPT ![current].attempts = @ + 1]
  /\ audit' = Allowed(yes)
  /\ confirmed' = {t \in Allowed(yes) : \E i \in 1..Len(ActiveTools) : ActiveTools[i] = t /\ yes[i]}
  /\ calls' = 0
  /\ UNCHANGED <<run, current, planned, decisions, constrained, mode, spec, stopping,
                 told, call, unfinished, opened, raised>>

Refused(yes) ==
  /\ ExecutedWith(yes)
  /\ Finish("failed", "error")
  /\ RecordRun(TRUE)
  /\ notes' = notes

Prompted(yes) ==
  /\ ExecutedWith(yes)
  /\ Stopper(yes) = 0
  /\ phase' = "prompting"
  /\ notes' = notes \o Note
  /\ UNCHANGED <<status, stopReason, failed, recorded>>

Answers == [1..Len(ActiveTools) -> BOOLEAN]

LEMMA StepCases ==
  ASSUME [Next]_vars
  PROVE  \/ Complete \/ Stream \/ ToolCallEnd \/ PromptRaises \/ RequestStop
         \/ Accepted \/ TriedAgain \/ GivenUp
         \/ \E late \in BOOLEAN : StopOnBudget(late)
         \/ \E yes \in Answers : Refused(yes) \/ Prompted(yes)
         \/ \E n \in 1..MaxPlanned, limit \in Limits, again \in BOOLEAN : Run(n, limit, again)
         \/ \E i \in 1..Len(ActiveTools) : ToolCallStart(i)
         \/ UNCHANGED vars
<1> DEFINE Done(outcome) ==
             /\ phase \in {"prompting", "streaming"}
             /\ UNCHANGED stopping \/ stopping' = FALSE
             /\ Returns(outcome)
<1>1. \A outcome : Done(outcome) => Accepted \/ TriedAgain \/ GivenUp
  <2> SUFFICES ASSUME NEW outcome, Done(outcome)
               PROVE  Accepted \/ TriedAgain \/ GivenUp
    OBVIOUS
  <2>1. Answered
    BY DEF Returns, Answered
  <2>2. CASE Verified(outcome)
    BY <2>1, <2>2 DEF Returns, Accepted
  <2>3. CASE ~Verified(outcome)
    BY <2>1, <2>3 DEF Returns, Replan, TriedAgain, GivenUp
  <2> QED
    BY <2>2, <2>3
<1>2. ASSUME NEW yes \in Answers, Execute(yes)
      PROVE  Refused(yes) \/ Prompted(yes)
  <2>1. ExecutedWith(yes)
    BY <1>2 DEF Execute, ExecutedWith
  <2> QED
    BY <1>2, <2>1 DEF Execute, Refused, Prompted
<1>3. Aborted => Done("aborted")
  BY DEF Aborted
<1>4. \A outcome : PromptReturns(outcome) => Done(outcome)
  BY DEF PromptReturns
<1> HIDE DEF Done
<1>5. Aborted => Accepted \/ TriedAgain \/ GivenUp
  BY <1>1, <1>3
<1>6. \A outcome : PromptReturns(outcome) => Accepted \/ TriedAgain \/ GivenUp
  BY <1>1, <1>4
<1> QED
  BY <1>2, <1>5, <1>6 DEF Next, Advance, Answers

-----------------------------------------------------------------------------
(* Types.                                                                  *)

StepType == [objective : Nat, attempts : Nat]

LEMMA PlanTyped ==
  ASSUME RuntimeTyped, NEW yes, ExecutedWith(yes)
  PROVE  /\ plan' \in Seq(StepType) /\ Len(plan') = Len(plan)
         /\ current \in Nat /\ Len(plan) \in Nat
         /\ \A i \in 1..Len(plan) : i # current => plan'[i] = plan[i]
         /\ current \in 1..Len(plan) =>
              /\ plan'[current].objective = plan[current].objective
              /\ plan'[current].attempts = plan[current].attempts + 1
<1>1. plan \in Seq(StepType) /\ current \in Nat
  BY DEF RuntimeTyped, StepType
<1>2. /\ Len(plan) \in Nat /\ DOMAIN plan = 1..Len(plan)
      /\ \A i \in 1..Len(plan) : plan[i] \in StepType
  BY <1>1, LenProperties, ElementOfSeq
<1>3. plan' = [plan EXCEPT ![current].attempts = @ + 1]
  BY DEF ExecutedWith
<1>4. /\ \A i \in 1..Len(plan) : i # current => plan'[i] = plan[i]
      /\ current \in 1..Len(plan) =>
           plan'[current] = [plan[current] EXCEPT !.attempts = @ + 1]
  BY <1>2, <1>3
<1>5. current \in 1..Len(plan) =>
        /\ plan'[current].objective = plan[current].objective
        /\ plan'[current].attempts = plan[current].attempts + 1
        /\ plan'[current] \in StepType
  BY <1>2, <1>4 DEF StepType
<1>6. plan' \in [1..Len(plan) -> StepType]
  BY <1>2, <1>3, <1>4, <1>5
<1>7. plan' \in Seq(StepType) /\ Len(plan') = Len(plan)
  BY <1>2, <1>6
<1> QED
  BY <1>1, <1>2, <1>4, <1>5, <1>7

LEMMA FreshSpan ==
  ASSUME SpansApart, NEW i \in 1..Len(ActiveTools)
  PROVE  /\ NewSpan(i).id \in Nat \ {0}
         /\ NewSpan(i).name = ActiveTools[i]
         /\ \A s \in unfinished : s.id # NewSpan(i).id
         /\ NewSpan(i) = [id |-> NewSpan(i).id, name |-> ActiveTools[i]]
<1> DEFINE c == Cardinality(unfinished)
           Free(n) == \A s \in unfinished : s.id # n
<1>1. IsFiniteSet(unfinished) /\ c \in Nat
  BY FS_CardinalityType DEF SpansApart
<1>2. \E n \in 1..(c + 1) : Free(n)
  <2>1. SUFFICES ASSUME \A n \in 1..(c + 1) : \E s \in unfinished : s.id = n
                 PROVE  FALSE
    OBVIOUS
  <2> DEFINE f == [n \in 1..(c + 1) |-> CHOOSE s \in unfinished : s.id = n]
  <2>2. \A n \in 1..(c + 1) : f[n] \in unfinished /\ f[n].id = n
    BY <2>1
  <2>3. f \in [1..(c + 1) -> unfinished]
    BY <2>2
  <2>4. IsFiniteSet(1..(c + 1)) /\ Cardinality(1..(c + 1)) = c + 1
    <3> HIDE DEF c
    <3>1. c + 1 \in Int /\ 1 \in Int /\ ~(1 > c + 1) /\ (c + 1) - 1 + 1 = c + 1
      BY <1>1
    <3> QED
      BY <3>1, FS_Interval
  <2>5. c < Cardinality(1..(c + 1))
    BY <1>1, <2>4
  <2> HIDE DEF f
  <2>6. \E m, n \in 1..(c + 1) : m # n /\ f[m] = f[n]
    BY <1>1, <2>3, <2>4, <2>5, FS_PigeonHole
  <2> QED
    BY <2>2, <2>6
<1>3. NewSpan(i).id \in 1..(c + 1) /\ Free(NewSpan(i).id)
  BY <1>2 DEF NewSpan
<1> QED
  BY <1>1, <1>3 DEF NewSpan

BudgetType == [limit : Nat \cup {NoLimit}, used : Nat, late : BOOLEAN]

(* What a prompt that ends leaves alone keeps its type.                    *)
AnsweredTyped ==
  /\ spec' \in Registries /\ audit' \subseteq Tools /\ confirmed' \subseteq Tools
  /\ notes' \in Seq([run : Nat, decisions : Nat])
  /\ unfinished' \subseteq [id : Nat \ {0}, name : Tools]
  /\ opened' \in [Tools -> Nat]
  /\ budget' \in BudgetType
  /\ run' \in Nat /\ planned' \in Nat
  /\ call' \in Nat /\ calls' \in Nat /\ raised' \in Nat
  /\ constrained' \in BOOLEAN /\ stopping' \in BOOLEAN

LEMMA AnswerTyped ==
  ASSUME RuntimeTyped, Answered
  PROVE  AnsweredTyped
<1>1. stopping' \in BOOLEAN
  BY DEF RuntimeTyped, Answered
<1> QED
  BY <1>1 DEF RuntimeTyped, Answered, AnsweredTyped, BudgetType, goal, policy

LEMMA LeastNatural ==
  ASSUME NEW T, T \subseteq Nat, T # {}
  PROVE  \E x \in T : \A y \in T : x <= y
<1>1. PICK x \in T : \A y \in T : ~(<<y, x>> \in OpToRel(<, Nat))
  BY NatLessThanWellFounded, WFMin
<1>2. ASSUME NEW y \in T
      PROVE  x <= y
  <2>1. x \in Nat /\ y \in Nat
    OBVIOUS
  <2>2. ~(y < x)
    BY <1>1, <2>1 DEF OpToRel
  <2> QED
    BY <2>1, <2>2
<1> QED
  BY <1>2

LEMMA StopperTyped ==
  ASSUME NEW yes
  PROVE  /\ Stopper(yes) \in 0..Len(ActiveTools)
         /\ mode # "none" /\ Stopper(yes) = 0 =>
              \A i \in 1..Len(ActiveTools) : Decision(ActiveTools[i], yes[i]) = "allow"
<1> DEFINE bad == {i \in 1..Len(ActiveTools) : Decision(ActiveTools[i], yes[i]) # "allow"}
<1>1. CASE mode = "none" \/ bad = {}
  BY <1>1, ToolsTyped DEF Stopper
<1>2. CASE ~(mode = "none" \/ bad = {})
  <2>1. bad \subseteq Nat /\ bad # {}
    BY <1>2, ToolsTyped
  <2> HIDE DEF bad
  <2>2. PICK x \in bad : \A y \in bad : x <= y
    BY <2>1, LeastNatural
  <2>4. (CHOOSE i \in bad : \A j \in bad : i <= j) \in bad
    BY <2>2
  <2> USE DEF bad
  <2>5. Stopper(yes) \in bad
    BY <1>2, <2>4 DEF Stopper
  <2> QED
    BY <2>5, ToolsTyped
<1> QED
  BY <1>1, <1>2

LEMMA AllowedTyped ==
  ASSUME NEW yes
  PROVE  Allowed(yes) \subseteq Tools
<1>1. Stopper(yes) \in 0..Len(ActiveTools)
  BY StopperTyped
<1>2. Allowed(yes) \subseteq {ActiveTools[i] : i \in 1..Len(ActiveTools)}
  BY <1>1, ToolsTyped DEF Allowed
<1> QED
  BY <1>2 DEF Tools

LEMMA TypedStep ==
  ASSUME RuntimeInv, [Next]_vars
  PROVE  RuntimeTyped'
<1> USE DEF runVars, goal, policy, session, trace, Finish, RecordRun, Reasons
<1>0. RuntimeTyped
  BY DEF RuntimeInv
<1>1. CASE Complete
  BY <1>0, <1>1 DEF Complete, RuntimeTyped
<1>2. CASE Stream
  <2>1. notes' \in Seq([run : Nat, decisions : Nat])
    BY <1>2, EmptySeq DEF Stream
  <2> QED
    BY <1>0, <1>2, <2>1 DEF Stream, RuntimeTyped
<1>3. CASE ToolCallEnd
  <2>1. opened' \in [Tools -> Nat]
    BY <1>0, <1>3 DEF ToolCallEnd, CloseSpan, RuntimeTyped
  <2>2. unfinished' \subseteq unfinished
    BY <1>3 DEF ToolCallEnd
  <2> QED
    BY <1>0, <1>3, <2>1, <2>2 DEF ToolCallEnd, RuntimeTyped
<1>4. CASE PromptRaises
  BY <1>0, <1>4 DEF PromptRaises, RuntimeTyped
<1>5. CASE RequestStop
  BY <1>0, <1>5 DEF RequestStop, RuntimeTyped
<1>6. CASE Accepted
  <2>1. current \in 1..Len(plan)
    BY <1>6 DEF RuntimeInv, Accepted, Answered, Tried, Working, PlanAhead
  <2>2. plan[current].objective \in Nat
    <3>1. plan[current] \in StepType
      BY <1>0, <2>1, ElementOfSeq DEF RuntimeTyped, StepType
    <3> QED
      BY <3>1 DEF StepType
  <2>3. decisions' \in Seq(Nat)
    BY <1>0, <1>6, <2>2, AppendProperties DEF Accepted, RuntimeTyped
  <2>4. AnsweredTyped
    BY <1>0, <1>6, AnswerTyped DEF Accepted
  <2>5. /\ phase' = "head" /\ UNCHANGED <<status, stopReason, failed, recorded>>
        /\ UNCHANGED plan /\ current' \in Nat
    BY <1>0, <1>6 DEF Accepted, RuntimeTyped
  <2> QED
    BY <1>0, <1>6, <2>3, <2>4, <2>5 DEF AnsweredTyped, BudgetType, RuntimeTyped
<1>7. CASE TriedAgain
  <2>1. current \in 1..Len(plan)
    BY <1>7 DEF RuntimeInv, TriedAgain, Answered, Tried, Working, PlanAhead
  <2>2. Step(plan[current].objective, plan[current].attempts) \in StepType
    <3>1. plan[current] \in StepType
      BY <1>0, <2>1, ElementOfSeq DEF RuntimeTyped, StepType
    <3> QED
      BY <3>1 DEF Step, StepType
  <2>3. plan' \in Seq(StepType)
    BY <1>0, <1>7, <2>1, <2>2, Inserted DEF TriedAgain, Repaired, RuntimeTyped, StepType
  <2>4. AnsweredTyped
    BY <1>0, <1>7, AnswerTyped DEF TriedAgain
  <2>5. /\ phase' = "head" /\ UNCHANGED <<status, stopReason, failed, recorded>>
        /\ UNCHANGED decisions /\ current' \in Nat
    BY <1>0, <1>7 DEF TriedAgain, RuntimeTyped
  <2> QED
    BY <1>0, <2>3, <2>4, <2>5 DEF AnsweredTyped, BudgetType, RuntimeTyped, StepType
<1>8. CASE GivenUp
  <2>1. AnsweredTyped
    BY <1>0, <1>8, AnswerTyped DEF GivenUp
  <2>2. recorded' \in Seq(BOOLEAN)
    BY <1>0, <1>8, AppendProperties DEF GivenUp, RuntimeTyped
  <2>3. /\ phase' = "over" /\ status' = "failed" /\ stopReason' = "error" /\ failed' \in BOOLEAN
        /\ UNCHANGED <<plan, current, decisions>>
    BY <1>8 DEF GivenUp
  <2> QED
    BY <1>0, <2>1, <2>2, <2>3 DEF AnsweredTyped, BudgetType, RuntimeTyped
<1>9. CASE \E late \in BOOLEAN : StopOnBudget(late)
  <2>1. PICK late \in BOOLEAN : StopOnBudget(late)
    BY <1>9
  <2>2. \A b \in BudgetType : [b EXCEPT !.late = late] \in BudgetType
    BY DEF BudgetType
  <2>3. budget' \in BudgetType
    BY <1>0, <2>1, <2>2 DEF StopOnBudget, RuntimeTyped, BudgetType
  <2>4. stopReason' \in Reasons /\ status' = "stopped" /\ failed' \in BOOLEAN
    BY <2>1 DEF StopOnBudget
  <2>5. recorded' \in Seq(BOOLEAN)
    BY <1>0, <2>1, AppendProperties DEF StopOnBudget, RuntimeTyped
  <2> QED
    BY <1>0, <2>1, <2>3, <2>4, <2>5 DEF StopOnBudget, RuntimeTyped, BudgetType
<1>10. ASSUME NEW yes, ExecutedWith(yes)
       PROVE  /\ plan' \in Seq([objective : Nat, attempts : Nat])
              /\ budget' \in [limit : Nat \cup {NoLimit}, used : Nat, late : BOOLEAN]
              /\ audit' \subseteq Tools /\ confirmed' \subseteq Tools
  <2>1. plan' \in Seq([objective : Nat, attempts : Nat])
    BY <1>0, <1>10, PlanTyped DEF StepType
  <2>2. budget' \in [limit : Nat \cup {NoLimit}, used : Nat, late : BOOLEAN]
    <3>1. \A b \in BudgetType : [b EXCEPT !.used = @ + 1] \in BudgetType
      BY DEF BudgetType
    <3> QED
      BY <1>0, <1>10, <3>1 DEF ExecutedWith, RuntimeTyped, BudgetType
  <2>3. Allowed(yes) \subseteq Tools
    BY AllowedTyped
  <2> QED
    BY <1>10, <2>1, <2>2, <2>3 DEF ExecutedWith
<1>11. CASE \E yes \in Answers : Refused(yes)
  <2>1. PICK yes \in Answers : Refused(yes)
    BY <1>11
  <2>2. ExecutedWith(yes)
    BY <2>1 DEF Refused
  <2>3. recorded' \in Seq(BOOLEAN) /\ failed' \in BOOLEAN
    BY <1>0, <2>1, AppendProperties DEF Refused, RuntimeTyped
  <2>4. phase' = "over" /\ status' = "failed" /\ stopReason' = "error" /\ UNCHANGED notes
    BY <2>1 DEF Refused
  <2>5. /\ calls' = 0
        /\ UNCHANGED <<run, current, planned, decisions, constrained, spec, stopping,
                       call, unfinished, opened, raised>>
    BY <2>2 DEF ExecutedWith
  <2> QED
    BY <1>0, <1>10, <2>1, <2>2, <2>3, <2>4, <2>5 DEF RuntimeTyped
<1>12. CASE \E yes \in Answers : Prompted(yes)
  <2>1. PICK yes \in Answers : Prompted(yes)
    BY <1>12
  <2>2. Note \in Seq([run : Nat, decisions : Nat])
    <3>1. Len(decisions) \in Nat
      BY <1>0 DEF RuntimeTyped
    <3>2. [run |-> run, decisions |-> Len(decisions)] \in [run : Nat, decisions : Nat]
      BY <1>0, <3>1 DEF RuntimeTyped
    <3> HIDE DEF Reasons
    <3>3. \A S, x : x \in S => <<x>> \in Seq(S)
      OBVIOUS
    <3> QED
      BY <3>2, <3>3, EmptySeq DEF Note
  <2>3. notes' \in Seq([run : Nat, decisions : Nat])
    BY <1>0, <2>1, <2>2, ConcatProperties DEF Prompted, RuntimeTyped
  <2> QED
    BY <1>0, <1>10, <2>1, <2>3 DEF Prompted, ExecutedWith, RuntimeTyped
<1>13. ASSUME NEW n \in 1..MaxPlanned, NEW limit \in Limits, NEW again \in BOOLEAN,
              Run(n, limit, again)
       PROVE  RuntimeTyped'
  <2>1. plan' \in Seq([objective : Nat, attempts : Nat])
    <3>1. n \in Nat
      BY RuntimeAssumption
    <3>2. plan' \in [1..n -> [objective : Nat, attempts : Nat]]
      BY <1>13, <3>1 DEF Run, Step
    <3> QED
      BY <3>1, <3>2, FunctionIsSeq
  <2>2. budget' \in BudgetType /\ constrained' \in BOOLEAN
    <3>1. CASE again
      BY <1>0, <1>13, <3>1 DEF Run, RuntimeTyped, BudgetType
    <3>2. CASE ~again
      <4>1. [limit |-> limit, used |-> 0, late |-> FALSE] \in BudgetType
        BY RuntimeAssumption DEF BudgetType
      <4> QED
        BY <1>13, <3>2, <4>1 DEF Run
    <3> QED
      BY <3>1, <3>2
  <2>3. decisions' \in Seq(Nat)
    BY <1>13, EmptySeq DEF Run
  <2>4. /\ phase' = "head" /\ status' = "running" /\ stopReason' = "none" /\ failed' = FALSE
        /\ run' \in Nat /\ current' \in Nat /\ planned' \in Nat
        /\ UNCHANGED <<policy, session, trace>>
    BY <1>0, <1>13, RuntimeAssumption DEF Run, RuntimeTyped
  <2> QED
    BY <1>0, <1>13, <2>1, <2>2, <2>3, <2>4 DEF RuntimeTyped, BudgetType
<1>14. ASSUME NEW i \in 1..Len(ActiveTools), ToolCallStart(i)
       PROVE  RuntimeTyped'
  <2>1. ActiveTools[i] \in Tools
    BY ToolsTyped
  <2>2. NewSpan(i) \in [id : Nat \ {0}, name : Tools]
    BY <2>1, FreshSpan DEF RuntimeInv
  <2>3. unfinished' \subseteq [id : Nat \ {0}, name : Tools]
    BY <1>0, <1>14, <2>2 DEF ToolCallStart, RuntimeTyped
  <2>4. opened' \in [Tools -> Nat]
    BY <1>0, <1>14, <2>1, <2>2 DEF ToolCallStart, RuntimeTyped
  <2>5. calls' \in Nat /\ call' \in Nat
    BY <1>0, <1>14, ToolsTyped DEF ToolCallStart, RuntimeTyped
  <2> QED
    BY <1>0, <1>14, <2>3, <2>4, <2>5 DEF ToolCallStart, RuntimeTyped
<1>15. CASE UNCHANGED vars
  BY <1>0, <1>15 DEF vars, RuntimeTyped
<1> QED
  BY <1>1, <1>2, <1>3, <1>4, <1>5, <1>6, <1>7, <1>8, <1>9, <1>11, <1>12, <1>13, <1>14,
     <1>15, StepCases

-----------------------------------------------------------------------------
(* The plan.                                                               *)

PlanInv == PlanAhead /\ DecisionsInOrder /\ Tried /\ WorkBounded

LEMMA PlanFacts ==
  ASSUME RuntimeTyped
  PROVE  /\ plan \in Seq(StepType) /\ Len(plan) \in Nat
         /\ \A i \in 1..Len(plan) :
              plan[i] \in StepType /\ plan[i].objective \in Nat /\ plan[i].attempts \in Nat
         /\ current \in Nat /\ planned \in Nat
         /\ decisions \in Seq(Nat) /\ Len(decisions) \in Nat
         /\ run \in Nat
<1>1. plan \in Seq(StepType) /\ decisions \in Seq(Nat)
  BY DEF RuntimeTyped, StepType
<1>2. Len(plan) \in Nat /\ Len(decisions) \in Nat
  BY <1>1, LenProperties
<1>3. \A i \in 1..Len(plan) : plan[i] \in StepType
  BY <1>1, ElementOfSeq
<1>4. \A s \in StepType : s.objective \in Nat /\ s.attempts \in Nat
  BY DEF StepType
<1> QED
  BY <1>1, <1>2, <1>3, <1>4 DEF RuntimeTyped

(* Most steps neither look at the plan nor change it.                      *)
PlanKept ==
  /\ UNCHANGED <<plan, current, planned, decisions>>
  /\ budget'.limit = budget.limit /\ budget'.used = budget.used
  /\ \/ UNCHANGED phase
     \/ phase' = "over"
     \/ Working /\ Working'

LEMMA MostKeepPlan ==
  ASSUME RuntimeTyped,
         \/ Complete \/ Stream \/ ToolCallEnd \/ PromptRaises \/ RequestStop \/ GivenUp
         \/ \E late \in BOOLEAN : StopOnBudget(late)
         \/ \E i \in 1..Len(ActiveTools) : ToolCallStart(i)
         \/ UNCHANGED vars
  PROVE  PlanKept
<1> USE DEF PlanKept, Working, goal, runVars, Finish
<1>1. CASE Complete
  BY <1>1 DEF Complete
<1>2. CASE Stream \/ ToolCallEnd
  BY <1>2 DEF Stream, ToolCallEnd
<1>3. CASE PromptRaises
  BY <1>3 DEF PromptRaises
<1>4. CASE RequestStop \/ UNCHANGED vars
  BY <1>4 DEF RequestStop, vars
<1>5. CASE GivenUp
  BY <1>5 DEF GivenUp, Answered
<1>6. CASE \E late \in BOOLEAN : StopOnBudget(late)
  BY <1>6 DEF StopOnBudget, RuntimeTyped
<1>7. CASE \E i \in 1..Len(ActiveTools) : ToolCallStart(i)
  BY <1>7 DEF ToolCallStart
<1> QED
  BY <1>1, <1>2, <1>3, <1>4, <1>5, <1>6, <1>7

LEMMA PlanKeptStep ==
  ASSUME PlanInv, PlanKept
  PROVE  PlanInv'
<1>1. (PlanAhead /\ DecisionsInOrder)'
  BY DEF PlanInv, PlanKept, PlanAhead, DecisionsInOrder
<1>2. Tried'
  <2>1. CASE UNCHANGED phase \/ (Working /\ Working')
    BY <2>1 DEF PlanInv, PlanKept, Tried, Working
  <2>2. CASE phase' = "over"
    BY <2>2 DEF Tried, Working
  <2> QED
    BY <2>1, <2>2 DEF PlanKept
<1>3. WorkBounded'
  BY DEF PlanInv, PlanKept, WorkBounded
<1> QED
  BY <1>1, <1>2, <1>3 DEF PlanInv

LEMMA AcceptedPlan ==
  ASSUME RuntimeTyped, PlanInv, Accepted
  PROVE  PlanInv'
<1> USE PlanFacts DEF MaxAttemptsPerStep
<1>1. /\ current <= Len(plan) /\ current \in 1..Len(plan)
      /\ plan[current].attempts \in 1..2
      /\ current <= 2 * Len(decisions) + plan[current].attempts
  BY DEF PlanInv, PlanAhead, Tried, Working, Accepted, Answered
<1>2. plan[current].objective = Len(decisions) + 1
  BY <1>1 DEF PlanInv, PlanAhead
<1>3. /\ phase' = "head" /\ plan' = plan /\ current' = current + 1 /\ planned' = planned
      /\ UNCHANGED budget
      /\ decisions' = Append(decisions, Len(decisions) + 1)
  BY <1>2 DEF Accepted, Answered, goal
<1>4. /\ Len(decisions') = Len(decisions) + 1
      /\ \A i \in 1..Len(decisions) : decisions'[i] = decisions[i]
      /\ decisions'[Len(decisions) + 1] = Len(decisions) + 1
  <2>1. decisions \in Seq(Nat) /\ Len(decisions) + 1 \in Nat
    OBVIOUS
  <2> QED
    BY ONLY <1>3, <2>1, AppendProperties
<1>11. /\ current \in Nat /\ Len(plan) \in Nat /\ Len(decisions) \in Nat
       /\ planned = Len(decisions) + Len(plan) + 1 - current
  BY DEF PlanInv, PlanAhead
<1>5. PlanAhead'
  <2>1. /\ current' \in 1..(Len(plan') + 1)
        /\ planned' = Len(decisions') + Len(plan') + 1 - current'
    BY ONLY <1>1, <1>3, <1>4, <1>11
  <2>2. ASSUME NEW i \in (current + 1)..Len(plan)
        PROVE  plan[i].objective = Len(decisions) + 1 + 1 + i - (current + 1)
    <3>1. i \in current..Len(plan)
      BY ONLY <1>11, i \in (current + 1)..Len(plan)
    <3>2. plan[i].objective = Len(decisions) + 1 + i - current
      BY ONLY <3>1, PlanInv DEF PlanInv, PlanAhead
    <3> QED
      BY ONLY <1>11, <3>1, <3>2
  <2>3. ASSUME NEW i \in (current + 1 + 1)..Len(plan)
        PROVE  plan[i].attempts = 0
    <3>1. i \in (current + 1)..Len(plan)
      BY ONLY <1>11, i \in (current + 1 + 1)..Len(plan)
    <3> QED
      BY ONLY <3>1, PlanInv DEF PlanInv, PlanAhead
  <2> QED
    BY ONLY <1>3, <1>4, <2>1, <2>2, <2>3 DEF PlanAhead
<1>6. DecisionsInOrder'
  <2>1. ASSUME NEW i \in 1..(Len(decisions) + 1)
        PROVE  decisions'[i] = i
    <3>1. i \in 1..Len(decisions) \/ i = Len(decisions) + 1
      BY ONLY <1>11, i \in 1..(Len(decisions) + 1)
    <3>2. \A k \in 1..Len(decisions) : decisions[k] = k
      BY DEF PlanInv, DecisionsInOrder
    <3> QED
      BY ONLY <1>4, <3>1, <3>2
  <2> QED
    BY ONLY <1>4, <2>1 DEF DecisionsInOrder
<1>7. current' <= 2 * Len(decisions') + 1
  <2>1. current <= 2 * Len(decisions) + 2
    BY ONLY <1>1, <1>11
  <2> QED
    BY ONLY <1>3, <1>4, <1>11, <2>1
<1>8. ASSUME current' <= Len(plan')
      PROVE  /\ plan'[current'].attempts = 0
             /\ plan'[current'].objective = plan'[current' - 1].objective + 1
             /\ plan'[current' - 1].objective \in Nat
  <2>1. /\ current \in Nat /\ Len(plan) \in Nat /\ Len(decisions) \in Nat
        /\ plan[current].objective \in Nat
    BY <1>1
  <2>2. /\ current + 1 \in (current + 1)..Len(plan)
        /\ current + 1 \in current..Len(plan)
        /\ current' - 1 = current
    BY ONLY <1>3, <1>8, <2>1
  <2>3. /\ plan[current + 1].attempts = 0
        /\ plan[current + 1].objective = Len(decisions) + 1 + (current + 1) - current
    BY ONLY <2>2, PlanInv DEF PlanInv, PlanAhead
  <2>4. Len(decisions) + 1 + (current + 1) - current = Len(decisions) + 1 + 1
    BY ONLY <2>1
  <2> QED
    BY ONLY <1>2, <1>3, <2>1, <2>2, <2>3, <2>4
<1>9. Tried'
  <2>1. phase' = "head" /\ ~Working'
    BY <1>3 DEF Working
  <2>2. current' <= Len(plan') => current' <= 2 * Len(decisions') + 1 + plan'[current'].attempts
    BY ONLY <1>3, <1>4, <1>7, <1>8, <1>11
  <2>3. current' <= Len(plan') =>
          ~(plan'[current'].objective = plan'[current' - 1].objective)
    BY ONLY <1>8
  <2>4. current' <= Len(plan') => plan'[current'].attempts < 2
    BY ONLY <1>8
  <2> QED
    BY ONLY <1>7, <2>1, <2>2, <2>3, <2>4 DEF Tried, MaxAttemptsPerStep
<1>10. WorkBounded'
  BY <1>3 DEF PlanInv, WorkBounded
<1> QED
  BY <1>5, <1>6, <1>9, <1>10 DEF PlanInv

LEMMA TriedAgainPlan ==
  ASSUME RuntimeTyped, PlanInv, TriedAgain
  PROVE  PlanInv'
<1> USE PlanFacts DEF MaxAttemptsPerStep
<1>1. /\ current <= Len(plan) /\ current \in 1..Len(plan)
      /\ plan[current].attempts = 1
      /\ current <= 2 * Len(decisions) + 1
  <2>1. Working /\ plan[current].attempts < 2
    BY DEF Working, TriedAgain, Answered
  <2>2. /\ current <= Len(plan) /\ plan[current].attempts \in 1..2
        /\ current <= 2 * Len(decisions) + plan[current].attempts
    BY <2>1 DEF PlanInv, Tried
  <2>3. current \in 1..Len(plan)
    BY <2>2 DEF PlanInv, PlanAhead
  <2> QED
    BY <2>1, <2>2, <2>3
<1>2. plan[current].objective = Len(decisions) + 1
  <2>1. current \in current..Len(plan) /\ Len(decisions) + 1 + current - current = Len(decisions) + 1
    BY <1>1
  <2> QED
    BY <2>1 DEF PlanInv, PlanAhead
<1> DEFINE again == Step(plan[current].objective, plan[current].attempts)
<1>3. /\ phase' = "head" /\ current' = current + 1 /\ planned' = planned
      /\ UNCHANGED <<budget, decisions>>
      /\ plan' = InsertAfter(plan, current, again)
  BY DEF TriedAgain, Answered, goal, Repaired
<1>4. /\ again \in StepType
      /\ again.objective = plan[current].objective /\ again.attempts = 1
  BY <1>1 DEF Step, StepType
<1> HIDE DEF again
<1>5. /\ Len(plan') = Len(plan) + 1
      /\ \A k \in 1..current : plan'[k] = plan[k]
      /\ plan'[current + 1] = again
      /\ \A k \in (current + 2)..(Len(plan) + 1) : plan'[k] = plan[k - 1]
  <2>1. plan \in Seq(StepType)
    OBVIOUS
  <2>2. current \in 1..Len(plan) /\ again \in StepType
    BY ONLY <1>1, <1>4
  <2>3. Len(InsertAfter(plan, current, again)) = Len(plan) + 1
    BY ONLY <2>1, <2>2, Inserted, SMTT(30)
  <2>4. \A k \in 1..current : InsertAfter(plan, current, again)[k] = plan[k]
    BY ONLY <2>1, <2>2, Inserted, SMTT(30)
  <2>5. InsertAfter(plan, current, again)[current + 1] = again
    BY ONLY <2>1, <2>2, Inserted, SMTT(30)
  <2>6. \A k \in (current + 2)..(Len(plan) + 1) :
          InsertAfter(plan, current, again)[k] = plan[k - 1]
    BY ONLY <2>1, <2>2, Inserted, SMTT(30)
  <2> QED
    BY ONLY <1>3, <2>3, <2>4, <2>5, <2>6
<1>6. \A k \in (current + 2)..(Len(plan) + 1) :
        /\ k - 1 \in (current + 1)..Len(plan)
        /\ plan'[k].objective = Len(decisions) + k - current
        /\ plan'[k].attempts = 0
  <2> TAKE k \in (current + 2)..(Len(plan) + 1)
  <2>1. k - 1 \in (current + 1)..Len(plan) /\ k - 1 \in current..Len(plan) /\ k \in Nat
    BY <1>1
  <2>2. plan[k - 1].objective = Len(decisions) + 1 + (k - 1) - current
    BY <2>1 DEF PlanInv, PlanAhead
  <2>3. plan[k - 1].attempts = 0
    BY <2>1 DEF PlanInv, PlanAhead
  <2>4. Len(decisions) + 1 + (k - 1) - current = Len(decisions) + k - current
    BY <2>1
  <2> QED
    BY <1>5, <2>1, <2>2, <2>3, <2>4
<1>7. PlanAhead'
  <2>1. /\ current' \in 1..(Len(plan') + 1)
        /\ planned' = Len(decisions') + Len(plan') + 1 - current'
    <3>1. planned = Len(decisions) + Len(plan) + 1 - current
      BY DEF PlanInv, PlanAhead
    <3>2. Len(plan') = Len(plan) + 1 /\ current' = current + 1
      BY <1>3, <1>5
    <3>3. planned' = planned /\ decisions' = decisions
      BY <1>3
    <3> QED
      BY <1>1, <3>1, <3>2, <3>3
  <2>2. ASSUME NEW i \in current'..Len(plan')
        PROVE  plan'[i].objective = Len(decisions') + 1 + i - current'
    <3>1. CASE i = current + 1
      <4>1. plan'[i].objective = Len(decisions) + 1
        BY <1>2, <1>4, <1>5, <3>1
      <4>2. Len(decisions) + 1 + i - (current + 1) = Len(decisions) + 1
        BY <3>1
      <4> QED
        BY <1>3, <4>1, <4>2
    <3>2. CASE i # current + 1
      <4>1. i \in (current + 2)..(Len(plan) + 1)
        BY <1>1, <1>3, <1>5, <3>2
      <4>2. Len(decisions) + i - current = Len(decisions) + 1 + i - (current + 1)
        BY <4>1
      <4> QED
        BY <1>3, <1>6, <4>1, <4>2
    <3> QED
      BY <3>1, <3>2
  <2>3. ASSUME NEW i \in (current' + 1)..Len(plan')
        PROVE  plan'[i].attempts = 0
    <3>1. i \in (current + 2)..(Len(plan) + 1)
      BY <1>1, <1>3, <1>5
    <3> QED
      BY <1>6, <3>1
  <2> QED
    BY <2>1, <2>2, <2>3 DEF PlanAhead
<1>8. DecisionsInOrder'
  BY <1>3 DEF PlanInv, DecisionsInOrder
<1>9. Tried'
  <2>1. current' <= Len(plan') /\ plan'[current'].attempts = 1
    BY <1>1, <1>3, <1>4, <1>5
  <2>2. current' <= 2 * Len(decisions') + 1 + 1
    BY <1>1, <1>3
  <2>3. current' - 1 = current /\ plan'[current' - 1] = plan[current]
    BY <1>1, <1>3, <1>5
  <2> QED
    BY <1>1, <1>3, <2>1, <2>2, <2>3 DEF Tried, Working
<1>10. WorkBounded'
  <2>1. Len(plan') <= 2 * planned'
    BY <1>1, <1>3, <1>5 DEF PlanInv, PlanAhead
  <2>2. ASSUME NEW i \in 1..Len(plan')
        PROVE  /\ plan'[i].attempts <= 2
               /\ i > 1 =>
                    \/ plan'[i].objective = plan'[i - 1].objective + 1
                    \/ /\ plan'[i].objective = plan'[i - 1].objective
                       /\ plan'[i].attempts \in {plan'[i - 1].attempts, plan'[i - 1].attempts + 1}
    <3>1. CASE i \in 1..current
      <4>1. plan'[i] = plan[i] /\ (i > 1 => plan'[i - 1] = plan[i - 1])
        <5>1. i \in 1..current /\ (i > 1 => i - 1 \in 1..current)
          BY ONLY <1>1, <3>1, current \in Nat
        <5> QED
          BY ONLY <1>5, <5>1
      <4>2. i \in 1..Len(plan)
        BY <1>1, <3>1
      <4> QED
        BY <4>1, <4>2 DEF PlanInv, WorkBounded
    <3>2. CASE i = current + 1
      <4>1. plan'[i] = again /\ plan'[i - 1] = plan[current]
        BY <1>1, <1>5, <3>2
      <4> QED
        BY <1>1, <1>4, <4>1
    <3>3. CASE i \in (current + 2)..(Len(plan) + 1)
      <4>1. plan'[i].attempts = 0 /\ plan'[i].objective = Len(decisions) + i - current
        BY <1>6, <3>3
      <4>2. plan'[i - 1].objective = Len(decisions) + (i - 1) - current
        <5>1. CASE i = current + 2
          <6>1. plan'[i - 1] = again /\ Len(decisions) + (i - 1) - current = Len(decisions) + 1
            BY <1>1, <1>5, <5>1
          <6> QED
            BY <1>2, <1>4, <6>1
        <5>2. CASE i # current + 2
          <6>1. i - 1 \in (current + 2)..(Len(plan) + 1)
            BY <1>1, <3>3, <5>2
          <6> QED
            BY <1>6, <6>1
        <5> QED
          BY <5>1, <5>2
      <4> QED
        BY <1>1, <3>3, <4>1, <4>2
    <3> QED
      BY <1>1, <1>5, <3>1, <3>2, <3>3
  <2>3. budget'.limit # NoLimit => budget'.used <= budget'.limit
    BY <1>3 DEF PlanInv, WorkBounded
  <2> QED
    BY <2>1, <2>2, <2>3 DEF WorkBounded
<1> QED
  BY <1>7, <1>8, <1>9, <1>10 DEF PlanInv

LEMMA ExecutedPlan ==
  ASSUME RuntimeTyped, PlanInv, NEW yes, ExecutedWith(yes),
         phase' \in {"prompting", "over"}
  PROVE  PlanInv'
<1> USE PlanFacts DEF MaxAttemptsPerStep
<1>1. current <= Len(plan) /\ current \in 1..Len(plan)
  BY DEF PlanInv, PlanAhead, ExecutedWith, IsComplete
<1>2. /\ plan[current].attempts < 2
      /\ current <= 2 * Len(decisions) + 1 + plan[current].attempts
      /\ current > 1 /\ plan[current].objective = plan[current - 1].objective =>
           plan[current].attempts = plan[current - 1].attempts
  BY <1>1 DEF PlanInv, Tried, ExecutedWith
<1>3. /\ Len(plan') = Len(plan)
      /\ \A i \in 1..Len(plan) : i # current => plan'[i] = plan[i]
      /\ plan'[current].objective = plan[current].objective
      /\ plan'[current].attempts = plan[current].attempts + 1
  BY <1>1, PlanTyped
<1>4. /\ UNCHANGED <<current, planned, decisions>>
      /\ budget' = [budget EXCEPT !.used = @ + 1]
      /\ Exceeded(budget.late) = "no"
  BY DEF ExecutedWith
<1> DEFINE tries == plan[current].attempts
<1>9. /\ current \in Nat /\ Len(plan) \in Nat /\ Len(decisions) \in Nat /\ tries \in Nat
  BY <1>1
<1>5. PlanAhead'
  <2>1. /\ current' \in 1..(Len(plan') + 1)
        /\ planned' = Len(decisions') + Len(plan') + 1 - current'
    BY <1>3, <1>4 DEF PlanInv, PlanAhead
  <2>2. ASSUME NEW i \in current..Len(plan)
        PROVE  plan'[i].objective = Len(decisions) + 1 + i - current
    <3>1. plan[i].objective = Len(decisions) + 1 + i - current
      BY DEF PlanInv, PlanAhead
    <3>2. i \in 1..Len(plan)
      BY <1>1
    <3> QED
      BY <1>3, <3>1, <3>2
  <2>3. ASSUME NEW i \in (current + 1)..Len(plan)
        PROVE  plan'[i].attempts = 0
    <3>1. plan[i].attempts = 0
      BY DEF PlanInv, PlanAhead
    <3>2. i \in 1..Len(plan) /\ i # current
      BY <1>1
    <3> QED
      BY <1>3, <3>1, <3>2
  <2> QED
    BY <1>3, <1>4, <2>1, <2>2, <2>3 DEF PlanAhead
<1>6. DecisionsInOrder'
  BY <1>4 DEF PlanInv, DecisionsInOrder
<1>7. Tried'
  <2>1. phase' # "head"
    OBVIOUS
  <2>2. /\ current' <= Len(plan')
        /\ plan'[current'].attempts \in 1..2
        /\ current' <= 2 * Len(decisions') + plan'[current'].attempts
    <3>1. current' = current /\ decisions' = decisions /\ plan'[current].attempts = tries + 1
      BY <1>3, <1>4
    <3>2. tries < 2 /\ current <= 2 * Len(decisions) + 1 + tries
      BY <1>2
    <3> HIDE DEF tries
    <3> QED
      BY ONLY <1>1, <1>3, <1>9, <3>1, <3>2
  <2> QED
    BY <2>1, <2>2 DEF Tried
<1>8. WorkBounded'
  <2>1. Len(plan') <= 2 * planned'
    BY <1>3, <1>4 DEF PlanInv, WorkBounded
  <2>2. ASSUME NEW i \in 1..Len(plan)
        PROVE  /\ plan'[i].attempts <= 2
               /\ i > 1 =>
                    \/ plan'[i].objective = plan'[i - 1].objective + 1
                    \/ /\ plan'[i].objective = plan'[i - 1].objective
                       /\ plan'[i].attempts \in {plan'[i - 1].attempts, plan'[i - 1].attempts + 1}
    <3>5. /\ i \in Nat /\ i - 1 \in Nat
          /\ i > 1 => i - 1 \in 1..Len(plan) /\ plan[i - 1].attempts \in Nat
      BY <1>9
    <3>1. /\ plan[i].attempts <= 2
          /\ i > 1 =>
               \/ plan[i].objective = plan[i - 1].objective + 1
               \/ /\ plan[i].objective = plan[i - 1].objective
                  /\ plan[i].attempts \in {plan[i - 1].attempts, plan[i - 1].attempts + 1}
      BY DEF PlanInv, WorkBounded
    <3>2. CASE i = current
      <4>1. i > 1 => plan'[i - 1] = plan[i - 1]
        BY ONLY <1>3, <1>9, <3>2, <3>5
      <4>2. /\ plan'[i].objective = plan[i].objective /\ plan'[i].attempts = tries + 1
            /\ tries < 2
        BY ONLY <1>2, <1>3, <3>2 DEF MaxAttemptsPerStep
      <4>3. plan[i].objective = plan[i - 1].objective /\ i > 1 => tries = plan[i - 1].attempts
        BY ONLY <1>2, <3>2
      <4> HIDE DEF tries
      <4> QED
        BY ONLY <1>9, <3>1, <4>1, <4>2, <4>3
    <3>3. CASE i = current + 1
      <4>1. plan'[i] = plan[i] /\ i - 1 = current
        <5>1. i # current /\ i - 1 = current
          BY ONLY <1>9, <3>3
        <5> QED
          BY ONLY <1>3, <5>1, i \in 1..Len(plan)
      <4>2. plan[i].objective = plan[i - 1].objective + 1
        <5>1. i \in current..Len(plan) /\ current \in current..Len(plan)
          BY <1>1, <3>3
        <5>2. /\ plan[i].objective = Len(decisions) + 1 + i - current
              /\ plan[current].objective = Len(decisions) + 1 + current - current
          BY <5>1 DEF PlanInv, PlanAhead
        <5>3. plan[i].objective = plan[current].objective + 1
          BY ONLY <1>9, <3>3, <5>2
        <5> QED
          BY <4>1, <5>3
      <4> QED
        BY <1>3, <3>1, <4>1, <4>2
    <3>4. CASE i # current /\ i # current + 1
      <4>1. plan'[i] = plan[i] /\ (i > 1 => plan'[i - 1] = plan[i - 1])
        <5>1. i > 1 => i - 1 # current
          BY ONLY <1>9, <3>4, <3>5
        <5> QED
          BY ONLY <1>3, <3>4, <3>5, <5>1, i \in 1..Len(plan)
      <4> QED
        BY <3>1, <4>1
    <3> QED
      BY <3>2, <3>3, <3>4
  <2>3. budget'.limit # NoLimit => budget'.used <= budget'.limit
    <3>1. budget'.limit = budget.limit /\ budget'.used = budget.used + 1
      BY <1>4 DEF RuntimeTyped
    <3>2. ~(budget.limit # NoLimit /\ budget.used >= budget.limit)
      BY <1>4 DEF Exceeded
    <3>3. budget.used \in Nat /\ budget.limit \in Nat \cup {NoLimit}
      BY DEF RuntimeTyped
    <3> QED
      BY <3>1, <3>2, <3>3
  <2> QED
    BY <1>3, <2>1, <2>2, <2>3 DEF WorkBounded
<1> QED
  BY <1>5, <1>6, <1>7, <1>8 DEF PlanInv

LEMMA RunPlan ==
  ASSUME RuntimeTyped, PlanInv, NEW n \in 1..MaxPlanned, NEW limit \in Limits,
         NEW again \in BOOLEAN, Run(n, limit, again)
  PROVE  PlanInv'
<1>1. n \in Nat /\ n >= 1
  BY RuntimeAssumption
<1>2. /\ plan' = [i \in 1..n |-> Step(i, 0)]
      /\ phase' = "head" /\ current' = 1 /\ planned' = n /\ decisions' = <<>>
  BY DEF Run
<1>3. /\ Len(plan') = n
      /\ \A i \in 1..n : plan'[i].objective = i /\ plan'[i].attempts = 0
  BY <1>1, <1>2 DEF Step
<1>4. Len(decisions') = 0
  BY <1>2
<1>5. PlanAhead'
  BY <1>1, <1>2, <1>3, <1>4 DEF PlanAhead
<1>6. DecisionsInOrder'
  BY <1>4 DEF DecisionsInOrder
<1>7. Tried'
  BY <1>1, <1>2, <1>3, <1>4 DEF Tried, Working, MaxAttemptsPerStep
<1>8. WorkBounded'
  <2>1. budget'.limit # NoLimit => budget'.used <= budget'.limit
    <3>1. CASE again
      BY <3>1 DEF Run, goal, PlanInv, WorkBounded
    <3>2. CASE ~again
      <4>1. budget'.limit = limit /\ budget'.used = 0
        BY <3>2 DEF Run
      <4> QED
        BY <4>1, RuntimeAssumption
    <3> QED
      BY <3>1, <3>2
  <2> QED
    BY <1>1, <1>2, <1>3, <2>1 DEF WorkBounded, MaxAttemptsPerStep
<1> QED
  BY <1>5, <1>6, <1>7, <1>8 DEF PlanInv

LEMMA PlanStep ==
  ASSUME RuntimeInv, [Next]_vars
  PROVE  PlanInv'
<1>1. RuntimeTyped /\ PlanInv
  BY DEF RuntimeInv, PlanInv
<1>2. CASE Accepted
  BY <1>1, <1>2, AcceptedPlan
<1>3. CASE TriedAgain
  BY <1>1, <1>3, TriedAgainPlan
<1>4. ASSUME NEW yes \in Answers, Refused(yes) \/ Prompted(yes)
      PROVE  PlanInv'
  <2>1. ExecutedWith(yes) /\ phase' \in {"prompting", "over"}
    BY <1>4 DEF Refused, Prompted, Finish
  <2> QED
    BY <1>1, <2>1, ExecutedPlan
<1>5. ASSUME NEW n \in 1..MaxPlanned, NEW limit \in Limits, NEW again \in BOOLEAN,
             Run(n, limit, again)
      PROVE  PlanInv'
  BY <1>1, <1>5, RunPlan
<1>6. PlanKept => PlanInv'
  BY <1>1, PlanKeptStep
<1> QED
  BY <1>1, <1>2, <1>3, <1>4, <1>5, <1>6, MostKeepPlan, StepCases

-----------------------------------------------------------------------------
(* Stop reasons.                                                           *)

LEMMA Met ==
  ASSUME RuntimeTyped, PlanAhead, DecisionsInOrder
  PROVE  (decisions = [i \in 1..planned |-> i]) <=> current = Len(plan) + 1
<1> USE PlanFacts
<1>1. planned = Len(decisions) + Len(plan) + 1 - current /\ current <= Len(plan) + 1
  BY DEF PlanAhead
<1>2. decisions = [i \in 1..Len(decisions) |-> i]
  <2>1. decisions = [i \in 1..Len(decisions) |-> decisions[i]]
    BY LenProperties
  <2> QED
    BY <2>1 DEF DecisionsInOrder
<1>3. CASE current = Len(plan) + 1
  <2>1. planned = Len(decisions)
    BY <1>1, <1>3
  <2> QED
    BY <1>2, <1>3, <2>1
<1>4. CASE current # Len(plan) + 1
  <2>1. planned # Len(decisions)
    BY <1>1, <1>4
  <2>2. Len([i \in 1..planned |-> i]) = planned
    OBVIOUS
  <2> QED
    BY <1>4, <2>1, <2>2
<1> QED
  BY <1>3, <1>4

LEMMA UnmetStop ==
  ASSUME RuntimeTyped, PlanAhead, DecisionsInOrder, current <= Len(plan),
         UNCHANGED <<decisions, planned>>,
         NEW finalStatus, NEW reason, Finish(finalStatus, reason),
         \/ finalStatus = "failed" /\ reason = "error"
         \/ finalStatus = "stopped" /\ reason \in {"budget_exceeded", "max_iterations"}
  PROVE  StopReasonHonest'
<1>1. ~(decisions = [i \in 1..planned |-> i])
  BY Met, PlanFacts
<1>2. ~(decisions' = [i \in 1..planned' |-> i])
  BY <1>1
<1>3. stopReason' # "completed" /\ failed' = TRUE
  BY DEF Finish
<1>4. stopReason' \in Reasons
  BY DEF Finish, Reasons
<1>5. status' = CASE stopReason' = "completed" -> "done"
                  [] stopReason' = "error"     -> "failed"
                  [] OTHER                     -> "stopped"
  BY DEF Finish
<1> QED
  BY <1>2, <1>3, <1>4, <1>5 DEF StopReasonHonest

LEMMA WorkingAtStep ==
  ASSUME RuntimeInv, Working
  PROVE  current <= Len(plan)
BY DEF RuntimeInv, Tried

LEMMA StopStep ==
  ASSUME RuntimeInv, [Next]_vars
  PROVE  StopReasonHonest'
<1>0. RuntimeTyped /\ PlanAhead /\ DecisionsInOrder /\ StopReasonHonest
  BY DEF RuntimeInv
<1>1. CASE Complete
  <2>1. current = Len(plan) + 1
    BY <1>0, <1>1, PlanFacts DEF Complete, IsComplete, PlanAhead
  <2>2. decisions' = [i \in 1..planned' |-> i]
    <3>1. decisions = [i \in 1..planned |-> i]
      BY <1>0, <2>1, Met
    <3> QED
      BY <1>1, <3>1 DEF Complete
  <2>3. /\ stopReason' = "completed" /\ status' = "done"
        /\ failed' = FALSE
    BY <1>1 DEF Complete, Finish
  <2> QED
    BY <2>2, <2>3 DEF StopReasonHonest, Reasons
<1>2. CASE GivenUp
  <2>1. Working
    BY <1>2 DEF GivenUp, Answered, Working
  <2>2. UNCHANGED <<decisions, planned>> /\ Finish("failed", "error")
    BY <1>2 DEF GivenUp, Answered
  <2> QED
    BY <1>0, <2>1, <2>2, WorkingAtStep, UnmetStop
<1>3. CASE PromptRaises
  <2>1. Working
    BY <1>3 DEF PromptRaises, Working
  <2>2. UNCHANGED <<decisions, planned>> /\ Finish("failed", "error")
    BY <1>3 DEF PromptRaises
  <2> QED
    BY <1>0, <2>1, <2>2, WorkingAtStep, UnmetStop
<1>4. ASSUME NEW late \in BOOLEAN, StopOnBudget(late)
      PROVE  StopReasonHonest'
  <2> DEFINE reason == IF Exceeded(late) = "max_iterations" THEN "max_iterations"
                       ELSE "budget_exceeded"
  <2>1. current <= Len(plan)
    BY <1>0, <1>4, PlanFacts DEF StopOnBudget, IsComplete
  <2>2. UNCHANGED <<decisions, planned>> /\ Finish("stopped", reason)
    BY <1>4 DEF StopOnBudget
  <2>3. reason \in {"budget_exceeded", "max_iterations"}
    OBVIOUS
  <2> HIDE DEF reason
  <2> QED
    BY <1>0, <2>1, <2>2, <2>3, UnmetStop
<1>5. ASSUME NEW yes \in Answers, Refused(yes)
      PROVE  StopReasonHonest'
  <2>1. current <= Len(plan)
    BY <1>0, <1>5, PlanFacts DEF Refused, ExecutedWith, IsComplete
  <2>2. UNCHANGED <<decisions, planned>> /\ Finish("failed", "error")
    BY <1>5 DEF Refused, ExecutedWith
  <2> QED
    BY <1>0, <2>1, <2>2, UnmetStop
<1>6. CASE UNCHANGED <<phase, runVars>>
  BY <1>0, <1>6 DEF StopReasonHonest, runVars
<1>7. CASE phase' # "over"
  BY <1>7 DEF StopReasonHonest
<1>8. RequestStop \/ UNCHANGED vars => UNCHANGED <<phase, runVars>>
  BY DEF RequestStop, vars
<1>9. Stream \/ ToolCallEnd \/ Accepted \/ TriedAgain => phase' # "over"
  BY DEF Stream, ToolCallEnd, Accepted, TriedAgain
<1>10. \A yes \in Answers : Prompted(yes) => phase' # "over"
  BY DEF Prompted
<1>11. \A n \in 1..MaxPlanned, limit \in Limits, again \in BOOLEAN :
         Run(n, limit, again) => phase' # "over"
  BY DEF Run
<1>12. \A i \in 1..Len(ActiveTools) : ToolCallStart(i) => phase' # "over"
  BY DEF ToolCallStart
<1> QED
  BY <1>1, <1>2, <1>3, <1>4, <1>5, <1>6, <1>7, <1>8, <1>9, <1>10, <1>11, <1>12, StepCases

-----------------------------------------------------------------------------
(* The policy.                                                             *)

LEMMA PolicyStep ==
  ASSUME RuntimeInv, [Next]_vars
  PROVE  PolicyEnforced'
<1>0. PolicyEnforced
  BY DEF RuntimeInv
<1>1. ASSUME UNCHANGED policy, Working
      PROVE  PolicyEnforced'
  BY <1>0, <1>1 DEF PolicyEnforced, policy, Working
<1>2. ASSUME ~Working'
      PROVE  PolicyEnforced'
  BY <1>2 DEF PolicyEnforced, Working
<1>3. ASSUME NEW yes \in Answers, Prompted(yes), mode # "none"
      PROVE  PolicyEnforced'
  <2>1. /\ audit' = Allowed(yes) /\ UNCHANGED <<mode, spec>> /\ Stopper(yes) = 0
        /\ confirmed' = {t \in Allowed(yes) :
                           \E i \in 1..Len(ActiveTools) : ActiveTools[i] = t /\ yes[i]}
    BY <1>3 DEF Prompted, ExecutedWith
  <2>2. Allowed(yes) = Tools
    BY <1>3, <2>1 DEF Allowed, Tools
  <2>3. ASSUME NEW t \in Tools
        PROVE  /\ spec[t] \notin {"unregistered", "unavailable"}
               /\ mode # "permissive" /\ spec[t] = "high" => t \in confirmed'
               /\ mode = "strict" /\ spec[t] = "medium" => t \in confirmed'
    <3>1. PICK i \in 1..Len(ActiveTools) : ActiveTools[i] = t
      BY DEF Tools
    <3>2. Decision(t, yes[i]) = "allow"
      BY <1>3, <2>1, <3>1, StopperTyped
    <3>3. spec[t] \notin {"unregistered", "unavailable"}
      BY <3>2 DEF Decision
    <3>4. /\ mode # "permissive" /\ spec[t] = "high" => yes[i]
          /\ mode = "strict" /\ spec[t] = "medium" => yes[i]
      BY <3>2, <3>3 DEF Decision
    <3>5. yes[i] => t \in confirmed'
      BY <2>1, <2>2, <3>1
    <3> QED
      BY <3>3, <3>4, <3>5
  <2> QED
    BY <2>1, <2>2, <2>3 DEF PolicyEnforced
<1>4. ASSUME NEW yes \in Answers, Prompted(yes), mode = "none"
      PROVE  PolicyEnforced'
  BY <1>4 DEF Prompted, ExecutedWith, PolicyEnforced
<1>5. Complete \/ Accepted \/ TriedAgain \/ GivenUp \/ PromptRaises => ~Working'
  BY DEF Complete, Accepted, TriedAgain, GivenUp, PromptRaises, Finish, Working
<1>6. Stream \/ ToolCallEnd => UNCHANGED policy /\ Working
  BY DEF Stream, ToolCallEnd, Working
<1>7. RequestStop \/ UNCHANGED vars => PolicyEnforced'
  BY <1>0 DEF RequestStop, vars, policy, PolicyEnforced
<1>8. \A late \in BOOLEAN : StopOnBudget(late) => ~Working'
  BY DEF StopOnBudget, Finish, Working
<1>9. \A yes \in Answers : Refused(yes) => ~Working'
  BY DEF Refused, Finish, Working
<1>10. \A n \in 1..MaxPlanned, limit \in Limits, again \in BOOLEAN :
         Run(n, limit, again) => ~Working'
  BY DEF Run, Working
<1>11. \A i \in 1..Len(ActiveTools) : ToolCallStart(i) => UNCHANGED policy /\ Working
  BY DEF ToolCallStart, Working
<1> QED
  BY <1>1, <1>2, <1>3, <1>4, <1>5, <1>6, <1>7, <1>8, <1>9, <1>10, <1>11, StepCases

-----------------------------------------------------------------------------
(* What the model is told.                                                 *)

LEMMA NoteStep ==
  ASSUME RuntimeInv, [Next]_vars
  PROVE  NoteWaits' /\ DecisionsReachModel'
<1>0. RuntimeTyped /\ NoteWaits /\ DecisionsReachModel
  BY DEF RuntimeInv
<1>1. ASSUME ~Working'
      PROVE  NoteWaits' /\ DecisionsReachModel'
  BY <1>1 DEF NoteWaits, DecisionsReachModel, Working
<1>2. CASE Stream
  <2>1. /\ phase = "prompting" /\ phase' = "streaming" /\ UNCHANGED <<run, decisions>>
        /\ told' = IF notes = <<>> THEN told ELSE notes[Len(notes)]
    BY <1>2 DEF Stream, runVars
  <2> QED
    BY <1>0, <2>1 DEF NoteWaits, DecisionsReachModel
<1>3. ASSUME \/ ToolCallEnd
             \/ \E i \in 1..Len(ActiveTools) : ToolCallStart(i)
      PROVE  NoteWaits' /\ DecisionsReachModel'
  <2>1. /\ phase \in {"streaming", "calling"} /\ phase' \in {"streaming", "calling"}
        /\ UNCHANGED <<run, decisions, told>>
    BY <1>3 DEF ToolCallEnd, ToolCallStart, runVars
  <2> QED
    BY <1>0, <2>1 DEF NoteWaits, DecisionsReachModel
<1>4. ASSUME NEW yes \in Answers, Prompted(yes)
      PROVE  NoteWaits' /\ DecisionsReachModel'
  <2>1. /\ phase' = "prompting" /\ UNCHANGED <<run, decisions>> /\ notes' = notes \o Note
    BY <1>4 DEF Prompted, ExecutedWith
  <2> DEFINE note == [run |-> run, decisions |-> Len(decisions)]
  <2>2. ASSUME decisions # <<>>
        PROVE  notes' # <<>> /\ notes'[Len(notes')] = note
    <3>1. notes' = Append(notes, note)
      <4>1. notes' = notes \o <<note>>
        BY <2>1, <2>2 DEF Note
      <4>2. notes \in Seq([run : Nat, decisions : Nat]) /\ note \in [run : Nat, decisions : Nat]
        BY <1>0, PlanFacts DEF RuntimeTyped
      <4> HIDE DEF note
      <4> QED
        BY <4>1, <4>2, AppendIsConcat
    <3>2. notes \in Seq([run : Nat, decisions : Nat])
      BY <1>0 DEF RuntimeTyped
    <3> HIDE DEF note
    <3> QED
      BY <3>1, <3>2, AppendProperties, LenProperties
  <2> QED
    BY <2>1, <2>2 DEF NoteWaits, DecisionsReachModel
<1>5. RequestStop \/ UNCHANGED vars => NoteWaits' /\ DecisionsReachModel'
  BY <1>0 DEF RequestStop, vars, runVars, session, NoteWaits, DecisionsReachModel
<1>6. Complete \/ Accepted \/ TriedAgain \/ GivenUp \/ PromptRaises => ~Working'
  BY DEF Complete, Accepted, TriedAgain, GivenUp, PromptRaises, Finish, Working
<1>7. \A late \in BOOLEAN : StopOnBudget(late) => ~Working'
  BY DEF StopOnBudget, Finish, Working
<1>8. \A yes \in Answers : Refused(yes) => ~Working'
  BY DEF Refused, Finish, Working
<1>9. \A n \in 1..MaxPlanned, limit \in Limits, again \in BOOLEAN :
        Run(n, limit, again) => ~Working'
  BY DEF Run, Working
<1> QED
  BY <1>1, <1>2, <1>3, <1>4, <1>5, <1>6, <1>7, <1>8, <1>9, StepCases

-----------------------------------------------------------------------------
(* Spans.                                                                  *)

ToolSpans ==
  /\ Cardinality(unfinished) <= raised + IF call = 0 THEN 0 ELSE 1
  /\ call # 0 => opened[ActiveTools[call]] # 0
  /\ \A t \in Tools : opened[t] # 0 => [id |-> opened[t], name |-> t] \in unfinished

RunSpans ==
  /\ Len(recorded) = IF phase \in {"idle", "over"} THEN run ELSE run - 1
  /\ phase = "over" => recorded[run] = failed

LEMMA StartSpan ==
  ASSUME RuntimeInv, NEW i \in 1..Len(ActiveTools), ToolCallStart(i)
  PROVE  SpansApart' /\ ToolSpans'
<1> DEFINE tool == ActiveTools[i]
           span == NewSpan(i)
<1>0. SpansApart /\ RuntimeTyped /\ ToolSpans /\ tool \in Tools
  BY ToolsTyped DEF RuntimeInv, SpansAccounted, ToolSpans
<1>1. /\ span.id \in Nat \ {0} /\ span = [id |-> span.id, name |-> tool]
      /\ \A s \in unfinished : s.id # span.id
  BY <1>0, FreshSpan
<1>2. /\ phase = "streaming" /\ phase' = "calling" /\ call' = i /\ UNCHANGED raised
      /\ unfinished' = unfinished \cup {span}
      /\ opened' = [opened EXCEPT ![tool] = span.id]
  BY DEF ToolCallStart
<1>3. call = 0
  BY <1>0, <1>2 DEF SpansApart
<1>4. i # 0 /\ call' \in 0..Len(ActiveTools)
  BY <1>2, ToolsTyped
<1> HIDE DEF tool, span
<1>5. IsFiniteSet(unfinished') /\ Cardinality(unfinished') = Cardinality(unfinished) + 1
  BY <1>0, <1>1, <1>2, FS_AddElement DEF SpansApart
<1>6. SpansApart'
  <2>1. \A s, t \in unfinished' : s.id = t.id => s = t
    BY <1>0, <1>1, <1>2 DEF SpansApart
  <2> QED
    BY <1>2, <1>4, <1>5, <2>1 DEF SpansApart
<1>7. Cardinality(unfinished') <= raised' + 1
  <2>1. Cardinality(unfinished) \in Nat /\ raised \in Nat
    BY <1>0, FS_CardinalityType DEF SpansApart, RuntimeTyped
  <2>2. Cardinality(unfinished) <= raised
    BY <1>0, <1>3, <2>1 DEF ToolSpans
  <2> QED
    BY <1>2, <1>5, <2>1, <2>2
<1>8. opened \in [Tools -> Nat]
  BY <1>0 DEF RuntimeTyped
<1>9. opened'[tool] = span.id /\ (\A t \in Tools : t # tool => opened'[t] = opened[t])
  BY <1>0, <1>2, <1>8
<1>10. opened'[ActiveTools[call']] # 0
  BY <1>1, <1>2, <1>9 DEF tool
<1>11. \A t \in Tools : opened'[t] # 0 => [id |-> opened'[t], name |-> t] \in unfinished'
  BY <1>0, <1>1, <1>2, <1>9 DEF ToolSpans
<1> QED
  BY <1>2, <1>4, <1>6, <1>7, <1>10, <1>11 DEF ToolSpans

LEMMA EndSpan ==
  ASSUME RuntimeInv, ToolCallEnd
  PROVE  SpansApart' /\ ToolSpans'
<1> DEFINE tool == ActiveTools[call]
           span == [id |-> opened[tool], name |-> tool]
<1>0. SpansApart /\ RuntimeTyped /\ ToolSpans
  BY DEF RuntimeInv, SpansAccounted, ToolSpans
<1>1. /\ phase = "calling" /\ phase' = "streaming" /\ call' = 0 /\ UNCHANGED raised
      /\ unfinished' = {s \in unfinished : s.id # opened[tool]}
      /\ opened' = [opened EXCEPT ![tool] = 0]
  BY DEF ToolCallEnd, CloseSpan
<1>2. call # 0 /\ call \in 1..Len(ActiveTools) /\ tool \in Tools
  BY <1>0, <1>1, ToolsTyped DEF SpansApart
<1>3. opened[tool] # 0 /\ span \in unfinished
  BY <1>0, <1>2 DEF ToolSpans
<1>4. span.id = opened[tool] /\ span.name = tool
  OBVIOUS
<1> HIDE DEF tool, span
<1>5. unfinished' = unfinished \ {span}
  BY <1>0, <1>1, <1>3, <1>4 DEF SpansApart
<1>6. IsFiniteSet(unfinished') /\ Cardinality(unfinished') = Cardinality(unfinished) - 1
  BY <1>0, <1>3, <1>5, FS_RemoveElement DEF SpansApart
<1>7. SpansApart'
  <2>1. call' \in 0..Len(ActiveTools)
    BY <1>1, ToolsTyped
  <2> QED
    BY <1>0, <1>1, <1>5, <1>6, <2>1 DEF SpansApart
<1>8. Cardinality(unfinished') <= raised'
  <2>1. Cardinality(unfinished) \in Nat /\ raised \in Nat
    BY <1>0, FS_CardinalityType DEF SpansApart, RuntimeTyped
  <2>2. Cardinality(unfinished) <= raised + 1
    BY <1>0, <1>2, <2>1 DEF ToolSpans
  <2> QED
    BY <1>1, <1>6, <2>1, <2>2
<1>9. opened \in [Tools -> Nat]
  BY <1>0 DEF RuntimeTyped
<1>10. ASSUME NEW t \in Tools, opened'[t] # 0
       PROVE  [id |-> opened'[t], name |-> t] \in unfinished'
  <2>1. t # tool /\ opened'[t] = opened[t]
    BY <1>1, <1>2, <1>9, <1>10
  <2>2. [id |-> opened[t], name |-> t] \in unfinished
    BY <1>0, <1>10, <2>1 DEF ToolSpans
  <2>3. [id |-> opened[t], name |-> t] # span
    BY <1>4, <2>1
  <2> QED
    BY <1>5, <2>1, <2>2, <2>3
<1>11. Cardinality(unfinished') <= raised' + IF call' = 0 THEN 0 ELSE 1
  <2>1. raised' \in Nat
    BY <1>0, <1>1 DEF RuntimeTyped
  <2> QED
    BY <1>1, <1>8, <2>1
<1> QED
  BY <1>1, <1>7, <1>10, <1>11 DEF ToolSpans

(* Most steps start no call and end none.                                  *)
SpansKept ==
  /\ UNCHANGED <<unfinished, opened, call, raised>>
  /\ phase = "calling" <=> phase' = "calling"

LEMMA MostKeepSpans ==
  ASSUME \/ Complete \/ Stream \/ RequestStop \/ Accepted \/ TriedAgain \/ GivenUp
         \/ \E late \in BOOLEAN : StopOnBudget(late)
         \/ \E yes \in Answers : Refused(yes) \/ Prompted(yes)
         \/ \E n \in 1..MaxPlanned, limit \in Limits, again \in BOOLEAN : Run(n, limit, again)
         \/ UNCHANGED vars
  PROVE  SpansKept
<1> USE DEF SpansKept, Finish, session, trace
<1>1. CASE Complete \/ (\E late \in BOOLEAN : StopOnBudget(late))
  BY <1>1 DEF Complete, StopOnBudget
<1>2. CASE Stream \/ RequestStop \/ UNCHANGED vars
  BY <1>2 DEF Stream, RequestStop, vars
<1>3. CASE Accepted \/ TriedAgain \/ GivenUp
  BY <1>3 DEF Accepted, TriedAgain, GivenUp, Answered
<1>4. CASE \E yes \in Answers : Refused(yes) \/ Prompted(yes)
  BY <1>4 DEF Refused, Prompted, ExecutedWith
<1>5. CASE \E n \in 1..MaxPlanned, limit \in Limits, again \in BOOLEAN : Run(n, limit, again)
  BY <1>5 DEF Run
<1> QED
  BY <1>1, <1>2, <1>3, <1>4, <1>5

LEMMA ToolSpansStep ==
  ASSUME RuntimeInv, [Next]_vars
  PROVE  SpansApart' /\ ToolSpans'
<1>0. SpansApart /\ RuntimeTyped /\ ToolSpans
  BY DEF RuntimeInv, SpansAccounted, ToolSpans
<1>1. ASSUME SpansKept
      PROVE  SpansApart' /\ ToolSpans'
  BY <1>0, <1>1 DEF SpansKept, SpansApart, ToolSpans
<1>2. CASE PromptRaises
  <2>1. /\ UNCHANGED <<unfinished, opened>> /\ call' = 0 /\ raised' = raised + 1
        /\ phase' = "over"
    BY <1>2 DEF PromptRaises, Finish
  <2>2. call' \in 0..Len(ActiveTools)
    BY <2>1, ToolsTyped
  <2>3. Cardinality(unfinished) \in Nat /\ raised \in Nat
    BY <1>0, FS_CardinalityType DEF SpansApart, RuntimeTyped
  <2>4. Cardinality(unfinished') <= raised' + IF call' = 0 THEN 0 ELSE 1
    BY <1>0, <2>1, <2>3 DEF ToolSpans
  <2> QED
    BY <1>0, <2>1, <2>2, <2>4 DEF SpansApart, ToolSpans
<1>3. CASE ToolCallEnd
  BY <1>3, EndSpan
<1>4. CASE \E i \in 1..Len(ActiveTools) : ToolCallStart(i)
  BY <1>4, StartSpan
<1> QED
  BY <1>1, <1>2, <1>3, <1>4, MostKeepSpans, StepCases

LEMMA RunSpansStep ==
  ASSUME RuntimeInv, [Next]_vars
  PROVE  RunSpans'
<1>0. RuntimeTyped /\ RunSpans
  BY DEF RuntimeInv, SpansAccounted, RunSpans
<1>1. recorded \in Seq(BOOLEAN) /\ Len(recorded) \in Nat /\ run \in Nat
  BY <1>0, LenProperties DEF RuntimeTyped
<1>2. ASSUME NEW error \in BOOLEAN, RecordRun(error), phase \notin {"idle", "over"},
             phase' = "over", failed' = error, UNCHANGED run
      PROVE  RunSpans'
  <2>1. recorded' = Append(recorded, error)
    BY <1>2 DEF RecordRun
  <2>2. Len(recorded') = Len(recorded) + 1 /\ recorded'[Len(recorded) + 1] = error
    BY <1>1, <2>1, AppendProperties
  <2>3. Len(recorded) = run - 1
    BY <1>0, <1>2 DEF RunSpans
  <2> QED
    BY <1>1, <1>2, <2>2, <2>3 DEF RunSpans
<1>3. ASSUME UNCHANGED <<recorded, run>>, phase \notin {"idle", "over"},
             phase' \notin {"idle", "over"}
      PROVE  RunSpans'
  BY <1>0, <1>3 DEF RunSpans
<1>4. CASE Complete
  <2>1. /\ RecordRun(FALSE) /\ phase = "head" /\ phase' = "over" /\ failed' = FALSE
        /\ UNCHANGED run
    BY <1>4 DEF Complete, Finish
  <2> QED
    BY <1>2, <2>1
<1>5. ASSUME \/ GivenUp \/ PromptRaises
             \/ \E late \in BOOLEAN : StopOnBudget(late)
             \/ \E yes \in Answers : Refused(yes)
      PROVE  RunSpans'
  <2>1. /\ RecordRun(TRUE) /\ phase \notin {"idle", "over"} /\ phase' = "over"
        /\ failed' = TRUE /\ UNCHANGED run
    BY <1>5 DEF GivenUp, Answered, PromptRaises, StopOnBudget, Refused, ExecutedWith, Finish
  <2> QED
    BY <1>2, <2>1
<1>6. ASSUME \/ Stream \/ ToolCallEnd \/ Accepted \/ TriedAgain
             \/ \E yes \in Answers : Prompted(yes)
             \/ \E i \in 1..Len(ActiveTools) : ToolCallStart(i)
      PROVE  RunSpans'
  <2>1. /\ UNCHANGED <<recorded, run>> /\ phase \notin {"idle", "over"}
        /\ phase' \notin {"idle", "over"}
    BY <1>6 DEF Stream, ToolCallEnd, Accepted, TriedAgain, Answered, Prompted, ExecutedWith,
                ToolCallStart, runVars, trace
  <2> QED
    BY <1>3, <2>1
<1>7. RequestStop \/ UNCHANGED vars => RunSpans'
  BY <1>0 DEF RequestStop, vars, runVars, trace, RunSpans
<1>8. ASSUME NEW n \in 1..MaxPlanned, NEW limit \in Limits, NEW again \in BOOLEAN,
             Run(n, limit, again)
      PROVE  RunSpans'
  <2>1. /\ phase \in {"idle", "over"} /\ phase' = "head" /\ run' = run + 1
        /\ UNCHANGED recorded
    BY <1>8 DEF Run, trace
  <2> QED
    BY <1>0, <1>1, <2>1 DEF RunSpans
<1> QED
  BY <1>4, <1>5, <1>6, <1>7, <1>8, StepCases

-----------------------------------------------------------------------------
(***************************************************************************)
(* The theorems.                                                           *)
(***************************************************************************)

LEMMA RuntimeStep == RuntimeInv /\ [Next]_vars => RuntimeInv'
<1> SUFFICES ASSUME RuntimeInv, [Next]_vars
             PROVE  RuntimeInv'
  OBVIOUS
<1>1. RuntimeTyped'
  BY TypedStep
<1>2. PlanAhead' /\ DecisionsInOrder' /\ Tried' /\ WorkBounded'
  BY PlanStep DEF PlanInv
<1>3. StopReasonHonest' /\ PolicyEnforced'
  BY StopStep, PolicyStep
<1>4. NoteWaits' /\ DecisionsReachModel'
  BY NoteStep
<1>5. SpansApart' /\ SpansAccounted'
  BY ToolSpansStep, RunSpansStep DEF ToolSpans, RunSpans, SpansAccounted
<1> QED
  BY <1>1, <1>2, <1>3, <1>4, <1>5 DEF RuntimeInv

(* A run of the autonomous runtime ends with an honest reason, within the  *)
(* limits of its goal and with two attempts at an objective at the most,   *)
(* works only as the policy allows, tells the model of the decisions made  *)
(* so far, and leaves a span for each thing done: for every plan, limit,   *)
(* registry and list of tools, whatever the prompts answer, raise or are   *)
(* stopped at (AgentRuntime.run).                                          *)
THEOREM RunsAlwaysSound == Spec => []RuntimeSound
<1>1. RuntimeInv => RuntimeSound
  BY DEF RuntimeInv, RuntimeSound
<1> QED
  BY <1>1, InitSound, RuntimeStep, PTL DEF Spec
=============================================================================
