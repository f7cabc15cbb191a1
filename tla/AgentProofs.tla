----------------------------- MODULE AgentProofs -----------------------------
(***************************************************************************)
(* Theorems of the embeddable agent, for both queue modes and any number   *)
(* of runs, calls, replies and queued messages.                            *)
(***************************************************************************)
EXTENDS Agent, SequenceTheorems, TLAPS

(* Only the embedding program's messages are ever queued or pending.       *)
Outside == {m \in Message : m.kind \in {"prompt", "steer", "follow"} /\ m.left = 0}

TypeInv ==
  /\ TypeOK
  /\ {steering, followUps, pending} \subseteq Seq(Outside)

(***************************************************************************)
(* Lemmas on messages, queues and sequences.                               *)
(***************************************************************************)

(* What the queues hold may be put in the transcript.                      *)
LEMMA OutsideMessages == Outside \subseteq Message /\ Seq(Outside) \subseteq Seq(Message)
<1>1. Outside \subseteq Message
  BY DEF Outside
<1> QED BY <1>1, SeqMonotonic

(* The constructors build messages.                                        *)
LEMMA Constructors ==
  ASSUME TypeOK, NEW n \in Nat, NEW k \in Nat
  PROVE  /\ QueuedMessage("steer", n) \in Outside
         /\ QueuedMessage("follow", n) \in Outside
         /\ PromptMessage(n) \in Outside
         /\ AssistantMessage(n, k) \in Message
         /\ ToolResult(n, k) \in Message
         /\ FailureMessage \in Message
BY DEF TypeOK, QueuedMessage, PromptMessage, AssistantMessage, ToolResult,
       FailureMessage, Message, Kinds, Outside

(* Draining splits a queue into two queues.                                *)
LEMMA DrainedAndKept ==
  ASSUME NEW S, NEW q \in Seq(S), NEW mode
  PROVE  Drained(q, mode) \in Seq(S) /\ Kept(q, mode) \in Seq(S)
<1>1. <<>> \in Seq(S)
  BY EmptySeq
<1>2. CASE mode = "all" \/ q = <<>>
  BY <1>1, <1>2 DEF Drained, Kept
<1>3. CASE ~(mode = "all" \/ q = <<>>)
  <2>1. Head(q) \in S /\ Tail(q) \in Seq(S)
    BY <1>3, HeadTailProperties
  <2>2. <<Head(q)>> \in Seq(S)
    BY <2>1
  <2> QED BY <1>3, <2>1, <2>2 DEF Drained, Kept
<1> QED BY <1>2, <1>3

(* The results of a batch are messages.                                    *)
LEMMA ResultsAreMessages ==
  ASSUME TypeOK, NEW n \in Nat, n <= Len(calls)
  PROVE  /\ ReportedResults(n) \in Seq(Message)
         /\ Len(ReportedResults(n)) = n
         /\ \A i \in 1..n : ReportedResults(n)[i] = ToolResult(replies, Len(calls) - i)
<1>1. Len(calls) \in Nat /\ replies \in Nat
  BY LenProperties DEF TypeOK
<1>2. \A i \in 1..n : Len(calls) - i \in Nat
  BY <1>1
<1>3. \A i \in 1..n : ToolResult(replies, Len(calls) - i) \in Message
  BY <1>1, <1>2, Constructors
<1>4. ReportedResults(n) \in [1..n -> Message]
  BY <1>3 DEF ReportedResults
<1>5. \A i \in 1..n : ReportedResults(n)[i] = ToolResult(replies, Len(calls) - i)
  BY DEF ReportedResults
<1>6. ReportedResults(n) \in Seq(Message)
  BY <1>4, SeqDef
<1> HIDE DEF ReportedResults
<1> QED BY <1>4, <1>5, <1>6, LenProperties

(* Cleared messages are named by their kind and number.                    *)
LEMMA QueuedInTyped ==
  ASSUME NEW s \in Seq(Message)
  PROVE  QueuedIn(s) \subseteq {"steer", "follow"} \X Nat
<1>1. \A i \in 1..Len(s) : s[i] \in Message
  BY ElementOfSeq
<1>2. \A i \in 1..Len(s) : s[i].id \in Nat
  BY <1>1 DEF Message
<1> QED BY <1>2 DEF QueuedIn

(* Moving the head of one sequence to the end of the one before it.        *)
LEMMA MoveHead ==
  ASSUME NEW S, NEW s \in Seq(S), NEW q \in Seq(S), q # <<>>
  PROVE  Append(s, Head(q)) \o Tail(q) = s \o q
<1>1. Head(q) \in S /\ Tail(q) \in Seq(S) /\ <<Head(q)>> \in Seq(S)
  BY HeadTailProperties
<1>2. <<Head(q)>> \o Tail(q) = q
  <2>1. Len(q) \in Nat \ {0}
    BY EmptySeq
  <2>2. SubSeq(q, 1, Len(q)) = <<q[1]>> \o SubSeq(q, 2, Len(q))
    BY <2>1, SubSeqRecursiveFirst
  <2>3. SubSeq(q, 1, Len(q)) = q /\ Tail(q) = SubSeq(q, 2, Len(q))
    BY SubSeqFull, TailIsSubSeq
  <2>4. Head(q) = q[1]
    OBVIOUS
  <2> QED BY <2>2, <2>3, <2>4
<1>3. Append(s, Head(q)) = s \o <<Head(q)>>
  BY <1>1, AppendIsConcat
<1>4. (s \o <<Head(q)>>) \o Tail(q) = s \o (<<Head(q)>> \o Tail(q))
  BY <1>1, ConcatAssociative
<1> QED BY <1>2, <1>3, <1>4

(* A suffix is what SubSeq cuts off.                                       *)
LEMMA SuffixBySubSeq ==
  ASSUME NEW S, NEW p \in Seq(S), NEW s \in Seq(S)
  PROVE  /\ Len(s) <= Len(p \o s)
         /\ s = SubSeq(p \o s, Len(p \o s) - Len(s) + 1, Len(p \o s))
<1> DEFINE t == p \o s
           m == Len(t) - Len(s) + 1
<1>1. Len(p) \in Nat /\ Len(s) \in Nat
  BY LenProperties
<1>2. /\ t \in Seq(S)
      /\ Len(t) = Len(p) + Len(s)
      /\ \A i \in 1..(Len(p) + Len(s)) : t[i] = IF i <= Len(p) THEN p[i] ELSE s[i - Len(p)]
  BY ConcatProperties
<1> HIDE DEF t
<1>3. m = Len(p) + 1 /\ m \in Int
  BY <1>1, <1>2
<1>4. \A i \in m..Len(t) : t[i] \in S
  <2> SUFFICES ASSUME NEW i \in m..Len(t) PROVE t[i] \in S
    OBVIOUS
  <2>1. i \in 1..Len(t)
    BY <1>1, <1>2, <1>3
  <2> QED BY <1>2, <2>1, ElementOfSeq
<1> HIDE DEF m
<1>5. /\ SubSeq(t, m, Len(t)) \in Seq(S)
      /\ Len(SubSeq(t, m, Len(t))) = IF m <= Len(t) THEN Len(t) - m + 1 ELSE 0
      /\ \A i \in 1..(Len(t) - m + 1) : SubSeq(t, m, Len(t))[i] = t[m + i - 1]
  BY <1>1, <1>2, <1>3, <1>4, SubSeqProperties
<1>6. Len(SubSeq(t, m, Len(t))) = Len(s)
  BY <1>1, <1>2, <1>3, <1>5
<1>7. \A i \in 1..Len(s) : s[i] = SubSeq(t, m, Len(t))[i]
  <2> SUFFICES ASSUME NEW i \in 1..Len(s) PROVE s[i] = SubSeq(t, m, Len(t))[i]
    OBVIOUS
  <2>1. m + i - 1 = Len(p) + i /\ Len(p) + i \in 1..(Len(p) + Len(s))
    BY <1>1, <1>3
  <2>2. SubSeq(t, m, Len(t))[i] = t[m + i - 1]
    BY <1>1, <1>2, <1>3, <1>5
  <2>3. t[Len(p) + i] = s[(Len(p) + i) - Len(p)]
    BY <1>1, <1>2, <2>1
  <2>4. (Len(p) + i) - Len(p) = i
    BY <1>1
  <2> QED BY <2>1, <2>2, <2>3, <2>4
<1>8. s = SubSeq(t, m, Len(t))
  BY <1>5, <1>6, <1>7, SeqEqual
<1> QED BY <1>1, <1>2, <1>8 DEF t, m

(***************************************************************************)
(* The type invariant.                                                     *)
(***************************************************************************)

LEMMA TypeInit == Init => TypeInv
<1> SUFFICES ASSUME Init PROVE TypeInv
  OBVIOUS
<1>1. <<>> \in Seq(Message) /\ <<>> \in Seq(Outside)
      /\ <<>> \in Seq({"queued", "executing", "finished", "truncated"}) /\ Len(<<>>) = 0
  BY EmptySeq
<1>2. {transcript, context, steering, followUps, pending} \subseteq Seq(Message)
  BY <1>1 DEF Init
<1>3. {steering, followUps, pending} \subseteq Seq(Outside)
  BY <1>1 DEF Init
<1>4. calls \in Seq({"queued", "executing", "finished", "truncated"}) /\ reported \in 0..Len(calls)
  BY <1>1 DEF Init
<1>5. /\ pc \in Stages /\ (aborted => Active)
      /\ {runs, replies, steers, follows} \subseteq Nat
      /\ dropped \subseteq {"steer", "follow"} \X Nat /\ interrupted \subseteq Nat
  BY DEF Init, Stages, Active
<1>6. {skipPoll, parallel, terminating, more, aborted, wiped} \subseteq BOOLEAN
  BY DEF Init
<1> QED BY <1>2, <1>3, <1>4, <1>5, <1>6 DEF TypeInv, TypeOK

(* Only the run that goes on is interrupted.                               *)
LEMMA InterruptedGrows ==
  ASSUME [Next]_vars PROVE interrupted' \in {interrupted, interrupted \cup {runs}}
<1>1. CASE User \/ UNCHANGED vars
  BY <1>1 DEF User, Steer, FollowUp, ClearAllQueues, Reset, Abort, Prompt, ContinueRun, Begin, vars
<1>2. CASE Announce \/ FirstPoll \/ Inject \/ StartStream \/ EndTurn
  BY <1>2 DEF Announce, FirstPoll, Inject, StartStream, EndTurn
<1>3. ASSUME NEW i \in DOMAIN calls, Refuse(i) \/ Execute(i) \/ Executed(i)
      PROVE  interrupted' = interrupted
  BY <1>3 DEF Refuse, Execute, Executed
<1>4. ASSUME NEW k, NEW reason, Reply(reason, k)
      PROVE  interrupted' \in {interrupted, interrupted \cup {runs}}
  BY <1>4 DEF Reply, Interrupts
<1>5. CASE Report
  BY <1>5 DEF Report, Interrupts
<1>6. CASE End \/ Fail \/ Cut
  BY <1>6 DEF End, Fail, Cut, Finish, LoopEnds, Interrupts
<1> QED BY <1>1, <1>2, <1>3, <1>4, <1>5, <1>6 DEF Next, Advance

(* A new run: its prompts are a queue's or the caller's.                   *)
LEMMA TypeBegin ==
  ASSUME TypeInv, ~Active, NEW prompts \in Seq(Outside), NEW skip \in BOOLEAN,
         Begin(prompts, skip), steering' \in Seq(Outside), followUps' \in Seq(Outside)
  PROVE  TypeInv'
<1> USE OutsideMessages DEF TypeInv, TypeOK
<1>1. context' \in Seq(Message)
  BY ConcatProperties DEF Begin
<1>2. calls' = calls /\ reported' = reported /\ terminating' = terminating
  BY DEF Begin, batch
<1>3. {transcript, context, steering, followUps, pending}' \subseteq Seq(Message)
  BY <1>1 DEF Begin
<1>4. {steering, followUps, pending}' \subseteq Seq(Outside)
  BY DEF Begin
<1>5. {skipPoll, parallel, terminating, more, aborted, wiped}' \subseteq BOOLEAN
  BY <1>2 DEF Begin
<1>6. pc' \in Stages /\ (aborted' => Active')
  BY DEF Begin, Active, Stages
<1>7. {runs, replies, steers, follows}' \subseteq Nat /\ dropped' \subseteq {"steer", "follow"} \X Nat
  BY SMTT(20) DEF Begin
<1>8. (calls \in Seq({"queued", "executing", "finished", "truncated"}))' /\ (reported \in 0..Len(calls))'
  BY <1>2
<1>9. interrupted' \subseteq Nat
  BY DEF Begin
<1> QED BY <1>3, <1>4, <1>5, <1>6, <1>7, <1>8, <1>9

(* A run that ends leaves its locals behind.                               *)
LEMMA TypeLoopEnds ==
  ASSUME TypeInv, LoopEnds, UNCHANGED <<queues, numbers>>, transcript' \in Seq(Message),
         pc' \in Stages, aborted' \in BOOLEAN, aborted' => Active'
  PROVE  TypeInv'
<1> USE OutsideMessages DEF TypeInv, TypeOK
<1>1. <<>> \in Seq(Message) /\ <<>> \in Seq(Outside)
      /\ <<>> \in Seq({"queued", "executing", "finished", "truncated"}) /\ Len(<<>>) = 0
  BY EmptySeq
<1>2. {transcript, context, steering, followUps, pending}' \subseteq Seq(Message)
      /\ {steering, followUps, pending}' \subseteq Seq(Outside)
  BY <1>1 DEF LoopEnds, queues
<1>3. /\ (calls \in Seq({"queued", "executing", "finished", "truncated"}))'
      /\ (reported \in 0..Len(calls))'
  BY <1>1 DEF LoopEnds, NoBatch
<1>4. dropped' \subseteq {"steer", "follow"} \X Nat
  BY QueuedInTyped DEF LoopEnds
<1>5. {skipPoll, parallel, terminating, more, aborted, wiped}' \subseteq BOOLEAN
  BY DEF LoopEnds, NoBatch
<1>6. {runs, replies, steers, follows}' \subseteq Nat
  BY DEF numbers
<1>7. interrupted' \subseteq Nat
  BY DEF LoopEnds, Interrupts
<1> QED BY <1>2, <1>3, <1>4, <1>5, <1>6, <1>7

LEMMA TypeStep == TypeInv /\ [Next]_vars => TypeInv'
<1> SUFFICES ASSUME TypeInv, [Next]_vars PROVE TypeInv'
  OBVIOUS
<1> USE OutsideMessages DEF TypeInv, TypeOK, Active, Stages, queues, numbers, batch
<1> <<>> \in Seq(Message) /\ <<>> \in Seq(Outside)
  BY EmptySeq
<1> interrupted' \subseteq Nat
  BY InterruptedGrows
<1>1. CASE Steer
  <2>1. steering' \in Seq(Outside)
    BY <1>1, Constructors, AppendProperties, SMTT(20) DEF Steer
  <2> QED BY <1>1, <2>1, SMTT(30) DEF Steer
<1>2. CASE FollowUp
  <2>1. followUps' \in Seq(Outside)
    BY <1>2, Constructors, AppendProperties, SMTT(20) DEF FollowUp
  <2> QED BY <1>2, <2>1, SMTT(30) DEF FollowUp
<1>3. CASE ClearAllQueues
  <2>1. dropped' \subseteq {"steer", "follow"} \X Nat
    BY <1>3, QueuedInTyped, ConcatProperties DEF ClearAllQueues
  <2> QED BY <1>3, <2>1, SMTT(30) DEF ClearAllQueues
<1>4. CASE Reset
  <2>1. transcript \o steering \o followUps \in Seq(Message)
    BY ConcatProperties
  <2>2. dropped' \subseteq {"steer", "follow"} \X Nat
    BY <1>4, <2>1, QueuedInTyped DEF Reset
  <2> QED BY <1>4, <2>2, SMTT(30) DEF Reset
<1>5. CASE Abort
  BY <1>5 DEF Abort
<1>6. CASE Prompt
  <2>1. <<PromptMessage(runs + 1)>> \in Seq(Outside)
    BY Constructors
  <2> QED BY <1>6, <2>1, TypeBegin DEF Prompt
<1>7. CASE ContinueRun
  <2>1. /\ Drained(steering, SteeringMode) \in Seq(Outside)
        /\ Kept(steering, SteeringMode) \in Seq(Outside)
        /\ Drained(followUps, FollowUpMode) \in Seq(Outside)
        /\ Kept(followUps, FollowUpMode) \in Seq(Outside)
    BY DrainedAndKept
  <2> QED BY <1>7, <2>1, TypeBegin DEF ContinueRun
<1>8. CASE Announce
  <2>1. pending # <<>> /\ Head(pending) \in Outside /\ Tail(pending) \in Seq(Outside)
    BY <1>8, HeadTailProperties DEF Announce
  <2>2. transcript' \in Seq(Message)
    BY <1>8, <2>1, AppendProperties DEF Announce
  <2> QED BY <1>8, <2>1, <2>2, SMTT(30) DEF Announce
<1>9. CASE FirstPoll
  <2>1. /\ Drained(steering, SteeringMode) \in Seq(Outside)
        /\ Kept(steering, SteeringMode) \in Seq(Outside)
    BY DrainedAndKept
  <2>2. pending' \in Seq(Outside) /\ steering' \in Seq(Outside)
    BY <1>9, <2>1 DEF FirstPoll
  <2> QED BY <1>9, <2>2 DEF FirstPoll
<1>10. CASE Inject
  <2>1. pending # <<>> /\ Head(pending) \in Outside /\ Tail(pending) \in Seq(Outside)
    BY <1>10, HeadTailProperties DEF Inject
  <2>2. transcript' \in Seq(Message) /\ context' \in Seq(Message)
    BY <1>10, <2>1, AppendProperties DEF Inject
  <2> QED BY <1>10, <2>1, <2>2, SMTT(30) DEF Inject
<1>11. CASE StartStream
  BY <1>11 DEF StartStream
<1>12. ASSUME NEW k \in 0..MaxCalls, NEW reason \in {"stop", "length", "error"}, Reply(reason, k)
       PROVE TypeInv'
  <2>1. AssistantMessage(replies + 1, k) \in Message
    BY AgentAssumption, Constructors, SMTT(20)
  <2>2. transcript' \in Seq(Message) /\ context' \in Seq(Message)
    BY <1>12, <2>1, AppendProperties DEF Reply
  <2>3. CASE reason = "error"
    <3>1. /\ pc = "streaming" /\ pc' = "ending" /\ replies' = replies + 1 /\ more' = FALSE
          /\ UNCHANGED <<batch, queues, pending, skipPoll, parallel, aborted, runs, steers,
                         follows, dropped, wiped>>
      BY <1>12, <2>3 DEF Reply
    <3>2. {skipPoll, parallel, terminating, more, aborted, wiped}' \subseteq BOOLEAN
      BY <3>1
    <3>3. {runs, replies, steers, follows}' \subseteq Nat
      BY <3>1
    <3> QED BY <2>2, <3>1, <3>2, <3>3
  <2>4. CASE reason # "error"
    <3>1. calls' \in [1..k -> {"queued", "executing", "finished", "truncated"}]
      BY <1>12, <2>4 DEF Reply
    <3>2. calls' \in Seq({"queued", "executing", "finished", "truncated"})
      BY <3>1, AgentAssumption, SeqDef, SMTT(20)
    <3>3. Len(calls') \in Nat /\ reported' = 0 /\ reported' \in 0..Len(calls')
      BY <1>12, <2>4, <3>2, LenProperties DEF Reply
    <3>4. /\ terminating' \in BOOLEAN
          /\ pc' \in {"turnEnd", "calls"}
          /\ UNCHANGED <<queues, pending, skipPoll, parallel, aborted, runs, steers, follows,
                         dropped, wiped>>
          /\ replies' = replies + 1 /\ more' = FALSE
          /\ pc = "streaming"
      BY <1>12, <2>4 DEF Reply
    <3>5. {skipPoll, parallel, terminating, more, aborted, wiped}' \subseteq BOOLEAN
      BY <3>4
    <3>6. {runs, replies, steers, follows}' \subseteq Nat
      BY <3>4
    <3>7. {steering, followUps, pending}' \subseteq Seq(Outside)
      BY <3>4 DEF queues
    <3>8. /\ pc' \in Stages
          /\ aborted' => Active'
          /\ dropped' \subseteq {"steer", "follow"} \X Nat
      BY <3>4
    <3> QED BY <2>2, <3>2, <3>3, <3>4, <3>5, <3>6, <3>7, <3>8
  <2> QED BY <2>3, <2>4, SMTT(30)
<1>13. ASSUME NEW i \in DOMAIN calls, NEW state \in {"executing", "finished"}, pc = "calls",
              calls' = [calls EXCEPT ![i] = state], terminating' \in BOOLEAN,
              UNCHANGED <<transcript, context, queues, pc, pending, skipPoll, parallel,
                          reported, more, aborted, numbers, dropped, wiped>>
       PROVE TypeInv'
  <2>1. i \in 1..Len(calls)
    BY <1>13, LenProperties
  <2>2. /\ calls' \in Seq({"queued", "executing", "finished", "truncated"})
        /\ Len(calls') = Len(calls)
    BY <1>13, <2>1, ExceptSeq
  <2> QED BY <1>13, <2>2, SMTT(30)
<1>14. ASSUME NEW i \in DOMAIN calls, Refuse(i) \/ Execute(i) \/ Executed(i) PROVE TypeInv'
  <2>1. CASE Refuse(i)
    BY <1>13, <2>1 DEF Refuse
  <2>2. CASE Execute(i)
    BY <1>13, <2>2 DEF Execute
  <2>3. CASE Executed(i)
    BY <1>13, <2>3 DEF Executed
  <2> QED BY <1>14, <2>1, <2>2, <2>3, SMTT(30)
<1>15. CASE Report
  <2> DEFINE i == reported + 1
  <2>1. Len(calls) \in Nat /\ i \in Nat /\ i <= Len(calls) /\ Len(calls) - i \in Nat
    BY <1>15, LenProperties, SMTT(20) DEF Report
  <2>2. transcript' \in Seq(Message)
    BY <1>15, <2>1, Constructors, AppendProperties DEF Report
  <2>3. CASE BatchEnds(i)
    <3>0. ReportedResults(i) \in Seq(Message) /\ context' = context \o ReportedResults(i)
      BY <1>15, <2>1, <2>3, ResultsAreMessages DEF Report
    <3>1. context' \in Seq(Message)
      BY <3>0, ConcatProperties
    <3>2. /\ <<>> \in Seq({"queued", "executing", "finished", "truncated"}) /\ Len(<<>>) = 0
      BY EmptySeq
    <3>3. /\ (calls \in Seq({"queued", "executing", "finished", "truncated"}))'
          /\ (reported \in 0..Len(calls))' /\ terminating' = FALSE
          /\ more' = ~terminating /\ pc' = "turnEnd" /\ pc = "calls"
          /\ UNCHANGED <<queues, pending, skipPoll, parallel, aborted, numbers, dropped, wiped>>
      BY <1>15, <2>3, <3>2 DEF Report, NoBatch
    <3>4. {skipPoll, parallel, terminating, more, aborted, wiped}' \subseteq BOOLEAN
      BY <3>3
    <3> QED BY <2>2, <3>1, <3>3, <3>4
  <2>4. CASE ~BatchEnds(i)
    <3>1. reported' = i /\ UNCHANGED <<context, more, pc, calls, terminating>>
      BY <1>15, <2>4 DEF Report
    <3> QED BY <1>15, <2>1, <2>2, <3>1 DEF Report
  <2> QED BY <2>3, <2>4, SMTT(30)
<1>16. CASE EndTurn
  <2>1. /\ Drained(steering, SteeringMode) \in Seq(Outside)
        /\ Kept(steering, SteeringMode) \in Seq(Outside)
        /\ Drained(followUps, FollowUpMode) \in Seq(Outside)
        /\ Kept(followUps, FollowUpMode) \in Seq(Outside)
    BY DrainedAndKept
  <2>2. {steering, followUps, pending}' \subseteq Seq(Outside)
        /\ pc' \in {"turn", "ending"} /\ more' \in BOOLEAN
    BY <1>16, <2>1 DEF EndTurn, NextTurn
  <2> QED BY <1>16, <2>2, SMTT(30) DEF EndTurn
<1>17. CASE Finish /\ UNCHANGED transcript
  BY <1>17, TypeLoopEnds DEF Finish
<1>18. CASE End
  BY <1>17, <1>18 DEF End
<1>19. CASE Fail
  <2>1. transcript' \in Seq(Message)
    BY <1>19, Constructors, AppendProperties DEF Fail
  <2> QED BY <1>19, <2>1, TypeLoopEnds, SMTT(30) DEF Fail
<1>20. CASE Cut
  BY <1>17, <1>20 DEF Cut
<1>21. CASE UNCHANGED vars
  BY <1>21 DEF vars
<1> QED
  BY <1>1, <1>2, <1>3, <1>4, <1>5, <1>6, <1>7, <1>8, <1>9, <1>10, <1>11, <1>12,
     <1>14, <1>15, <1>16, <1>18, <1>19, <1>20, <1>21 DEF Next, User, Advance

(* The state of an agent keeps its type in every behaviour.                *)
THEOREM TypeCorrect == Spec => []TypeOK
<1>1. TypeInv => TypeOK
  BY DEF TypeInv
<1> QED BY <1>1, TypeInit, TypeStep, PTL DEF Spec

(***************************************************************************)
(* Tool results follow their calls.  Chained(s) is what ResultsFollowCalls *)
(* says of s; AnswerDue says which result the end of the transcript waits  *)
(* for while a batch runs.                                                 *)
(***************************************************************************)
Chained(s) == \A i \in 2..Len(s) : s[i].kind = "result" => Answers(s[i], s[i - 1])

AnswerDue ==
  pc = "calls" =>
    /\ reported < Len(calls)
    /\ transcript # <<>> =>
         /\ transcript[Len(transcript)].left = Len(calls) - reported
         /\ transcript[Len(transcript)].run = runs

ChainInv == TypeInv /\ Chained(transcript) /\ AnswerDue

(* Appending keeps the chain if the message is the answer that is due.     *)
LEMMA AppendChained ==
  ASSUME NEW s \in Seq(Message), NEW m \in Message, Chained(s),
         m.kind = "result" /\ s # <<>> => Answers(m, s[Len(s)])
  PROVE  Chained(Append(s, m))
<1> DEFINE t == Append(s, m)
<1>1. /\ Len(s) \in Nat
      /\ Len(t) = Len(s) + 1
      /\ t[Len(s) + 1] = m
      /\ \A i \in 1..Len(s) : t[i] = s[i]
      /\ s = <<>> => Len(s) = 0
  BY EmptySeq
<1> HIDE DEF t
<1>2. ASSUME NEW i \in 2..Len(t), t[i].kind = "result" PROVE Answers(t[i], t[i - 1])
  <2>1. CASE i <= Len(s)
    <3>1. i \in 2..Len(s) /\ t[i] = s[i] /\ t[i - 1] = s[i - 1]
      BY <1>1, <2>1
    <3> QED BY <1>2, <3>1 DEF Chained
  <2>2. CASE i = Len(s) + 1
    <3>1. t[i] = m /\ i - 1 = Len(s) /\ i - 1 \in 1..Len(s) /\ s # <<>>
      BY <1>1, <2>2
    <3>2. t[i - 1] = s[Len(s)]
      BY <1>1, <3>1
    <3> QED BY <1>2, <3>1, <3>2
  <2> QED BY <1>1, <2>1, <2>2
<1> QED BY <1>2 DEF Chained, t

LEMMA ChainInit == Init => ChainInv
<1> SUFFICES ASSUME Init PROVE ChainInv
  OBVIOUS
<1>1. Chained(transcript)
  BY EmptySeq DEF Init, Chained
<1>2. AnswerDue
  BY DEF Init, AnswerDue
<1> QED BY <1>1, <1>2, TypeInit DEF ChainInv

(* A message that is no result joins the chain; no batch runs after it.    *)
LEMMA ChainOutside ==
  ASSUME ChainInv, NEW m \in Message, m.kind # "result",
         transcript' = Append(transcript, m), pc' # "calls"
  PROVE  Chained(transcript)' /\ AnswerDue'
<1>1. transcript \in Seq(Message)
  BY DEF ChainInv, TypeInv, TypeOK
<1>2. Chained(Append(transcript, m))
  BY <1>1, AppendChained DEF ChainInv
<1> QED BY <1>2 DEF AnswerDue

LEMMA ChainStep == ChainInv /\ [Next]_vars => ChainInv'
<1> SUFFICES ASSUME ChainInv, [Next]_vars PROVE ChainInv'
  OBVIOUS
<1>0. TypeInv /\ TypeInv'
  BY TypeStep DEF ChainInv
<1>a. /\ transcript \in Seq(Message) /\ transcript' \in Seq(Message)
      /\ Len(calls) \in Nat /\ reported \in Nat /\ replies \in Nat /\ runs \in Nat
  BY <1>0, LenProperties DEF TypeInv, TypeOK
<1> SUFFICES Chained(transcript)' /\ AnswerDue'
  BY <1>0 DEF ChainInv
<1>1. ASSUME UNCHANGED <<transcript, pc, batch, runs>> PROVE Chained(transcript)' /\ AnswerDue'
  BY <1>1 DEF ChainInv, AnswerDue, batch
<1>2. ASSUME UNCHANGED transcript, pc' # "calls" PROVE Chained(transcript)' /\ AnswerDue'
  BY <1>2 DEF ChainInv, AnswerDue
<1>3. CASE Steer \/ FollowUp \/ ClearAllQueues \/ Abort
  BY <1>1, <1>3 DEF Steer, FollowUp, ClearAllQueues, Abort, numbers
<1>4. CASE Reset
  <2>1. Chained(<<>>)
    BY EmptySeq DEF Chained
  <2>2. transcript' = <<>> /\ UNCHANGED <<pc, calls, reported>>
    BY <1>4 DEF Reset, batch
  <2>3. AnswerDue'
    BY <2>2 DEF ChainInv, AnswerDue
  <2> QED BY <2>1, <2>2, <2>3
<1>5. CASE Prompt \/ ContinueRun
  <2>1. UNCHANGED transcript /\ pc' = "opening"
    BY <1>5 DEF Prompt, ContinueRun, Begin
  <2> QED BY <1>2, <2>1
<1>6. CASE Announce \/ Inject
  <2>1. pending # <<>> /\ pending \in Seq(Outside)
    BY <1>0, <1>6 DEF Announce, Inject, TypeInv
  <2>2. Head(pending) \in Message /\ Head(pending).kind # "result"
    BY <2>1, HeadTailProperties DEF Outside
  <2>3. transcript' = Append(transcript, Head(pending)) /\ pc' # "calls"
    BY <1>6 DEF Announce, Inject
  <2> QED BY <2>2, <2>3, ChainOutside
<1>7. CASE FirstPoll \/ StartStream
  BY <1>2, <1>7 DEF FirstPoll, StartStream
<1>8. ASSUME NEW k \in 0..MaxCalls, NEW reason \in {"stop", "length", "error"}, Reply(reason, k)
      PROVE Chained(transcript)' /\ AnswerDue'
  <2> DEFINE m == AssistantMessage(replies + 1, k)
  <2>0. k \in Nat /\ replies + 1 \in Nat /\ TypeOK
    <3>1. TypeOK /\ k \in 0..MaxCalls /\ MaxCalls \in Nat
      BY <1>0, <1>8, AgentAssumption DEF TypeInv
    <3>2. replies \in Nat
      BY <3>1 DEF TypeOK
    <3> QED BY <3>1, <3>2
  <2>a. m \in Message
    BY <2>0, Constructors
  <2>b. m.kind = "assistant" /\ m.left = k /\ m.run = runs
    BY DEF AssistantMessage
  <2>1. k \in Nat /\ m \in Message /\ m.kind = "assistant" /\ m.left = k /\ m.run = runs
    BY <2>0, <2>a, <2>b
  <2>2. transcript' = Append(transcript, m) /\ runs' = runs
    BY <1>8 DEF Reply
  <2> HIDE DEF m
  <2>3. Chained(transcript)'
    BY <1>a, <2>1, <2>2, AppendChained DEF ChainInv
  <2>4. transcript'[Len(transcript')] = m
    BY <1>a, <2>1, <2>2, AppendProperties
  <2>5. CASE pc' = "calls"
    <3>1. k # 0 /\ reported' = 0 /\ DOMAIN calls' = 1..k /\ calls' \in Seq({"queued", "executing", "finished", "truncated"})
      BY <1>0, <1>8, <2>5 DEF Reply, TypeInv, TypeOK
    <3>2. Len(calls') = k
      BY <2>1, <3>1, LenProperties
    <3> QED BY <2>1, <2>2, <2>3, <2>4, <3>1, <3>2 DEF AnswerDue
  <2>6. CASE pc' # "calls"
    BY <2>3, <2>6 DEF AnswerDue
  <2> QED BY <2>5, <2>6
<1>9. ASSUME NEW i \in DOMAIN calls, Refuse(i) \/ Execute(i) \/ Executed(i)
      PROVE  Chained(transcript)' /\ AnswerDue'
  <2>1. UNCHANGED <<transcript, pc, reported, runs>> /\ \E state : calls' = [calls EXCEPT ![i] = state]
    BY <1>9 DEF Refuse, Execute, Executed, numbers
  <2>2. DOMAIN calls' = DOMAIN calls
    BY <2>1
  <2>3. Len(calls') = Len(calls)
    <3>1. /\ calls \in Seq({"queued", "executing", "finished", "truncated"})
          /\ calls' \in Seq({"queued", "executing", "finished", "truncated"})
      BY <1>0 DEF TypeInv, TypeOK
    <3>2. DOMAIN calls = 1..Len(calls) /\ DOMAIN calls' = 1..Len(calls') /\ Len(calls') \in Nat
      BY <3>1, LenProperties
    <3> QED BY <1>a, <2>2, <3>2
  <2> QED BY <2>1, <2>3 DEF ChainInv, AnswerDue
<1>10. CASE Report
  <2> DEFINE m == ToolResult(replies, Len(calls) - (reported + 1))
  <2>1. pc = "calls" /\ reported + 1 <= Len(calls) /\ Len(calls) - (reported + 1) \in Nat
    BY <1>a, <1>10 DEF Report
  <2>2. /\ m \in Message
        /\ m.kind = "result" /\ m.left = Len(calls) - (reported + 1) /\ m.run = runs
    BY <1>0, <1>a, <2>1, Constructors DEF ToolResult, TypeInv
  <2>3. transcript' = Append(transcript, m) /\ runs' = runs
    BY <1>10 DEF Report, numbers
  <2> HIDE DEF m
  <2>4. transcript # <<>> => Answers(m, transcript[Len(transcript)])
    BY <1>a, <2>1, <2>2 DEF ChainInv, AnswerDue, Answers
  <2>5. Chained(transcript)'
    BY <1>a, <2>2, <2>3, <2>4, AppendChained DEF ChainInv
  <2>6. transcript'[Len(transcript')] = m
    BY <1>a, <2>2, <2>3, AppendProperties
  <2>7. CASE BatchEnds(reported + 1)
    <3>1. pc' = "turnEnd"
      BY <1>10, <2>7 DEF Report
    <3> QED BY <2>5, <3>1 DEF AnswerDue
  <2>8. CASE ~BatchEnds(reported + 1)
    <3>1. reported' = reported + 1 /\ calls' = calls
      BY <1>10, <2>8 DEF Report
    <3>2. reported + 1 # Len(calls)
      BY <2>8 DEF BatchEnds
    <3>3. reported' < Len(calls')
      BY <1>a, <2>1, <3>1, <3>2
    <3> QED BY <2>2, <2>3, <2>5, <2>6, <3>1, <3>3 DEF AnswerDue
  <2> QED BY <2>7, <2>8
<1>11. CASE EndTurn
  <2>1. UNCHANGED transcript /\ pc' \in {"turn", "ending"}
    BY <1>11 DEF EndTurn, NextTurn
  <2> QED BY <1>2, <2>1
<1>12. CASE End \/ Cut
  BY <1>2, <1>12 DEF End, Cut, Finish
<1>13. CASE Fail
  <2>1. FailureMessage \in Message /\ FailureMessage.kind # "result"
    BY <1>0, Constructors DEF FailureMessage, TypeInv
  <2>2. transcript' = Append(transcript, FailureMessage) /\ pc' # "calls"
    BY <1>13 DEF Fail
  <2> QED BY <2>1, <2>2, ChainOutside
<1>14. CASE UNCHANGED vars
  BY <1>1, <1>14 DEF vars, numbers
<1> QED
  BY <1>3, <1>4, <1>5, <1>6, <1>7, <1>8, <1>9, <1>10, <1>11, <1>12, <1>13, <1>14
     DEF Next, User, Advance

(* In every transcript a tool result stands right behind its call or the   *)
(* result before it, whatever is steered, aborted, reset or raised.        *)
THEOREM ResultsAlwaysFollowCalls == Spec => []ResultsFollowCalls
<1>1. ChainInv => ResultsFollowCalls
  BY DEF ChainInv, Chained, ResultsFollowCalls
<1> QED BY <1>1, ChainInit, ChainStep, PTL DEF Spec

(***************************************************************************)
(* The transcript mirrors the context.  Shown is what listeners have been  *)
(* told or are about to be told, Known what the loop will have in its      *)
(* context when the batch at hand is over; a prefix of Known may be        *)
(* missing from Shown once reset() was called.                             *)
(***************************************************************************)
Looping == pc \in {"opening", "turn", "streaming", "calls", "turnEnd"}
Shown == IF pc = "opening" THEN transcript \o pending ELSE transcript
Known == IF pc = "calls" THEN context \o ReportedResults(reported) ELSE context

Mirrored(known, shown, mayDiffer) ==
  \E p \in Seq(Message) : known = p \o shown /\ (~mayDiffer => p = <<>>)

MirrorInv == ChainInv /\ (Looping => Mirrored(Known, Shown, wiped))

LEMMA MirrorInit == Init => MirrorInv
<1> SUFFICES ASSUME Init PROVE MirrorInv
  OBVIOUS
<1>1. ~Looping
  BY DEF Init, Looping
<1> QED BY <1>1, ChainInit DEF MirrorInv

(* A message announced and added to the context at the same time.          *)
LEMMA AppendMirrored ==
  ASSUME NEW known, NEW shown \in Seq(Message), NEW m \in Message, NEW mayDiffer,
         Mirrored(known, shown, mayDiffer)
  PROVE  Mirrored(Append(known, m), Append(shown, m), mayDiffer)
<1>1. PICK p \in Seq(Message) : known = p \o shown /\ (~mayDiffer => p = <<>>)
  BY DEF Mirrored
<1>2. Append(p \o shown, m) = p \o Append(shown, m)
  <2>1. <<m>> \in Seq(Message) /\ p \o shown \in Seq(Message)
    BY ConcatProperties
  <2>2. /\ Append(p \o shown, m) = (p \o shown) \o <<m>>
        /\ Append(shown, m) = shown \o <<m>>
    BY <2>1, AppendIsConcat
  <2>3. (p \o shown) \o <<m>> = p \o (shown \o <<m>>)
    BY <2>1, ConcatAssociative
  <2> QED BY <2>2, <2>3
<1> QED BY <1>1, <1>2 DEF Mirrored

(* A reset hides a front of what was shown.                                *)
LEMMA CutMirrored ==
  ASSUME NEW known, NEW front \in Seq(Message), NEW shown \in Seq(Message), NEW mayDiffer,
         Mirrored(known, front \o shown, mayDiffer)
  PROVE  Mirrored(known, shown, TRUE)
<1>1. PICK p \in Seq(Message) : known = p \o (front \o shown)
  BY DEF Mirrored
<1>2. (p \o front) \o shown = p \o (front \o shown)
  BY ConcatAssociative
<1>3. p \o front \in Seq(Message)
  BY ConcatProperties
<1>4. known = (p \o front) \o shown
  BY <1>1, <1>2
<1> QED BY <1>3, <1>4 DEF Mirrored

(* The results of a batch grow by one; of a batch that has none they are   *)
(* empty.                                                                  *)
LEMMA ResultsGrow ==
  ASSUME TypeOK, reported + 1 <= Len(calls)
  PROVE  LET m == ToolResult(replies, Len(calls) - (reported + 1)) IN
         /\ m \in Message
         /\ Append(context \o ReportedResults(reported), m)
              = context \o ReportedResults(reported + 1)
<1> DEFINE m == ToolResult(replies, Len(calls) - (reported + 1))
           r == ReportedResults(reported)
           s == ReportedResults(reported + 1)
<1>1. Len(calls) \in Nat /\ reported \in Nat /\ reported + 1 \in Nat /\ replies \in Nat
  BY LenProperties DEF TypeOK
<1>2. Len(calls) - (reported + 1) \in Nat
  BY <1>1
<1>3. m \in Message
  BY <1>1, <1>2, Constructors
<1>4. /\ r \in Seq(Message) /\ Len(r) = reported
      /\ \A i \in 1..reported : r[i] = ToolResult(replies, Len(calls) - i)
  BY <1>1, ResultsAreMessages
<1>5. /\ s \in Seq(Message) /\ Len(s) = reported + 1
      /\ \A i \in 1..(reported + 1) : s[i] = ToolResult(replies, Len(calls) - i)
  BY <1>1, ResultsAreMessages
<1>6. s[reported + 1] = m
  BY <1>1, <1>5
<1> HIDE DEF m, r, s
<1>7. /\ Append(r, m) \in Seq(Message) /\ Len(Append(r, m)) = reported + 1
      /\ \A i \in 1..reported : Append(r, m)[i] = r[i]
      /\ Append(r, m)[reported + 1] = m
  BY <1>3, <1>4, AppendProperties
<1>8. \A i \in 1..Len(s) : s[i] = Append(r, m)[i]
  BY <1>1, <1>4, <1>5, <1>6, <1>7
<1>9. s = Append(r, m)
  BY <1>5, <1>7, <1>8, SeqEqual
<1>10. context \in Seq(Message)
  BY DEF TypeOK
<1>11. Append(context \o r, m) = context \o Append(r, m)
  <2>1. <<m>> \in Seq(Message) /\ context \o r \in Seq(Message)
    BY <1>3, <1>4, <1>10, ConcatProperties
  <2>2. Append(context \o r, m) = (context \o r) \o <<m>> /\ Append(r, m) = r \o <<m>>
    BY <1>3, <1>4, <2>1, AppendIsConcat
  <2>3. (context \o r) \o <<m>> = context \o (r \o <<m>>)
    BY <1>4, <1>10, <2>1, ConcatAssociative, SMTT(20)
  <2> QED BY <2>2, <2>3
<1> QED BY <1>3, <1>9, <1>11 DEF m, r, s

LEMMA MirrorStep == MirrorInv /\ [Next]_vars => MirrorInv'
<1> SUFFICES ASSUME MirrorInv, [Next]_vars PROVE MirrorInv'
  OBVIOUS
<1>0. TypeInv /\ TypeInv' /\ TypeOK /\ ChainInv'
  BY ChainStep DEF MirrorInv, TypeInv, ChainInv
<1>a. /\ transcript \in Seq(Message) /\ context \in Seq(Message)
      /\ pending \in Seq(Message) /\ pending \in Seq(Outside)
      /\ <<>> \in Seq(Message)
  BY <1>0, OutsideMessages, EmptySeq DEF TypeInv, TypeOK
<1>b. Looping => Mirrored(Known, Shown, wiped)
  BY DEF MirrorInv
<1> SUFFICES ASSUME Looping' PROVE Mirrored(Known, Shown, wiped)'
  BY <1>0 DEF MirrorInv
<1>1. ASSUME UNCHANGED <<transcript, context, pending, pc, reported, replies, runs, wiped>>,
             Len(calls') = Len(calls)
      PROVE  Mirrored(Known, Shown, wiped)'
  <2>1. ReportedResults(reported)' = ReportedResults(reported)
    BY <1>1 DEF ReportedResults, ToolResult
  <2>2. Known' = Known /\ Shown' = Shown /\ wiped' = wiped /\ Looping
    BY <1>1, <2>1 DEF Known, Shown, Looping
  <2> QED BY <1>b, <2>2 DEF Mirrored
<1>2. CASE Steer \/ FollowUp \/ ClearAllQueues \/ Abort \/ UNCHANGED vars
  BY <1>1, <1>2 DEF Steer, FollowUp, ClearAllQueues, Abort, numbers, batch, vars
<1>3. CASE Reset
  <2>1. /\ transcript' = <<>> /\ UNCHANGED <<context, pc, pending, calls, reported, replies, runs>>
        /\ Looping /\ wiped' = TRUE
    BY <1>3 DEF Reset, batch, numbers, Looping, Active
  <2>2. ReportedResults(reported)' = ReportedResults(reported)
    BY <2>1 DEF ReportedResults, ToolResult
  <2>3. Known' = Known
    BY <2>1, <2>2 DEF Known
  <2>4. Shown' \in Seq(Message) /\ Shown = transcript \o Shown'
    <3>1. <<>> \o pending = pending /\ transcript \o <<>> = transcript
      BY <1>a, ConcatEmptySeq
    <3> QED BY <1>a, <2>1, <3>1 DEF Shown
  <2>5. Mirrored(Known, transcript \o Shown', wiped)
    BY <1>b, <2>1, <2>4
  <2>6. Mirrored(Known, Shown', TRUE)
    BY <1>a, <2>4, <2>5, CutMirrored
  <2> QED BY <2>1, <2>3, <2>6 DEF Mirrored
<1>4. CASE Prompt \/ ContinueRun
  <2>1. PICK prompts, skip : Begin(prompts, skip)
    BY <1>4 DEF Prompt, ContinueRun
  <2>2. /\ pc' = "opening" /\ context' = transcript \o prompts /\ pending' = prompts
        /\ transcript' = transcript /\ wiped' = FALSE
    BY <2>1 DEF Begin
  <2>3. context' \in Seq(Message)
    BY <1>0 DEF TypeInv, TypeOK
  <2>4. Known' = <<>> \o Shown'
    BY <2>2, <2>3, ConcatEmptySeq DEF Known, Shown
  <2> QED BY <1>a, <2>2, <2>4 DEF Mirrored
<1>5. CASE Announce
  <2>1. /\ pc = "opening" /\ pc' = "opening" /\ pending # <<>>
        /\ transcript' = Append(transcript, Head(pending)) /\ pending' = Tail(pending)
        /\ UNCHANGED <<context, wiped>>
    BY <1>5 DEF Announce
  <2>2. Shown' = Shown /\ Known' = Known /\ Looping
    BY <1>a, <2>1, MoveHead DEF Shown, Known, Looping
  <2> QED BY <1>b, <2>1, <2>2 DEF Mirrored
<1>6. CASE FirstPoll
  <2>1. /\ pc = "opening" /\ pc' = "turn" /\ pending = <<>>
        /\ UNCHANGED <<context, transcript, wiped>>
    BY <1>6 DEF FirstPoll
  <2>2. transcript \o <<>> = transcript
    BY <1>a, ConcatEmptySeq
  <2>3. Shown' = Shown /\ Known' = Known /\ Looping
    BY <2>1, <2>2 DEF Shown, Known, Looping
  <2> QED BY <1>b, <2>1, <2>3 DEF Mirrored
<1>7. ASSUME pc \in {"turn", "streaming", "turnEnd"}, pc' \in {"turn", "streaming"},
             UNCHANGED <<context, transcript, wiped>>
      PROVE  Mirrored(Known, Shown, wiped)'
  <2>1. Shown' = Shown /\ Known' = Known /\ Looping
    BY <1>7 DEF Shown, Known, Looping
  <2> QED BY <1>7, <1>b, <2>1 DEF Mirrored
<1>8. CASE StartStream
  BY <1>7, <1>8 DEF StartStream
<1>9. CASE EndTurn
  <2>1. /\ pc = "turnEnd" /\ pc' \in {"turn", "ending"}
        /\ UNCHANGED <<context, transcript, wiped>>
    BY <1>9 DEF EndTurn, NextTurn
  <2> QED BY <1>7, <2>1 DEF Looping
<1>10. CASE Inject
  <2>1. /\ pc = "turn" /\ pc' = "turn" /\ wiped' = wiped
        /\ transcript' = Append(transcript, Head(pending))
        /\ context' = Append(context, Head(pending))
    BY <1>10 DEF Inject
  <2>2. Head(pending) \in Message
    BY <1>10, <1>a, HeadTailProperties DEF Inject
  <2>3. Mirrored(context, transcript, wiped)
    BY <1>b, <2>1 DEF Looping, Known, Shown
  <2>4. Mirrored(Append(context, Head(pending)), Append(transcript, Head(pending)), wiped)
    BY <1>a, <2>2, <2>3, AppendMirrored
  <2>5. Known' = context' /\ Shown' = transcript'
    BY <2>1 DEF Known, Shown
  <2> QED BY <2>1, <2>4, <2>5 DEF Mirrored
<1>11. ASSUME NEW k \in 0..MaxCalls, NEW reason \in {"stop", "length", "error"}, Reply(reason, k)
       PROVE  Mirrored(Known, Shown, wiped)'
  <2> DEFINE m == AssistantMessage(replies + 1, k)
  <2>1. m \in Message
    <3>1. replies + 1 \in Nat /\ k \in Nat
      BY <1>0, AgentAssumption, SMTT(20) DEF TypeOK
    <3> QED BY <1>0, <3>1, Constructors
  <2>2. /\ pc = "streaming" /\ pc' \in {"turnEnd", "calls"} /\ wiped' = wiped
        /\ transcript' = Append(transcript, m) /\ context' = Append(context, m)
        /\ reported' = 0
    BY <1>11 DEF Reply, Looping
  <2> HIDE DEF m
  <2>3. Mirrored(context, transcript, wiped)
    BY <1>b, <2>2 DEF Looping, Known, Shown
  <2>4. Mirrored(Append(context, m), Append(transcript, m), wiped)
    BY <1>a, <2>1, <2>3, AppendMirrored
  <2>5. ReportedResults(reported)' = <<>>
    BY <2>2 DEF ReportedResults
  <2>6. context' \o <<>> = context'
    BY <1>a, <2>1, <2>2, AppendProperties, ConcatEmptySeq
  <2>7. Known' = context' /\ Shown' = transcript'
    BY <2>2, <2>5, <2>6 DEF Known, Shown
  <2> QED BY <2>2, <2>4, <2>7 DEF Mirrored
<1>12. ASSUME NEW i \in DOMAIN calls, Refuse(i) \/ Execute(i) \/ Executed(i)
       PROVE  Mirrored(Known, Shown, wiped)'
  <2>1. /\ UNCHANGED <<transcript, context, pending, pc, reported, replies, runs, wiped>>
        /\ \E state : calls' = [calls EXCEPT ![i] = state]
    BY <1>12 DEF Refuse, Execute, Executed, numbers
  <2>2. DOMAIN calls' = DOMAIN calls
    BY <2>1
  <2>3. Len(calls') = Len(calls)
    <3>1. /\ calls \in Seq({"queued", "executing", "finished", "truncated"})
          /\ calls' \in Seq({"queued", "executing", "finished", "truncated"})
      BY <1>0 DEF TypeInv, TypeOK
    <3>2. /\ DOMAIN calls = 1..Len(calls) /\ DOMAIN calls' = 1..Len(calls')
          /\ Len(calls) \in Nat /\ Len(calls') \in Nat
      BY <3>1, LenProperties
    <3> QED BY <2>2, <3>2
  <2> QED BY <1>1, <2>1, <2>3
<1>13. CASE Report
  <2> DEFINE m == ToolResult(replies, Len(calls) - (reported + 1))
  <2>1. /\ pc = "calls" /\ reported + 1 <= Len(calls) /\ wiped' = wiped
        /\ transcript' = Append(transcript, m)
    BY <1>13 DEF Report
  <2>2. /\ m \in Message
        /\ Append(context \o ReportedResults(reported), m) = context \o ReportedResults(reported + 1)
    BY <1>0, <2>1, ResultsGrow
  <2> HIDE DEF m
  <2>3. ReportedResults(reported) \in Seq(Message)
    BY <1>0, <2>1, LenProperties, ResultsAreMessages DEF TypeOK
  <2>4. Mirrored(context \o ReportedResults(reported), transcript, wiped)
    BY <1>b, <2>1 DEF Looping, Known, Shown
  <2>5. Mirrored(Append(context \o ReportedResults(reported), m), Append(transcript, m), wiped)
    BY <1>a, <2>2, <2>4, AppendMirrored
  <2>6. Append(context \o ReportedResults(reported), m) = context \o ReportedResults(reported + 1)
    BY <2>2
  <2>7. Known' = context \o ReportedResults(reported + 1)
    <3>1. CASE BatchEnds(reported + 1)
      BY <1>13, <3>1 DEF Report, Known
    <3>2. CASE ~BatchEnds(reported + 1)
      <4>1. reported' = reported + 1 /\ UNCHANGED <<context, pc, calls, replies, runs>>
        BY <1>13, <3>2 DEF Report, numbers
      <4>2. ReportedResults(reported)' = ReportedResults(reported + 1)
        BY <4>1 DEF ReportedResults, ToolResult
      <4> QED BY <2>1, <4>1, <4>2 DEF Known
    <3> QED BY <3>1, <3>2
  <2>8. Shown' = transcript'
    <3>1. pc' # "opening"
      BY <1>13, <2>1 DEF Report
    <3> QED BY <3>1 DEF Shown
  <2> QED BY <2>1, <2>5, <2>6, <2>7, <2>8 DEF Mirrored
<1>14. CASE End \/ Fail \/ Cut
  BY <1>14 DEF End, Fail, Cut, Finish, Looping
<1> QED
  BY <1>2, <1>3, <1>4, <1>5, <1>6, <1>8, <1>9, <1>10, <1>11, <1>12, <1>13, <1>14
     DEF Next, User, Advance

(* Whenever the loop is about to call the model or is calling it, the      *)
(* agent's transcript is the loop's context, or its end after a reset().   *)
THEOREM TranscriptAlwaysMirrorsContext == Spec => []MirrorsContext
<1>1. MirrorInv => MirrorsContext
  <2> SUFFICES ASSUME MirrorInv, pc \in {"turn", "streaming"}
               PROVE  /\ Len(transcript) <= Len(context)
                      /\ transcript = SubSeq(context, Len(context) - Len(transcript) + 1, Len(context))
                      /\ ~wiped => Len(transcript) = Len(context)
    BY DEF MirrorsContext
  <2>1. Mirrored(context, transcript, wiped)
    BY DEF MirrorInv, Looping, Known, Shown
  <2>2. transcript \in Seq(Message)
    BY DEF MirrorInv, ChainInv, TypeInv, TypeOK
  <2>3. PICK p \in Seq(Message) : context = p \o transcript /\ (~wiped => p = <<>>)
    BY <2>1 DEF Mirrored
  <2>4. <<>> \o transcript = transcript
    BY <2>2, ConcatEmptySeq
  <2>5. ~wiped => context = transcript
    BY <2>3, <2>4
  <2>6. /\ Len(transcript) <= Len(p \o transcript)
        /\ transcript = SubSeq(p \o transcript, Len(p \o transcript) - Len(transcript) + 1,
                               Len(p \o transcript))
    BY <2>2, SuffixBySubSeq
  <2>7. context = p \o transcript
    BY <2>3
  <2> QED BY <2>5, <2>6, <2>7
<1> QED BY <1>1, MirrorInit, MirrorStep, PTL DEF Spec

(***************************************************************************)
(* The model sees an answer to each of its calls.  Closed(s, n, r) says of *)
(* the first n messages of s that the calls run r made there are answered; *)
(* while a batch runs, its calls are the only ones of the context that are *)
(* not, unless the run is sequential and aborted.                          *)
(***************************************************************************)
Closed(s, n, r) ==
  \A i \in 1..n :
    s[i].run = r /\ s[i].left > 0 => i < Len(s) /\ Answers(s[i + 1], s[i])

(* Runs to come have made no call yet.                                     *)
RunsKnown == \A i \in 1..Len(transcript) : transcript[i].left > 0 => transcript[i].run <= runs

(* One call of a batch is truncated only if all are.                       *)
SameFate ==
  \A i, j \in 1..Len(calls) : calls[i] = "truncated" => calls[j] = "truncated"

BatchOpen ==
  /\ context # <<>>
  /\ context[Len(context)].left = Len(calls)
  /\ context[Len(context)].run = runs
  /\ Closed(context, Len(context) - 1, runs)

Answered ==
  Looping /\ (parallel \/ ~aborted) =>
    IF pc = "calls" THEN BatchOpen ELSE Closed(context, Len(context), runs)

AnswersInv == ChainInv /\ RunsKnown /\ SameFate /\ Answered

LEMMA AnswersInit == Init => AnswersInv
<1> SUFFICES ASSUME Init PROVE AnswersInv
  OBVIOUS
<1>1. RunsKnown /\ SameFate
  BY EmptySeq DEF Init, RunsKnown, SameFate
<1>2. Answered
  BY DEF Init, Answered, Looping
<1> QED BY <1>1, <1>2, ChainInit DEF AnswersInv

(* A message without calls leaves everything before it answered.           *)
LEMMA AppendClosed ==
  ASSUME NEW s \in Seq(Message), NEW m \in Message, NEW r, Closed(s, Len(s), r)
  PROVE  /\ Closed(Append(s, m), Len(Append(s, m)) - 1, r)
         /\ m.left = 0 => Closed(Append(s, m), Len(Append(s, m)), r)
<1> DEFINE t == Append(s, m)
<1>1. /\ Len(s) \in Nat /\ Len(t) = Len(s) + 1 /\ t[Len(s) + 1] = m
      /\ \A i \in 1..Len(s) : t[i] = s[i]
  OBVIOUS
<1> HIDE DEF t
<1>2. Closed(t, Len(s), r)
  <2> SUFFICES ASSUME NEW i \in 1..Len(s), t[i].run = r, t[i].left > 0
               PROVE  i < Len(t) /\ Answers(t[i + 1], t[i])
    BY DEF Closed
  <2>1. t[i] = s[i]
    BY <1>1
  <2>2. i < Len(s) /\ Answers(s[i + 1], s[i])
    BY <2>1 DEF Closed
  <2>3. t[i + 1] = s[i + 1]
    BY <1>1, <2>2
  <2> QED BY <1>1, <2>1, <2>2, <2>3
<1>3. Len(t) - 1 = Len(s)
  BY <1>1
<1>4. ASSUME m.left = 0 PROVE Closed(t, Len(t), r)
  <2> SUFFICES ASSUME NEW i \in 1..Len(t), t[i].run = r, t[i].left > 0
               PROVE  i < Len(t) /\ Answers(t[i + 1], t[i])
    BY DEF Closed
  <2>1. i \in 1..Len(s)
    BY <1>1, <1>4
  <2> QED BY <1>2, <2>1 DEF Closed
<1> QED BY <1>2, <1>3, <1>4 DEF t

(* A batch that is reported to its end answers the calls that were open.   *)
LEMMA BatchCloses ==
  ASSUME TypeOK, BatchOpen, Len(calls) > 0
  PROVE  LET t == context \o ReportedResults(Len(calls)) IN Closed(t, Len(t), runs)
<1> DEFINE n == Len(calls)
           c == Len(context)
           r == ReportedResults(n)
           t == context \o r
<1>1. n \in Nat /\ n > 0 /\ c \in Nat /\ context \in Seq(Message) /\ c > 0
  <2>1. context # <<>> /\ context \in Seq(Message) /\ calls \in Seq({"queued", "executing", "finished", "truncated"})
    BY DEF BatchOpen, TypeOK
  <2> QED BY <2>1, LenProperties, EmptySeq
<1>2. /\ r \in Seq(Message) /\ Len(r) = n
      /\ \A i \in 1..n : r[i] = ToolResult(replies, n - i)
  BY <1>1, ResultsAreMessages
<1> HIDE DEF r
<1>3. \A i \in 1..n : r[i].kind = "result" /\ r[i].left = n - i /\ r[i].run = runs
  <2> SUFFICES ASSUME NEW i \in 1..n
               PROVE  r[i].kind = "result" /\ r[i].left = n - i /\ r[i].run = runs
    OBVIOUS
  <2>1. r[i] = ToolResult(replies, n - i)
    BY <1>2
  <2> QED BY <2>1 DEF ToolResult
<1>4. /\ Len(t) = c + n
      /\ \A i \in 1..(c + n) : t[i] = IF i <= c THEN context[i] ELSE r[i - c]
  <2>1. /\ Len(t) = Len(context) + Len(r)
        /\ \A i \in 1..(Len(context) + Len(r)) :
             t[i] = IF i <= Len(context) THEN context[i] ELSE r[i - Len(context)]
    BY <1>1, <1>2, ConcatProperties, ZenonT(30)
  <2> QED BY <1>2, <2>1
<1> HIDE DEF t
<1>5. context[c].left = n /\ context[c].run = runs /\ Closed(context, c - 1, runs)
  BY DEF BatchOpen
<1> HIDE DEF n, c
<1> SUFFICES ASSUME NEW i \in 1..Len(t), t[i].run = runs, t[i].left > 0
             PROVE  i < Len(t) /\ Answers(t[i + 1], t[i])
  BY DEF Closed, t, r, n
<1>6. CASE i < c
  <2>1. i \in 1..(c - 1) /\ t[i] = context[i] /\ t[i + 1] = context[i + 1]
    BY <1>1, <1>4, <1>6
  <2>2. Answers(context[i + 1], context[i])
    BY <1>5, <2>1 DEF Closed
  <2> QED BY <1>1, <1>4, <1>6, <2>1, <2>2
<1>7. CASE i = c
  <2>1. t[i] = context[c]
    BY <1>1, <1>4, <1>7
  <2>2. i + 1 \in 1..(c + n) /\ ~(i + 1 <= c) /\ (i + 1) - c = 1 /\ 1 \in 1..n
    BY <1>1, <1>7
  <2>3. t[i + 1] = r[1]
    BY <1>4, <2>2
  <2>4. i < Len(t)
    BY <1>1, <1>4, <1>7
  <2>5. r[1].kind = "result" /\ r[1].left = n - 1 /\ r[1].run = runs
    BY <1>3, <2>2
  <2>6. t[i].left = n /\ t[i].run = runs
    BY <1>5, <2>1
  <2>7. Answers(r[1], t[i])
    BY <2>5, <2>6 DEF Answers
  <2> QED BY <2>3, <2>4, <2>7
<1>8. CASE i > c
  <2>1. i - c \in 1..n /\ ~(i <= c)
    BY <1>1, <1>4, <1>8
  <2>2. t[i] = r[i - c]
    BY <1>4, <2>1
  <2>3. t[i].left = n - (i - c)
    BY <1>3, <2>1, <2>2
  <2>4. i - c < n
    BY <1>1, <2>1, <2>3
  <2>5. i + 1 \in 1..(c + n) /\ ~(i + 1 <= c) /\ (i + 1) - c = (i - c) + 1 /\ (i - c) + 1 \in 1..n
    BY <1>1, <1>4, <1>8, <2>1, <2>4
  <2>6. t[i + 1] = r[(i - c) + 1]
    BY <1>4, <2>5
  <2>7. t[i + 1].kind = "result" /\ t[i + 1].left = n - ((i - c) + 1) /\ t[i + 1].run = runs
    BY <1>3, <2>5, <2>6
  <2>8. n - ((i - c) + 1) = (n - (i - c)) - 1
    BY <1>1
  <2> QED BY <1>1, <1>4, <2>3, <2>4, <2>5, <2>7, <2>8 DEF Answers
<1> QED BY <1>1, <1>4, <1>6, <1>7, <1>8

LEMMA RunsKnownStep == ChainInv /\ RunsKnown /\ [Next]_vars => RunsKnown'
<1> SUFFICES ASSUME ChainInv, RunsKnown, [Next]_vars PROVE RunsKnown'
  OBVIOUS
<1>0. TypeInv /\ TypeOK /\ transcript \in Seq(Message) /\ runs \in Nat /\ replies \in Nat
  BY DEF ChainInv, TypeInv, TypeOK
<1>a. \A i \in 1..Len(transcript) : transcript[i].run \in Nat
  <2>1. \A i \in 1..Len(transcript) : transcript[i] \in Message
    BY <1>0, ElementOfSeq
  <2> QED BY <2>1 DEF Message
<1>1. ASSUME UNCHANGED transcript, runs' \in {runs, runs + 1} PROVE RunsKnown'
  BY <1>0, <1>1, <1>a DEF RunsKnown
<1>2. ASSUME NEW m \in Message, transcript' = Append(transcript, m), UNCHANGED runs,
             m.left = 0 \/ m.run = runs
      PROVE  RunsKnown'
  <2>1. /\ Len(transcript) \in Nat /\ Len(transcript') = Len(transcript) + 1
        /\ \A i \in 1..Len(transcript) : transcript'[i] = transcript[i]
        /\ transcript'[Len(transcript) + 1] = m
    BY <1>0, <1>2, AppendProperties, LenProperties
  <2> SUFFICES ASSUME NEW i \in 1..Len(transcript'), transcript'[i].left > 0
               PROVE  transcript'[i].run <= runs
    BY <1>2 DEF RunsKnown
  <2>2. CASE i \in 1..Len(transcript)
    BY <2>1, <2>2 DEF RunsKnown
  <2>3. CASE i = Len(transcript) + 1
    BY <1>0, <1>2, <2>1, <2>3
  <2> QED BY <2>1, <2>2, <2>3
<1>3. CASE Reset
  <2>1. transcript' = <<>> /\ Len(<<>>) = 0
    BY <1>3, EmptySeq DEF Reset
  <2> QED BY <2>1 DEF RunsKnown
<1>4. CASE Announce \/ Inject
  <2>1. pending # <<>> /\ pending \in Seq(Outside)
    BY <1>0, <1>4 DEF Announce, Inject, TypeInv
  <2>2. Head(pending) \in Message /\ Head(pending).left = 0
    BY <2>1, HeadTailProperties DEF Outside
  <2>3. transcript' = Append(transcript, Head(pending)) /\ UNCHANGED runs
    BY <1>4 DEF Announce, Inject, numbers
  <2> QED BY <1>2, <2>2, <2>3
<1>5. ASSUME NEW k \in 0..MaxCalls, NEW reason \in {"stop", "length", "error"}, Reply(reason, k)
      PROVE RunsKnown'
  <2>1. replies + 1 \in Nat /\ k \in Nat
    BY <1>0, AgentAssumption
  <2>2. AssistantMessage(replies + 1, k) \in Message /\ AssistantMessage(replies + 1, k).run = runs
    BY <1>0, <2>1, Constructors DEF AssistantMessage
  <2> QED BY <1>2, <1>5, <2>2 DEF Reply
<1>6. CASE Report
  <2>1. /\ reported + 1 <= Len(calls)
        /\ transcript' = Append(transcript, ToolResult(replies, Len(calls) - (reported + 1)))
        /\ UNCHANGED runs
    BY <1>6 DEF Report, numbers
  <2>2. ToolResult(replies, Len(calls) - (reported + 1)) \in Message
    BY <1>0, <2>1, ResultsGrow
  <2>3. ToolResult(replies, Len(calls) - (reported + 1)).run = runs
    BY DEF ToolResult
  <2> QED BY <1>2, <2>1, <2>2, <2>3
<1>7. CASE Fail
  <2>1. FailureMessage \in Message /\ FailureMessage.left = 0
    BY <1>0, Constructors DEF FailureMessage
  <2> QED BY <1>2, <1>7, <2>1 DEF Fail, numbers
<1>8. CASE Steer \/ FollowUp \/ ClearAllQueues \/ Abort \/ UNCHANGED vars
  BY <1>1, <1>8 DEF Steer, FollowUp, ClearAllQueues, Abort, numbers, vars
<1>9. CASE Prompt \/ ContinueRun
  BY <1>1, <1>9 DEF Prompt, ContinueRun, Begin
<1>10. CASE FirstPoll \/ StartStream \/ EndTurn \/ End \/ Cut
  BY <1>1, <1>10 DEF FirstPoll, StartStream, EndTurn, End, Cut, Finish, numbers
<1>11. ASSUME NEW i \in DOMAIN calls, Refuse(i) \/ Execute(i) \/ Executed(i) PROVE RunsKnown'
  BY <1>1, <1>11 DEF Refuse, Execute, Executed, numbers
<1> QED
  BY <1>3, <1>4, <1>5, <1>6, <1>7, <1>8, <1>9, <1>10, <1>11 DEF Next, User, Advance

LEMMA SameFateStep == ChainInv /\ SameFate /\ [Next]_vars => SameFate'
<1> SUFFICES ASSUME ChainInv, SameFate, [Next]_vars PROVE SameFate'
  OBVIOUS
<1>0. /\ calls \in Seq({"queued", "executing", "finished", "truncated"})
      /\ Len(calls) \in Nat /\ DOMAIN calls = 1..Len(calls)
  BY LenProperties DEF ChainInv, TypeInv, TypeOK
<1>1. ASSUME calls' = calls PROVE SameFate'
  BY <1>1 DEF SameFate
<1>2. ASSUME calls' = <<>> PROVE SameFate'
  BY <1>2, EmptySeq DEF SameFate
<1>3. ASSUME NEW i \in DOMAIN calls, Refuse(i) \/ Execute(i) \/ Executed(i) PROVE SameFate'
  <2>1. calls[i] \in {"queued", "executing"}
    BY <1>3 DEF Refuse, Execute, Executed, MayPrepare
  <2>2. PICK state \in {"executing", "finished"} : calls' = [calls EXCEPT ![i] = state]
    BY <1>3 DEF Refuse, Execute, Executed
  <2>3. \A j \in 1..Len(calls) : calls[j] # "truncated"
    BY <1>0, <2>1 DEF SameFate
  <2>4. /\ Len(calls') = Len(calls)
        /\ \A j \in 1..Len(calls) : calls'[j] = IF j = i THEN state ELSE calls[j]
    BY <1>0, <2>2, ExceptSeq
  <2> QED BY <2>3, <2>4 DEF SameFate
<1>4. ASSUME NEW k \in 0..MaxCalls, NEW reason \in {"stop", "length", "error"}, Reply(reason, k)
      PROVE SameFate'
  <2>1. CASE reason = "error"
    BY <1>1, <1>4, <2>1 DEF Reply, batch
  <2>2. CASE reason # "error"
    <3>1. calls' = [i \in 1..k |-> IF reason = "length" THEN "truncated" ELSE "queued"]
      BY <1>4, <2>2 DEF Reply
    <3>2. k \in Nat
      BY AgentAssumption
    <3>3. Len(calls') = k
      <4>1. calls' \in [1..k -> {"queued", "executing", "finished", "truncated"}]
        BY <3>1
      <4>2. calls' \in Seq({"queued", "executing", "finished", "truncated"})
        BY <3>2, <4>1, SeqDef
      <4>3. DOMAIN calls' = 1..k
        BY <3>1
      <4> QED BY <3>2, <4>2, <4>3, LenProperties
    <3> QED BY <3>1, <3>3 DEF SameFate
  <2> QED BY <2>1, <2>2
<1>5. CASE Report
  <2>1. calls' = calls \/ calls' = <<>>
    BY <1>5 DEF Report, NoBatch
  <2> QED BY <1>1, <1>2, <2>1
<1>6. CASE End \/ Fail \/ Cut
  BY <1>2, <1>6 DEF End, Fail, Cut, Finish, LoopEnds, NoBatch
<1>7. CASE User
  BY <1>1, <1>7 DEF User, Steer, FollowUp, ClearAllQueues, Reset, Abort, Prompt,
                    ContinueRun, Begin, batch
<1>8. CASE Announce \/ FirstPoll \/ Inject \/ StartStream \/ EndTurn \/ UNCHANGED vars
  BY <1>1, <1>8 DEF Announce, FirstPoll, Inject, StartStream, EndTurn, batch, vars
<1> QED
  BY <1>3, <1>4, <1>5, <1>6, <1>7, <1>8 DEF Next, Advance

LEMMA AnsweredStep == AnswersInv /\ [Next]_vars => Answered'
<1> SUFFICES ASSUME AnswersInv, [Next]_vars, Looping', (parallel \/ ~aborted)'
             PROVE  IF pc' = "calls" THEN BatchOpen' ELSE Closed(context, Len(context), runs)'
  BY DEF Answered
<1>0. /\ TypeInv /\ TypeOK /\ TypeInv'
      /\ context \in Seq(Message) /\ transcript \in Seq(Message)
      /\ runs \in Nat /\ replies \in Nat /\ reported \in Nat
      /\ calls \in Seq({"queued", "executing", "finished", "truncated"})
      /\ Len(calls) \in Nat /\ DOMAIN calls = 1..Len(calls)
  <2>1. TypeInv /\ TypeOK /\ TypeInv'
    BY TypeStep DEF AnswersInv, ChainInv, TypeInv
  <2>2. calls \in Seq({"queued", "executing", "finished", "truncated"})
    BY <2>1 DEF TypeOK
  <2>3. reported \in Nat
    BY <2>1, <2>2, LenProperties DEF TypeOK
  <2>4. /\ context \in Seq(Message) /\ transcript \in Seq(Message)
        /\ runs \in Nat /\ replies \in Nat
    BY <2>1 DEF TypeOK
  <2> QED BY <2>1, <2>2, <2>3, <2>4, LenProperties
<1>a. ASSUME Looping, parallel \/ ~aborted
      PROVE  IF pc = "calls" THEN BatchOpen ELSE Closed(context, Len(context), runs)
  BY <1>a DEF AnswersInv, Answered
<1>1. ASSUME UNCHANGED <<context, pc, parallel, runs>>, aborted => aborted', Len(calls') = Len(calls)
      PROVE  IF pc' = "calls" THEN BatchOpen' ELSE Closed(context, Len(context), runs)'
  <2>1. Looping /\ (parallel \/ ~aborted)
    BY <1>1 DEF Looping
  <2> QED BY <1>1, <1>a, <2>1 DEF BatchOpen, Closed
<1>2. CASE Steer \/ FollowUp \/ ClearAllQueues \/ Abort \/ Reset \/ Announce \/ UNCHANGED vars
  BY <1>1, <1>2 DEF Steer, FollowUp, ClearAllQueues, Abort, Reset, Announce, numbers, batch, vars
<1>3. ASSUME NEW i \in DOMAIN calls, Refuse(i) \/ Execute(i) \/ Executed(i)
      PROVE  IF pc' = "calls" THEN BatchOpen' ELSE Closed(context, Len(context), runs)'
  <2>1. /\ UNCHANGED <<context, pc, parallel, runs, aborted>>
        /\ \E state : calls' = [calls EXCEPT ![i] = state]
    BY <1>3 DEF Refuse, Execute, Executed, numbers
  <2>2. DOMAIN calls' = DOMAIN calls
    BY <2>1
  <2>3. Len(calls') = Len(calls)
    <3>1. calls' \in Seq({"queued", "executing", "finished", "truncated"})
      BY <1>0 DEF TypeInv, TypeOK
    <3>2. DOMAIN calls' = 1..Len(calls') /\ Len(calls') \in Nat
      BY <3>1, LenProperties
    <3> QED BY <1>0, <2>2, <3>2
  <2> QED BY <1>1, <2>1, <2>3
<1>4. CASE Prompt \/ ContinueRun
  <2>1. PICK prompts, skip : Begin(prompts, skip)
    BY <1>4 DEF Prompt, ContinueRun
  <2>2. /\ pc' = "opening" /\ context' = transcript \o prompts /\ pending' = prompts
        /\ runs' = runs + 1
    BY <2>1 DEF Begin
  <2>3. prompts \in Seq(Outside) /\ prompts \in Seq(Message)
    BY <1>0, <2>2, OutsideMessages DEF TypeInv
  <2>4. \A i \in 1..Len(prompts) : prompts[i].left = 0
    BY <2>3, ElementOfSeq DEF Outside
  <2>5. /\ Len(transcript) \in Nat /\ Len(prompts) \in Nat
        /\ Len(context') = Len(transcript) + Len(prompts)
        /\ \A i \in 1..(Len(transcript) + Len(prompts)) :
             context'[i] = IF i <= Len(transcript) THEN transcript[i]
                           ELSE prompts[i - Len(transcript)]
    BY <1>0, <2>2, <2>3, ConcatProperties, LenProperties
  <2>6. \A i \in 1..Len(context') : ~(context'[i].run = runs' /\ context'[i].left > 0)
    <3> SUFFICES ASSUME NEW i \in 1..Len(context'), context'[i].left > 0
                 PROVE  context'[i].run # runs'
      OBVIOUS
    <3>1. CASE i <= Len(transcript)
      <4>1. i \in 1..Len(transcript) /\ context'[i] = transcript[i]
        BY <2>5, <3>1
      <4>2. transcript[i].run <= runs
        BY <4>1 DEF AnswersInv, RunsKnown
      <4>3. transcript[i].run \in Nat
        <5>1. transcript[i] \in Message
          BY <1>0, <4>1, ElementOfSeq
        <5> QED BY <5>1 DEF Message
      <4> QED BY <1>0, <2>2, <4>1, <4>2, <4>3
    <3>2. CASE ~(i <= Len(transcript))
      <4>1. i - Len(transcript) \in 1..Len(prompts)
        BY <2>5, <3>2
      <4>2. context'[i] = prompts[i - Len(transcript)]
        BY <2>5, <3>2
      <4> QED BY <2>4, <4>1, <4>2
    <3> QED BY <3>1, <3>2
  <2> QED BY <2>2, <2>6 DEF Closed
<1>5. ASSUME pc \in {"opening", "turn", "streaming", "turnEnd"}, pc' # "calls",
             UNCHANGED <<context, parallel, aborted, runs>>
      PROVE  IF pc' = "calls" THEN BatchOpen' ELSE Closed(context, Len(context), runs)'
  <2>1. Looping /\ (parallel \/ ~aborted) /\ pc # "calls"
    BY <1>5 DEF Looping
  <2> QED BY <1>5, <1>a, <2>1 DEF Closed
<1>6. CASE FirstPoll \/ StartStream \/ EndTurn
  BY <1>5, <1>6 DEF FirstPoll, StartStream, EndTurn, NextTurn, numbers
<1>7. CASE Inject
  <2>1. /\ pc = "turn" /\ pc' = "turn" /\ context' = Append(context, Head(pending))
        /\ UNCHANGED <<parallel, aborted, runs>>
    BY <1>7 DEF Inject, numbers
  <2>2. Head(pending) \in Message /\ Head(pending).left = 0
    BY <1>0, <1>7, HeadTailProperties DEF Inject, TypeInv, Outside
  <2>3. Closed(context, Len(context), runs)
    BY <1>a, <2>1 DEF Looping
  <2>4. Closed(Append(context, Head(pending)), Len(Append(context, Head(pending))), runs)
    BY <1>0, <2>2, <2>3, AppendClosed
  <2> QED BY <2>1, <2>4 DEF Closed
<1>8. ASSUME NEW k \in 0..MaxCalls, NEW reason \in {"stop", "length", "error"}, Reply(reason, k)
      PROVE  IF pc' = "calls" THEN BatchOpen' ELSE Closed(context, Len(context), runs)'
  <2> DEFINE m == AssistantMessage(replies + 1, k)
  <2>1. k \in Nat /\ replies + 1 \in Nat
    BY <1>0, AgentAssumption
  <2>2. m \in Message /\ m.left = k /\ m.run = runs
    BY <1>0, <2>1, Constructors DEF AssistantMessage
  <2>3. /\ pc = "streaming" /\ reason # "error" /\ pc' = (IF k = 0 THEN "turnEnd" ELSE "calls")
        /\ context' = Append(context, m) /\ UNCHANGED <<parallel, aborted, runs>>
        /\ calls' = [i \in 1..k |-> IF reason = "length" THEN "truncated" ELSE "queued"]
    BY <1>8 DEF Reply, Looping
  <2> HIDE DEF m
  <2>4. Closed(context, Len(context), runs)
    BY <1>a, <2>3 DEF Looping
  <2>5. /\ Closed(context', Len(context') - 1, runs)
        /\ m.left = 0 => Closed(context', Len(context'), runs)
    BY <1>0, <2>2, <2>3, <2>4, AppendClosed
  <2>6. CASE k = 0
    BY <2>2, <2>3, <2>5, <2>6 DEF Closed
  <2>7. CASE k # 0
    <3>1. Len(calls') = k
      <4>1. calls' \in Seq({"queued", "executing", "finished", "truncated"})
        BY <1>0 DEF TypeInv, TypeOK
      <4>2. DOMAIN calls' = 1..k
        BY <2>3
      <4> QED BY <2>1, <4>1, <4>2, LenProperties
    <3>2. context' # <<>> /\ context'[Len(context')] = m
      <4>0. context \in Seq(Message) /\ m \in Message /\ context' = Append(context, m)
        BY <1>0, <2>2, <2>3
      <4>1. /\ context' # <<>> /\ Len(context') = Len(context) + 1
            /\ context'[Len(context) + 1] = m
        BY <4>0, AppendProperties
      <4> QED BY <4>1
    <3>3. BatchOpen'
      BY <2>2, <2>3, <2>5, <3>1, <3>2 DEF BatchOpen, Closed
    <3> QED BY <2>3, <2>7, <3>3
  <2> QED BY <2>6, <2>7
<1>9. CASE Report
  <2>1. /\ pc = "calls" /\ reported + 1 <= Len(calls)
        /\ UNCHANGED <<parallel, aborted, runs>>
    BY <1>9 DEF Report, numbers
  <2>2. BatchOpen
    BY <1>a, <2>1 DEF Looping
  <2>a. reported \in Nat /\ Len(calls) \in Nat /\ reported + 1 <= Len(calls)
    BY <1>0, <2>1
  <2>3. CASE BatchEnds(reported + 1)
    <3>1. reported + 1 = Len(calls)
      <4> SUFFICES ASSUME reported + 1 # Len(calls) PROVE FALSE
        OBVIOUS
      <4>1. calls[reported + 1] = "finished" /\ ~AllAtOnce /\ aborted
        BY <2>3 DEF BatchEnds
      <4>2. parallel
        BY <2>1, <4>1
      <4>5. Len(calls) > 1
        BY <2>a
      <4>3. calls[1] = "truncated"
        BY <4>1, <4>2, <4>5 DEF AllAtOnce
      <4>4. 1 \in 1..Len(calls) /\ reported + 1 \in 1..Len(calls)
        BY <2>a, <4>5
      <4> QED BY <4>1, <4>3, <4>4 DEF AnswersInv, SameFate
    <3>2. pc' = "turnEnd" /\ context' = context \o ReportedResults(Len(calls))
      BY <1>9, <2>3, <3>1 DEF Report
    <3>3. Len(calls) > 0
      BY <1>0, <3>1
    <3>4. Closed(context', Len(context'), runs)
      BY <1>0, <2>2, <3>2, <3>3, BatchCloses
    <3> QED BY <2>1, <3>2, <3>4 DEF Closed
  <2>4. CASE ~BatchEnds(reported + 1)
    <3>1. UNCHANGED <<context, pc, calls>>
      BY <1>9, <2>4 DEF Report
    <3> QED BY <1>1, <2>1, <3>1
  <2> QED BY <2>3, <2>4
<1>10. CASE End \/ Fail \/ Cut
  BY <1>10 DEF End, Fail, Cut, Finish, Looping
<1> QED
  BY <1>2, <1>3, <1>4, <1>6, <1>7, <1>8, <1>9, <1>10 DEF Next, User, Advance

LEMMA AnswersStep == AnswersInv /\ [Next]_vars => AnswersInv'
BY ChainStep, RunsKnownStep, SameFateStep, AnsweredStep DEF AnswersInv

(***************************************************************************)
(* Calls without results.  Gaps(s, n, known) says of the first n messages  *)
(* of s that a call is answered or of one of the runs known.  While a      *)
(* batch runs, the last message is that whose calls it answers.            *)
(***************************************************************************)
Gaps(s, n, known) ==
  \A i \in 1..n :
    s[i].left > 0 =>
      \/ i < Len(s) /\ Answers(s[i + 1], s[i])
      \/ s[i].run \in known

TranscriptGaps ==
  IF pc = "calls" THEN Gaps(transcript, Len(transcript) - 1, interrupted)
                  ELSE Gaps(transcript, Len(transcript), interrupted)

ContextGaps ==
  Looping =>
    IF pc = "calls"
    THEN /\ context # <<>> /\ context[Len(context)].run = runs
         /\ Gaps(context, Len(context) - 1, interrupted)
    ELSE Gaps(context, Len(context), interrupted)

GapsInv == AnswersInv /\ TranscriptGaps /\ ContextGaps

LEMMA GapsInit == Init => GapsInv
<1> SUFFICES ASSUME Init PROVE GapsInv
  OBVIOUS
<1>1. TranscriptGaps
  BY EmptySeq DEF Init, TranscriptGaps, Gaps
<1>2. ContextGaps
  BY DEF Init, ContextGaps, Looping
<1> QED BY <1>1, <1>2, AnswersInit DEF GapsInv

LEMMA GapsGrow ==
  ASSUME NEW s \in Seq(Message), NEW n, NEW known, NEW more2, known \subseteq more2, Gaps(s, n, known)
  PROVE  Gaps(s, n, more2)
BY DEF Gaps

LEMMA GapsButLast ==
  ASSUME NEW s \in Seq(Message), NEW known, Gaps(s, Len(s), known)
  PROVE  Gaps(s, Len(s) - 1, known)
BY LenProperties DEF Gaps

(* A run that becomes known closes the message at the end.                 *)
LEMMA GapsSettle ==
  ASSUME NEW s \in Seq(Message), NEW known, Gaps(s, Len(s) - 1, known),
         s # <<>> => s[Len(s)].run \in known
  PROVE  Gaps(s, Len(s), known)
<1> SUFFICES ASSUME NEW i \in 1..Len(s), s[i].left > 0
             PROVE  (i < Len(s) /\ Answers(s[i + 1], s[i])) \/ s[i].run \in known
  BY DEF Gaps
<1>1. Len(s) \in Nat /\ s # <<>>
  BY LenProperties, EmptySeq
<1>2. CASE i = Len(s)
  BY <1>1, <1>2
<1>3. CASE i # Len(s)
  <2>1. i \in 1..(Len(s) - 1)
    BY <1>1, <1>3
  <2> QED BY <2>1 DEF Gaps
<1> QED BY <1>2, <1>3

(* A message joins: it answers the last one, or that was settled.          *)
LEMMA GapsAppend ==
  ASSUME NEW s \in Seq(Message), NEW m \in Message, NEW known,
         Gaps(s, Len(s) - 1, known),
         s # <<>> => Gaps(s, Len(s), known) \/ Answers(m, s[Len(s)])
  PROVE  /\ Gaps(Append(s, m), Len(Append(s, m)) - 1, known)
         /\ m.left = 0 \/ m.run \in known => Gaps(Append(s, m), Len(Append(s, m)), known)
<1> DEFINE t == Append(s, m)
<1>1. /\ Len(s) \in Nat /\ Len(t) = Len(s) + 1 /\ t[Len(s) + 1] = m
      /\ \A i \in 1..Len(s) : t[i] = s[i]
  OBVIOUS
<1> HIDE DEF t
<1>2. ASSUME NEW i \in 1..Len(s), t[i].left > 0
      PROVE  (i < Len(t) /\ Answers(t[i + 1], t[i])) \/ t[i].run \in known
  <2>0. t[i] = s[i] /\ s # <<>> /\ i < Len(t)
    BY <1>1, EmptySeq
  <2>1. CASE i < Len(s)
    <3>1. i \in 1..(Len(s) - 1) /\ t[i + 1] = s[i + 1]
      BY <1>1, <2>1
    <3> QED BY <1>2, <2>0, <3>1 DEF Gaps
  <2>2. CASE i = Len(s)
    <3>1. t[i + 1] = m /\ ~(i < Len(s))
      BY <1>1, <2>2
    <3>2. CASE Gaps(s, Len(s), known)
      BY <1>2, <2>0, <3>1, <3>2 DEF Gaps
    <3>3. CASE Answers(m, s[Len(s)])
      BY <2>0, <2>2, <3>1, <3>3
    <3> QED BY <2>0, <3>2, <3>3
  <2> QED BY <1>1, <2>1, <2>2
<1>3. Len(t) - 1 = Len(s)
  BY <1>1
<1>4. Gaps(t, Len(t) - 1, known)
  BY <1>2, <1>3 DEF Gaps
<1>5. ASSUME m.left = 0 \/ m.run \in known PROVE Gaps(t, Len(t), known)
  <2> SUFFICES ASSUME NEW i \in 1..Len(t), t[i].left > 0
               PROVE  (i < Len(t) /\ Answers(t[i + 1], t[i])) \/ t[i].run \in known
    BY DEF Gaps
  <2>1. CASE i \in 1..Len(s)
    BY <1>2, <2>1
  <2>2. CASE i = Len(s) + 1
    BY <1>1, <1>5, <2>2
  <2> QED BY <1>1, <2>1, <2>2
<1> QED BY <1>4, <1>5 DEF t

(* Messages without calls, or of known runs, join what is settled.         *)
LEMMA GapsConcat ==
  ASSUME NEW s \in Seq(Message), NEW r \in Seq(Message), NEW known, Gaps(s, Len(s), known),
         \A j \in 1..Len(r) : r[j].left = 0 \/ r[j].run \in known
  PROVE  Gaps(s \o r, Len(s \o r), known)
<1> DEFINE t == s \o r
<1>1. /\ Len(s) \in Nat /\ Len(r) \in Nat /\ Len(t) = Len(s) + Len(r)
      /\ \A i \in 1..(Len(s) + Len(r)) : t[i] = IF i <= Len(s) THEN s[i] ELSE r[i - Len(s)]
  BY ConcatProperties, LenProperties
<1> HIDE DEF t
<1> SUFFICES ASSUME NEW i \in 1..Len(t), t[i].left > 0
             PROVE  (i < Len(t) /\ Answers(t[i + 1], t[i])) \/ t[i].run \in known
  BY DEF Gaps, t
<1>2. CASE i <= Len(s)
  <2>1. i \in 1..Len(s) /\ t[i] = s[i]
    BY <1>1, <1>2
  <2>2. CASE i < Len(s) /\ Answers(s[i + 1], s[i])
    <3>1. t[i + 1] = s[i + 1] /\ i < Len(t)
      BY <1>1, <2>1, <2>2
    <3> QED BY <2>1, <2>2, <3>1
  <2>3. CASE s[i].run \in known
    BY <2>1, <2>3
  <2> QED BY <2>1, <2>2, <2>3 DEF Gaps
<1>3. CASE ~(i <= Len(s))
  <2>1. i - Len(s) \in 1..Len(r) /\ t[i] = r[i - Len(s)]
    BY <1>1, <1>3
  <2>2. ~(r[i - Len(s)].left > 0 /\ r[i - Len(s)].left = 0)
    OBVIOUS
  <2> QED BY <2>1, <2>2
<1> QED BY <1>2, <1>3

(* What is said of all runs known holds of the others alone if the calls   *)
(* of one of them are answered.                                            *)
LEMMA GapsClose ==
  ASSUME NEW s, NEW known, NEW r, Gaps(s, Len(s), known \cup {r}), Closed(s, Len(s), r)
  PROVE  Gaps(s, Len(s), known)
BY DEF Gaps, Closed

LEMMA TranscriptGapsStep == GapsInv /\ [Next]_vars => TranscriptGaps'
<1> SUFFICES ASSUME GapsInv, [Next]_vars PROVE TranscriptGaps'
  OBVIOUS
<1>0. /\ TypeInv /\ TypeOK /\ transcript \in Seq(Message) /\ Len(transcript) \in Nat
      /\ runs \in Nat /\ replies \in Nat /\ reported \in Nat /\ Len(calls) \in Nat
  <2>1. TypeInv /\ TypeOK
    BY DEF GapsInv, AnswersInv, ChainInv, TypeInv
  <2>2. calls \in Seq({"queued", "executing", "finished", "truncated"}) /\ reported \in 0..Len(calls)
    BY <2>1 DEF TypeOK
  <2> QED BY <2>1, <2>2, LenProperties DEF TypeOK
<1>a. interrupted \subseteq interrupted'
  BY InterruptedGrows
<1>b. Gaps(transcript, Len(transcript) - 1, interrupted')
  <2>1. Gaps(transcript, Len(transcript) - 1, interrupted)
    BY <1>0, GapsButLast DEF GapsInv, TranscriptGaps
  <2> QED BY <1>0, <1>a, <2>1, GapsGrow
<1>c. ASSUME pc # "calls" PROVE Gaps(transcript, Len(transcript), interrupted')
  <2>1. Gaps(transcript, Len(transcript), interrupted)
    BY <1>c DEF GapsInv, TranscriptGaps
  <2> QED BY <1>0, <1>a, <2>1, GapsGrow
<1>d. ASSUME pc = "calls"
      PROVE  /\ reported < Len(calls)
             /\ transcript # <<>> =>
                  /\ transcript[Len(transcript)].left = Len(calls) - reported
                  /\ transcript[Len(transcript)].run = runs
  BY <1>d DEF GapsInv, AnswersInv, ChainInv, AnswerDue
<1>1. ASSUME UNCHANGED <<transcript, pc>> PROVE TranscriptGaps'
  BY <1>1, <1>b, <1>c DEF TranscriptGaps, Gaps
<1>2. ASSUME pc # "calls", pc' # "calls", UNCHANGED transcript PROVE TranscriptGaps'
  BY <1>2, <1>c DEF TranscriptGaps, Gaps
<1>3. ASSUME NEW m \in Message, m.left = 0, transcript' = Append(transcript, m),
             pc # "calls", pc' # "calls"
      PROVE  TranscriptGaps'
  <2>1. Gaps(Append(transcript, m), Len(Append(transcript, m)), interrupted')
    BY <1>0, <1>3, <1>b, <1>c, GapsAppend
  <2> QED BY <1>3, <2>1 DEF TranscriptGaps, Gaps
<1>4. CASE Steer \/ FollowUp \/ ClearAllQueues \/ Abort \/ UNCHANGED vars
  BY <1>1, <1>4 DEF Steer, FollowUp, ClearAllQueues, Abort, vars
<1>5. CASE Reset
  <2>1. transcript' = <<>> /\ Len(<<>>) = 0
    BY <1>5, EmptySeq DEF Reset
  <2> QED BY <2>1 DEF TranscriptGaps, Gaps
<1>6. CASE Prompt \/ ContinueRun
  BY <1>2, <1>6 DEF Prompt, ContinueRun, Begin, Active
<1>7. CASE Announce \/ Inject
  <2>1. pending # <<>> /\ pending \in Seq(Outside)
    BY <1>0, <1>7 DEF Announce, Inject, TypeInv
  <2>2. Head(pending) \in Message /\ Head(pending).left = 0
    BY <2>1, HeadTailProperties DEF Outside
  <2> QED BY <1>3, <1>7, <2>2 DEF Announce, Inject
<1>8. CASE FirstPoll \/ StartStream \/ EndTurn
  BY <1>2, <1>8 DEF FirstPoll, StartStream, EndTurn, NextTurn
<1>9. ASSUME NEW k \in 0..MaxCalls, NEW reason \in {"stop", "length", "error"}, Reply(reason, k)
      PROVE TranscriptGaps'
  <2>1. replies + 1 \in Nat /\ k \in Nat
    BY <1>0, AgentAssumption
  <2>2. PICK m \in Message : m = AssistantMessage(replies + 1, k) /\ m.run = runs /\ m.left = k
    BY <1>0, <2>1, Constructors DEF AssistantMessage
  <2>3. transcript' = Append(transcript, m) /\ pc = "streaming"
    BY <1>9, <2>2 DEF Reply
  <2>4. /\ Gaps(transcript', Len(transcript') - 1, interrupted')
        /\ m.left = 0 \/ m.run \in interrupted' => Gaps(transcript', Len(transcript'), interrupted')
    <3>1. Gaps(transcript, Len(transcript), interrupted')
      BY <1>c, <2>3
    <3> QED BY <1>0, <1>b, <2>2, <2>3, <3>1, GapsAppend
  <2>5. pc' # "calls" => k = 0 \/ runs \in interrupted'
    <3>1. k > 0 \/ k = 0
      BY <2>1
    <3> QED BY <1>9, <3>1 DEF Reply, Interrupts
  <2> QED BY <2>2, <2>4, <2>5 DEF TranscriptGaps, Gaps
<1>10. CASE Report
  <2>1. /\ pc = "calls" /\ reported + 1 <= Len(calls)
        /\ transcript' = Append(transcript, ToolResult(replies, Len(calls) - (reported + 1)))
    BY <1>10 DEF Report
  <2>2. PICK m \in Message : /\ m = ToolResult(replies, Len(calls) - (reported + 1))
                             /\ m.kind = "result" /\ m.run = runs
                             /\ m.left = Len(calls) - (reported + 1)
    BY <1>0, <2>1, ResultsGrow DEF ToolResult
  <2>3. transcript # <<>> => Answers(m, transcript[Len(transcript)])
    BY <1>0, <1>d, <2>1, <2>2 DEF Answers
  <2>4. transcript' = Append(transcript, m)
    BY <2>1, <2>2
  <2>5. /\ Gaps(transcript', Len(transcript') - 1, interrupted')
        /\ m.left = 0 \/ m.run \in interrupted' => Gaps(transcript', Len(transcript'), interrupted')
    BY <1>0, <1>b, <2>2, <2>3, <2>4, GapsAppend
  <2>6. pc' # "calls" => m.left = 0 \/ m.run \in interrupted'
    <3> SUFFICES ASSUME pc' # "calls", m.left # 0 PROVE m.run \in interrupted'
      OBVIOUS
    <3>1. BatchEnds(reported + 1)
      BY <1>10, <2>1 DEF Report
    <3>2. reported + 1 # Len(calls)
      BY <1>0, <2>2
    <3>3. aborted
      BY <3>1, <3>2 DEF BatchEnds
    <3> QED BY <1>10, <2>2, <3>1, <3>3 DEF Report, Interrupts
  <2> QED BY <2>5, <2>6 DEF TranscriptGaps, Gaps
<1>11. ASSUME LoopEnds PROVE Gaps(transcript, Len(transcript), interrupted')
  <2>1. CASE pc # "calls"
    BY <1>c, <2>1
  <2>2. CASE pc = "calls"
    <3>1. calls # <<>>
      BY <1>0, <1>d, <2>2, EmptySeq
    <3>2. runs \in interrupted'
      BY <1>11, <3>1 DEF LoopEnds, Interrupts
    <3> QED BY <1>0, <1>b, <1>d, <2>2, <3>2, GapsSettle
  <2> QED BY <2>1, <2>2
<1>12. CASE End \/ Cut
  <2>1. LoopEnds /\ pc' = "idle" /\ transcript' = transcript
    BY <1>12 DEF End, Cut, Finish
  <2> QED BY <1>11, <2>1 DEF TranscriptGaps, Gaps
<1>13. CASE Fail
  <2>1. PICK m \in Message : m = FailureMessage /\ m.left = 0
    BY <1>0, Constructors DEF FailureMessage
  <2>2. LoopEnds /\ pc' = "failing" /\ transcript' = Append(transcript, m)
    BY <1>13, <2>1 DEF Fail
  <2>3. Gaps(transcript', Len(transcript'), interrupted')
    BY <1>0, <1>11, <1>b, <2>1, <2>2, GapsAppend
  <2> QED BY <2>2, <2>3 DEF TranscriptGaps, Gaps
<1>14. ASSUME NEW i \in DOMAIN calls, Refuse(i) \/ Execute(i) \/ Executed(i) PROVE TranscriptGaps'
  BY <1>1, <1>14 DEF Refuse, Execute, Executed
<1> QED
  BY <1>4, <1>5, <1>6, <1>7, <1>8, <1>9, <1>10, <1>12, <1>13, <1>14 DEF Next, User, Advance

LEMMA ContextGapsStep == GapsInv /\ [Next]_vars => ContextGaps'
<1> SUFFICES ASSUME GapsInv, [Next]_vars, Looping' PROVE ContextGaps'
  BY DEF ContextGaps
<1>0. /\ TypeInv /\ TypeOK /\ transcript \in Seq(Message) /\ context \in Seq(Message)
      /\ Len(context) \in Nat /\ runs \in Nat /\ replies \in Nat
      /\ reported \in Nat /\ Len(calls) \in Nat
  <2>1. TypeInv /\ TypeOK
    BY DEF GapsInv, AnswersInv, ChainInv, TypeInv
  <2>2. calls \in Seq({"queued", "executing", "finished", "truncated"}) /\ reported \in 0..Len(calls)
    BY <2>1 DEF TypeOK
  <2> QED BY <2>1, <2>2, LenProperties DEF TypeOK
<1>a. interrupted \subseteq interrupted'
  BY InterruptedGrows
<1>c. ASSUME Looping, pc # "calls" PROVE Gaps(context, Len(context), interrupted')
  <2>1. Gaps(context, Len(context), interrupted)
    BY <1>c DEF GapsInv, ContextGaps
  <2> QED BY <1>0, <1>a, <2>1, GapsGrow
<1>d. ASSUME pc = "calls"
      PROVE  /\ context # <<>> /\ context[Len(context)].run = runs
             /\ Gaps(context, Len(context) - 1, interrupted')
  <2>1. /\ context # <<>> /\ context[Len(context)].run = runs
        /\ Gaps(context, Len(context) - 1, interrupted)
    BY <1>d DEF GapsInv, ContextGaps, Looping
  <2> QED BY <1>0, <1>a, <2>1, GapsGrow
<1>1. ASSUME UNCHANGED <<context, pc, runs>> PROVE ContextGaps'
  <2>1. Looping
    BY <1>1 DEF Looping
  <2>2. CASE pc = "calls"
    BY <1>1, <1>d, <2>2 DEF ContextGaps, Gaps
  <2>3. CASE pc # "calls"
    BY <1>1, <1>c, <2>1, <2>3 DEF ContextGaps, Gaps
  <2> QED BY <2>2, <2>3
<1>2. ASSUME Looping, pc # "calls", pc' # "calls", UNCHANGED context PROVE ContextGaps'
  BY <1>2, <1>c DEF ContextGaps, Gaps
<1>3. CASE Steer \/ FollowUp \/ ClearAllQueues \/ Abort \/ Reset \/ Announce \/ UNCHANGED vars
  BY <1>1, <1>3 DEF Steer, FollowUp, ClearAllQueues, Abort, Reset, Announce, numbers, vars
<1>4. CASE Prompt \/ ContinueRun
  <2>1. PICK prompts, skip : Begin(prompts, skip) /\ ~Active
    BY <1>4 DEF Prompt, ContinueRun
  <2>2. /\ pc' = "opening" /\ context' = transcript \o prompts /\ pending' = prompts
        /\ interrupted' = interrupted /\ pc = "idle"
    BY <2>1 DEF Begin, Active
  <2>3. prompts \in Seq(Outside) /\ prompts \in Seq(Message)
    <3>1. TypeInv'
      BY <1>0, TypeStep
    <3> QED BY <2>2, <3>1, OutsideMessages DEF TypeInv
  <2>4. \A j \in 1..Len(prompts) : prompts[j].left = 0
    BY <2>3, ElementOfSeq DEF Outside
  <2>5. Gaps(transcript, Len(transcript), interrupted)
    BY <2>2 DEF GapsInv, TranscriptGaps
  <2>6. Gaps(context', Len(context'), interrupted')
    BY <1>0, <2>2, <2>3, <2>4, <2>5, GapsConcat
  <2> QED BY <2>2, <2>6 DEF ContextGaps, Gaps
<1>5. CASE FirstPoll \/ StartStream \/ EndTurn
  BY <1>2, <1>5 DEF FirstPoll, StartStream, EndTurn, NextTurn, Looping
<1>6. CASE Inject
  <2>1. pc = "turn" /\ pc' = "turn" /\ context' = Append(context, Head(pending))
    BY <1>6 DEF Inject
  <2>2. PICK m \in Message : m = Head(pending) /\ m.left = 0
    BY <1>0, <1>6, HeadTailProperties DEF Inject, TypeInv, Outside
  <2>3. Gaps(context, Len(context), interrupted')
    BY <1>c, <2>1 DEF Looping
  <2>4. Gaps(context, Len(context) - 1, interrupted')
    BY <1>0, <2>3, GapsButLast
  <2>5. Gaps(context', Len(context'), interrupted')
    BY <1>0, <2>1, <2>2, <2>3, <2>4, GapsAppend
  <2> QED BY <2>1, <2>5 DEF ContextGaps, Gaps
<1>7. ASSUME NEW k \in 0..MaxCalls, NEW reason \in {"stop", "length", "error"}, Reply(reason, k)
      PROVE ContextGaps'
  <2>1. replies + 1 \in Nat /\ k \in Nat
    BY <1>0, AgentAssumption
  <2>2. PICK m \in Message : m = AssistantMessage(replies + 1, k) /\ m.run = runs /\ m.left = k
    BY <1>0, <2>1, Constructors DEF AssistantMessage
  <2>3. /\ context' = Append(context, m) /\ pc = "streaming" /\ runs' = runs
        /\ pc' = IF k = 0 THEN "turnEnd" ELSE "calls"
    BY <1>7, <2>2 DEF Reply, Looping
  <2>4. Gaps(context, Len(context), interrupted')
    BY <1>c, <2>3 DEF Looping
  <2>5. Gaps(context, Len(context) - 1, interrupted')
    BY <1>0, <2>4, GapsButLast
  <2>6. /\ Gaps(context', Len(context') - 1, interrupted')
        /\ m.left = 0 => Gaps(context', Len(context'), interrupted')
    BY <1>0, <2>2, <2>3, <2>4, <2>5, GapsAppend
  <2>7. context' # <<>> /\ context'[Len(context')] = m
    <3>1. /\ context' # <<>> /\ Len(context') = Len(context) + 1
          /\ context'[Len(context) + 1] = m
      BY <1>0, <2>2, <2>3, AppendProperties
    <3> QED BY <3>1
  <2>8. CASE k = 0
    BY <2>2, <2>3, <2>6, <2>8 DEF ContextGaps, Gaps
  <2>9. CASE k # 0
    BY <2>2, <2>3, <2>6, <2>7, <2>9 DEF ContextGaps, Gaps
  <2> QED BY <2>8, <2>9
<1>8. CASE Report
  <2>1. /\ pc = "calls" /\ reported + 1 <= Len(calls) /\ UNCHANGED <<runs, aborted, parallel>>
    BY <1>8 DEF Report, numbers
  <2>2. CASE ~BatchEnds(reported + 1)
    BY <1>1, <1>8, <2>1, <2>2 DEF Report
  <2>3. CASE BatchEnds(reported + 1)
    <3>1. pc' = "turnEnd" /\ context' = context \o ReportedResults(reported + 1)
      BY <1>8, <2>3 DEF Report
    <3>2. PICK r \in Seq(Message) : /\ r = ReportedResults(reported + 1)
                                    /\ \A j \in 1..Len(r) : r[j].run = runs
      <4>1. reported + 1 \in Nat
        BY <1>0
      <4>2. /\ ReportedResults(reported + 1) \in Seq(Message)
            /\ Len(ReportedResults(reported + 1)) = reported + 1
            /\ \A j \in 1..(reported + 1) :
                 ReportedResults(reported + 1)[j] = ToolResult(replies, Len(calls) - j)
        BY <1>0, <2>1, <4>1, ResultsAreMessages
      <4>3. ASSUME NEW j \in 1..(reported + 1)
            PROVE  ReportedResults(reported + 1)[j].run = runs
        <5>1. ReportedResults(reported + 1)[j] = ToolResult(replies, Len(calls) - j)
          BY <4>2
        <5> QED BY <5>1 DEF ToolResult
      <4> QED BY <4>2, <4>3
    <3> DEFINE known == interrupted' \cup {runs}
    <3>3. Gaps(context, Len(context) - 1, known)
      BY <1>0, <1>d, <2>1, GapsGrow
    <3>4. Gaps(context, Len(context), known)
      BY <1>0, <1>d, <2>1, <3>3, GapsSettle
    <3>5. Gaps(context', Len(context'), known)
      BY <1>0, <3>1, <3>2, <3>4, GapsConcat
    <3>6. CASE aborted
      <4>1. interrupted' = known
        BY <1>8, <2>3, <3>6 DEF Report, Interrupts
      <4> QED BY <3>1, <3>5, <4>1 DEF ContextGaps, Gaps
    <3>7. CASE ~aborted
      <4>1. Closed(context', Len(context'), runs)
        <5>1. Answered'
          BY AnsweredStep DEF GapsInv
        <5> QED BY <2>1, <3>1, <3>7, <5>1 DEF Answered, Looping, Closed
      <4>2. Gaps(context', Len(context'), interrupted')
        BY <3>5, <4>1, GapsClose
      <4> QED BY <3>1, <4>2 DEF ContextGaps, Gaps
    <3> QED BY <3>6, <3>7
  <2> QED BY <2>2, <2>3
<1>9. CASE End \/ Fail \/ Cut
  BY <1>9 DEF End, Fail, Cut, Finish, Looping
<1>10. ASSUME NEW i \in DOMAIN calls, Refuse(i) \/ Execute(i) \/ Executed(i) PROVE ContextGaps'
  BY <1>1, <1>10 DEF Refuse, Execute, Executed, numbers
<1> QED
  BY <1>3, <1>4, <1>5, <1>6, <1>7, <1>8, <1>9, <1>10 DEF Next, User, Advance

LEMMA GapsStep == GapsInv /\ [Next]_vars => GapsInv'
BY AnswersStep, TranscriptGapsStep, ContextGapsStep DEF GapsInv

(* When the model is called, a call in the context has its result right    *)
(* behind it, or its run was interrupted in a batch; if that is the run    *)
(* that goes on, its batch was sequential and abort() has cut it.          *)
THEOREM ModelAlwaysSeesAnswers == Spec => []ModelSeesAnswers
<1>1. ASSUME GapsInv PROVE ModelSeesAnswers
  <2> SUFFICES ASSUME pc = "streaming", NEW i \in 1..Len(context), context[i].left > 0,
                      ~(i < Len(context) /\ Answers(context[i + 1], context[i]))
               PROVE  /\ context[i].run \in interrupted
                      /\ context[i].run = runs => aborted /\ ~parallel
    BY DEF ModelSeesAnswers
  <2>1. context[i].run \in interrupted
    BY <1>1 DEF GapsInv, ContextGaps, Looping, Gaps
  <2>2. parallel \/ ~aborted => Closed(context, Len(context), runs)
    BY <1>1 DEF GapsInv, AnswersInv, Answered, Looping
  <2>3. context[i].run = runs => ~Closed(context, Len(context), runs)
    BY DEF Closed
  <2> QED BY <2>1, <2>2, <2>3
<1> QED BY <1>1, GapsInit, GapsStep, PTL DEF Spec

(* The model and the listeners are shown the same messages; results stand  *)
(* behind their calls, and only an interrupted batch leaves calls without. *)
THEOREM ConversationAlwaysShared == Spec => []ConversationShared
<1>1. ResultsFollowCalls /\ ModelSeesAnswers /\ MirrorsContext => ConversationShared
  BY DEF ConversationShared
<1> QED
  BY <1>1, ResultsAlwaysFollowCalls, ModelAlwaysSeesAnswers, TranscriptAlwaysMirrorsContext, PTL

(* The run's invariant: types and conversation together.                   *)
THEOREM AgentAlwaysSound == Spec => []AgentSound
<1>1. TypeOK /\ ConversationShared => AgentSound
  BY DEF AgentSound
<1> QED BY <1>1, TypeCorrect, ConversationAlwaysShared, PTL

(***************************************************************************)
(* Queued messages.  A message is on its way through its queue, the        *)
(* messages about to be announced and the transcript.  Fate says of those  *)
(* three, one behind the other, that the messages of one kind stand in the *)
(* order of their numbers, that they were all queued, and that none of the *)
(* total of them is missing that was not lost on purpose.                  *)
(***************************************************************************)

Ids(s, kind) == {s[i].id : i \in {k \in 1..Len(s) : s[k].kind = kind}}

Before(A, B) == \A m \in A, n \in B : m < n

Fate(kind, s, total, lost) ==
  /\ InOrder(s, kind)
  /\ \A n \in Ids(s, kind) : n <= total
  /\ \A n \in 1..total : n \in Ids(s, kind) \/ <<kind, n>> \in lost

(* What a sequence holds of a kind, from its two parts.                    *)
LEMMA PartsOfConcat ==
  ASSUME NEW s \in Seq(Message), NEW t \in Seq(Message), NEW kind
  PROVE  /\ Ids(s \o t, kind) = Ids(s, kind) \cup Ids(t, kind)
         /\ InOrder(s \o t, kind) <=>
              /\ InOrder(s, kind) /\ InOrder(t, kind)
              /\ Before(Ids(s, kind), Ids(t, kind))
<1> DEFINE u == s \o t
<1>1. /\ Len(s) \in Nat /\ Len(t) \in Nat /\ Len(u) = Len(s) + Len(t)
      /\ \A i \in 1..Len(s) : u[i] = s[i]
      /\ \A i \in 1..Len(t) : u[Len(s) + i] = t[i]
  OBVIOUS
<1> HIDE DEF u
<1>2. \A i \in 1..Len(u) :
        i \in 1..Len(s) \/ (i - Len(s) \in 1..Len(t) /\ i = Len(s) + (i - Len(s)))
  BY <1>1
<1>3. \A i \in 1..Len(s) : i \in 1..Len(u)
  BY <1>1
<1>4. \A i \in 1..Len(t) : Len(s) + i \in 1..Len(u)
  BY <1>1
<1>5. Ids(u, kind) = Ids(s, kind) \cup Ids(t, kind)
  <2>1. ASSUME NEW n \in Ids(u, kind) PROVE n \in Ids(s, kind) \cup Ids(t, kind)
    <3>1. PICK i \in 1..Len(u) : u[i].kind = kind /\ n = u[i].id
      BY DEF Ids
    <3>2. CASE i \in 1..Len(s)
      BY <1>1, <3>1, <3>2 DEF Ids
    <3>3. CASE i - Len(s) \in 1..Len(t) /\ i = Len(s) + (i - Len(s))
      <4>1. u[i] = t[i - Len(s)]
        BY <1>1, <3>3
      <4> QED BY <3>1, <3>3, <4>1 DEF Ids
    <3> QED BY <1>2, <3>2, <3>3
  <2>2. ASSUME NEW n \in Ids(s, kind) PROVE n \in Ids(u, kind)
    BY <1>1, <1>3 DEF Ids
  <2>3. ASSUME NEW n \in Ids(t, kind) PROVE n \in Ids(u, kind)
    <3>1. PICK i \in 1..Len(t) : t[i].kind = kind /\ n = t[i].id
      BY DEF Ids
    <3>2. u[Len(s) + i] = t[i] /\ Len(s) + i \in 1..Len(u)
      BY <1>1, <1>4
    <3> QED BY <3>1, <3>2 DEF Ids
  <2> QED BY <2>1, <2>2, <2>3
<1>6. ASSUME InOrder(u, kind)
      PROVE  /\ InOrder(s, kind) /\ InOrder(t, kind)
             /\ Before(Ids(s, kind), Ids(t, kind))
  <2>1. InOrder(s, kind)
    BY <1>1, <1>3, <1>6 DEF InOrder
  <2>2. InOrder(t, kind)
    <3> SUFFICES ASSUME NEW i \in 1..Len(t), NEW k \in 1..Len(t), i < k,
                        t[i].kind = kind, t[k].kind = kind
                 PROVE  t[i].id < t[k].id
      BY DEF InOrder
    <3>1. /\ Len(s) + i < Len(s) + k
          /\ u[Len(s) + i] = t[i] /\ u[Len(s) + k] = t[k]
          /\ Len(s) + i \in 1..Len(u) /\ Len(s) + k \in 1..Len(u)
      BY <1>1
    <3> QED BY <1>6, <3>1 DEF InOrder
  <2>3. ASSUME NEW m \in Ids(s, kind), NEW n \in Ids(t, kind) PROVE m < n
    <3>1. PICK i \in 1..Len(s) : s[i].kind = kind /\ m = s[i].id
      BY DEF Ids
    <3>2. PICK k \in 1..Len(t) : t[k].kind = kind /\ n = t[k].id
      BY DEF Ids
    <3>3. /\ i < Len(s) + k /\ i \in 1..Len(u) /\ Len(s) + k \in 1..Len(u)
          /\ u[i] = s[i] /\ u[Len(s) + k] = t[k]
      BY <1>1
    <3> QED BY <1>6, <3>1, <3>2, <3>3 DEF InOrder
  <2> QED BY <2>1, <2>2, <2>3 DEF Before
<1>7. ASSUME InOrder(s, kind), InOrder(t, kind), Before(Ids(s, kind), Ids(t, kind)),
             NEW i \in 1..Len(u), NEW k \in 1..Len(u), i < k,
             u[i].kind = kind, u[k].kind = kind
      PROVE  u[i].id < u[k].id
  <2>1. CASE k \in 1..Len(s)
    <3>1. i \in 1..Len(s)
      BY <1>1, <1>7, <2>1
    <3> QED BY <1>1, <1>7, <2>1, <3>1 DEF InOrder
  <2>2. CASE k - Len(s) \in 1..Len(t) /\ k = Len(s) + (k - Len(s))
    <3>1. u[k] = t[k - Len(s)]
      BY <1>1, <2>2
    <3>2. CASE i \in 1..Len(s)
      <4>1. u[i].id \in Ids(s, kind)
        BY <1>1, <1>7, <3>2 DEF Ids
      <4>2. u[k].id \in Ids(t, kind)
        BY <1>7, <2>2, <3>1 DEF Ids
      <4> QED BY <1>7, <4>1, <4>2 DEF Before
    <3>3. CASE i - Len(s) \in 1..Len(t) /\ i = Len(s) + (i - Len(s))
      <4>1. u[i] = t[i - Len(s)] /\ i - Len(s) < k - Len(s)
        BY <1>1, <1>7, <3>3
      <4> QED BY <1>7, <2>2, <3>1, <3>3, <4>1 DEF InOrder
    <3> QED BY <1>2, <3>2, <3>3
  <2> QED BY <1>2, <2>1, <2>2
<1>8. InOrder(u, kind) <=>
        /\ InOrder(s, kind) /\ InOrder(t, kind)
        /\ Before(Ids(s, kind), Ids(t, kind))
  BY <1>6, <1>7 DEF InOrder
<1> QED BY <1>5, <1>8 DEF u

LEMMA IdsOfConcat ==
  ASSUME NEW s \in Seq(Message), NEW t \in Seq(Message), NEW kind
  PROVE  Ids(s \o t, kind) = Ids(s, kind) \cup Ids(t, kind)
BY PartsOfConcat, ZenonT(30)

LEMMA OrderOfConcat ==
  ASSUME NEW s \in Seq(Message), NEW t \in Seq(Message), NEW kind
  PROVE  InOrder(s \o t, kind) <=>
           /\ InOrder(s, kind) /\ InOrder(t, kind)
           /\ Before(Ids(s, kind), Ids(t, kind))
BY PartsOfConcat, ZenonT(30)

(* One message: its number, if it is of the kind.                          *)
LEMMA IdsOfOne ==
  ASSUME NEW m \in Message, NEW kind
  PROVE  /\ <<m>> \in Seq(Message)
         /\ Ids(<<m>>, kind) = IF m.kind = kind THEN {m.id} ELSE {}
         /\ InOrder(<<m>>, kind)
<1>1. <<m>> \in Seq(Message) /\ Len(<<m>>) = 1 /\ <<m>>[1] = m
  OBVIOUS
<1> DEFINE s == <<m>>
<1> HIDE DEF s
<1>2. /\ Ids(s, kind) = IF m.kind = kind THEN {m.id} ELSE {}
      /\ InOrder(s, kind)
  <2>1. Len(s) = 1 /\ s[1] = m /\ 1..Len(s) = {1}
    BY <1>1 DEF s
  <2>2. {k \in 1..Len(s) : s[k].kind = kind} = IF m.kind = kind THEN {1} ELSE {}
    BY <2>1
  <2>3. Ids(s, kind) = IF m.kind = kind THEN {m.id} ELSE {}
    BY <2>1, <2>2 DEF Ids
  <2>4. InOrder(s, kind)
    BY <2>1 DEF InOrder
  <2> QED BY <2>3, <2>4
<1> QED BY <1>1, <1>2 DEF s

LEMMA IdsOfNone ==
  ASSUME NEW kind
  PROVE  Ids(<<>>, kind) = {} /\ InOrder(<<>>, kind)
<1>1. \A s : s = <<>> => Len(s) = 0
  BY EmptySeq
<1>2. \A s : s = <<>> => 1..Len(s) = {}
  BY <1>1
<1>3. \A s : s = <<>> => Ids(s, kind) = {} /\ InOrder(s, kind)
  BY <1>2 DEF Ids, InOrder
<1> QED BY <1>3

LEMMA IdsOfThree ==
  ASSUME NEW s \in Seq(Message), NEW x \in Seq(Message), NEW t \in Seq(Message), NEW kind
  PROVE  /\ Ids((s \o x) \o t, kind) = Ids(s, kind) \cup Ids(x, kind) \cup Ids(t, kind)
         /\ InOrder((s \o x) \o t, kind) <=>
              /\ InOrder(s, kind) /\ InOrder(x, kind) /\ InOrder(t, kind)
              /\ Before(Ids(s, kind), Ids(x, kind))
              /\ Before(Ids(s, kind), Ids(t, kind))
              /\ Before(Ids(x, kind), Ids(t, kind))
<1> DEFINE u == s \o x
<1>1. u \in Seq(Message)
  BY ConcatProperties
<1>2. Ids(u, kind) = Ids(s, kind) \cup Ids(x, kind)
  BY IdsOfConcat
<1>3. InOrder(u, kind) <=>
        InOrder(s, kind) /\ InOrder(x, kind) /\ Before(Ids(s, kind), Ids(x, kind))
  BY OrderOfConcat
<1> HIDE DEF u
<1>4. Ids(u \o t, kind) = Ids(u, kind) \cup Ids(t, kind)
  BY <1>1, IdsOfConcat
<1>5. InOrder(u \o t, kind) <=>
        InOrder(u, kind) /\ InOrder(t, kind) /\ Before(Ids(u, kind), Ids(t, kind))
  BY <1>1, OrderOfConcat
<1>6. Before(Ids(u, kind), Ids(t, kind)) <=>
        Before(Ids(s, kind), Ids(t, kind)) /\ Before(Ids(x, kind), Ids(t, kind))
  BY <1>2 DEF Before
<1>7. Ids(u \o t, kind) = Ids(s, kind) \cup Ids(x, kind) \cup Ids(t, kind)
  BY <1>2, <1>4
<1> QED BY <1>3, <1>5, <1>6, <1>7 DEF u

(* Messages of another kind, put anywhere, change nothing.                 *)
LEMMA InsertOther ==
  ASSUME NEW s \in Seq(Message), NEW x \in Seq(Message), NEW t \in Seq(Message),
         NEW kind, NEW total, NEW lost,
         Ids(x, kind) = {}, Fate(kind, s \o t, total, lost)
  PROVE  Fate(kind, (s \o x) \o t, total, lost)
<1> DEFINE w == (s \o x) \o t
           v == s \o t
<1>1. Ids(w, kind) = Ids(s, kind) \cup Ids(x, kind) \cup Ids(t, kind)
  BY IdsOfThree
<1>2. Ids(v, kind) = Ids(s, kind) \cup Ids(t, kind)
  BY IdsOfConcat
<1>3. InOrder(x, kind)
  BY DEF InOrder, Ids
<1>4. /\ InOrder(s, kind) /\ InOrder(t, kind)
      /\ Before(Ids(s, kind), Ids(t, kind))
  BY OrderOfConcat DEF Fate
<1>5. InOrder(w, kind)
  <2>1. Before(Ids(s, kind), Ids(x, kind)) /\ Before(Ids(x, kind), Ids(t, kind))
    BY DEF Before
  <2> QED BY <1>3, <1>4, <2>1, IdsOfThree
<1>6. Ids(w, kind) = Ids(v, kind)
  BY <1>1, <1>2
<1>7. Fate(kind, v, total, lost)
  OBVIOUS
<1> HIDE DEF w, v
<1>8. Fate(kind, w, total, lost)
  BY <1>5, <1>6, <1>7 DEF Fate
<1> QED BY <1>8 DEF w

(* Messages that are lost on purpose leave the others in order.            *)
LEMMA Lose ==
  ASSUME NEW s \in Seq(Message), NEW x \in Seq(Message), NEW t \in Seq(Message),
         NEW kind, NEW total, NEW lost, NEW lost2,
         Fate(kind, (s \o x) \o t, total, lost),
         lost \subseteq lost2, \A n \in Ids(x, kind) : <<kind, n>> \in lost2
  PROVE  Fate(kind, s \o t, total, lost2)
<1> DEFINE w == (s \o x) \o t
           v == s \o t
<1>1. Ids(w, kind) = Ids(s, kind) \cup Ids(x, kind) \cup Ids(t, kind)
  BY IdsOfThree
<1>2. Ids(v, kind) = Ids(s, kind) \cup Ids(t, kind)
  BY IdsOfConcat
<1>3. Fate(kind, w, total, lost)
  OBVIOUS
<1>4. InOrder(v, kind)
  <2>1. InOrder(w, kind)
    BY <1>3 DEF Fate
  <2>2. InOrder(s, kind) /\ InOrder(t, kind) /\ Before(Ids(s, kind), Ids(t, kind))
    BY <2>1, IdsOfThree
  <2> QED BY <2>2, OrderOfConcat
<1> HIDE DEF w, v
<1>5. Fate(kind, v, total, lost2)
  BY <1>1, <1>2, <1>3, <1>4 DEF Fate
<1> QED BY <1>5 DEF v

LEMMA IdsWithOne ==
  ASSUME NEW s \in Seq(Message), NEW m \in Message, NEW kind
  PROVE  /\ s \o <<m>> \in Seq(Message)
         /\ Ids(s \o <<m>>, kind) = Ids(s, kind) \cup (IF m.kind = kind THEN {m.id} ELSE {})
<1> DEFINE x == <<m>>
<1>1. x \in Seq(Message) /\ Ids(x, kind) = IF m.kind = kind THEN {m.id} ELSE {}
  BY IdsOfOne
<1> HIDE DEF x
<1>2. s \o x \in Seq(Message)
  BY <1>1, ConcatProperties
<1>3. Ids(s \o x, kind) = Ids(s, kind) \cup Ids(x, kind)
  BY <1>1, IdsOfConcat
<1> QED BY <1>1, <1>2, <1>3 DEF x

(* A new message, numbered after all the others, at the end.               *)
LEMMA Enqueue ==
  ASSUME NEW s \in Seq(Message), NEW m \in Message, NEW total \in Nat, NEW lost,
         m.id = total + 1, Fate(m.kind, s, total, lost)
  PROVE  Fate(m.kind, s \o <<m>>, total + 1, lost)
<1>1. /\ <<m>> \in Seq(Message) /\ InOrder(<<m>>, m.kind)
      /\ Ids(<<m>>, m.kind) = {total + 1}
  BY IdsOfOne
<1>2. Ids(s \o <<m>>, m.kind) = Ids(s, m.kind) \cup {total + 1}
  BY IdsWithOne
<1>3. \A n \in Ids(s, m.kind) : n \in Nat /\ n <= total
  <2>1. \A i \in 1..Len(s) : s[i] \in Message
    BY ElementOfSeq
  <2>2. \A n \in Ids(s, m.kind) : n \in Nat
    BY <2>1 DEF Ids, Message
  <2> QED BY <2>2 DEF Fate
<1>4. Before(Ids(s, m.kind), {total + 1})
  BY <1>3 DEF Before
<1>5. InOrder(s \o <<m>>, m.kind)
  <2>1. InOrder(s, m.kind) /\ Before(Ids(s, m.kind), Ids(<<m>>, m.kind))
    BY <1>1, <1>4 DEF Fate
  <2> QED BY <1>1, <2>1, OrderOfConcat
<1>6. \A n \in Ids(s \o <<m>>, m.kind) : n <= total + 1
  BY <1>2, <1>3
<1>7. ASSUME NEW n \in 1..(total + 1)
      PROVE  n \in Ids(s \o <<m>>, m.kind) \/ <<m.kind, n>> \in lost
  <2>1. n = total + 1 \/ n \in 1..total
    OBVIOUS
  <2> QED BY <1>2, <2>1 DEF Fate
<1> QED BY <1>5, <1>6, <1>7 DEF Fate

(* What is cleared is named in dropped.                                    *)
LEMMA LostByName ==
  ASSUME NEW s, NEW kind \in {"steer", "follow"}
  PROVE  \A n \in Ids(s, kind) : <<kind, n>> \in QueuedIn(s)
BY DEF Ids, QueuedIn

(* A poll takes a queue's head, or all of it, and leaves the rest.         *)
LEMMA PollSplits ==
  ASSUME NEW q \in Seq(Message), NEW mode
  PROVE  Drained(q, mode) \o Kept(q, mode) = q
<1>1. CASE mode = "all" \/ q = <<>>
  BY <1>1, ConcatEmptySeq DEF Drained, Kept
<1>2. CASE ~(mode = "all" \/ q = <<>>)
  <2>1. /\ <<>> \in Seq(Message) /\ Head(q) \in Message
        /\ Tail(q) \in Seq(Message) /\ <<Head(q)>> \in Seq(Message)
    BY <1>2, EmptySeq, HeadTailProperties
  <2>2. Append(<<>>, Head(q)) \o Tail(q) = <<>> \o q
    BY <1>2, <2>1, MoveHead
  <2>3. Append(<<>>, Head(q)) = <<Head(q)>>
    OBVIOUS
  <2>4. <<>> \o q = q
    BY ConcatEmptySeq
  <2> QED BY <1>2, <2>2, <2>3, <2>4 DEF Drained, Kept
<1> QED BY <1>1, <1>2

(* The moves of messages between transcript, pending and a queue.          *)
LEMMA HeadMoves ==
  ASSUME NEW a \in Seq(Message), NEW b \in Seq(Message), NEW c \in Seq(Message), b # <<>>
  PROVE  (Append(a, Head(b)) \o Tail(b)) \o c = (a \o b) \o c
<1>1. Append(a, Head(b)) \o Tail(b) = a \o b
  BY MoveHead
<1> QED BY <1>1

LEMMA OtherAppended ==
  ASSUME NEW a \in Seq(Message), NEW b \in Seq(Message), NEW c \in Seq(Message),
         NEW m \in Message, NEW kind, m.kind # kind, NEW total, NEW lost,
         Fate(kind, (a \o b) \o c, total, lost)
  PROVE  Fate(kind, (Append(a, m) \o b) \o c, total, lost)
<1>1. <<m>> \in Seq(Message) /\ Ids(<<m>>, kind) = {}
  BY IdsOfOne
<1>2. b \o c \in Seq(Message) /\ a \o <<m>> \in Seq(Message)
  <2>1. b \o c \in Seq(Message)
    BY ConcatProperties
  <2>2. a \o <<m>> \in Seq(Message)
    BY IdsWithOne
  <2> QED BY <2>1, <2>2
<1>3. (a \o b) \o c = a \o (b \o c)
  BY ConcatAssociative, SMTT(30)
<1>4. Fate(kind, (a \o <<m>>) \o (b \o c), total, lost)
  <2>1. Fate(kind, a \o (b \o c), total, lost)
    BY <1>3
  <2> QED BY <1>1, <1>2, <2>1, InsertOther
<1>5. ((a \o <<m>>) \o b) \o c = (a \o <<m>>) \o (b \o c)
  BY <1>2, ConcatAssociative, SMTT(30)
<1>6. Append(a, m) = a \o <<m>>
  BY AppendIsConcat
<1> QED BY <1>4, <1>5, <1>6

LEMMA PendingLost ==
  ASSUME NEW a \in Seq(Message), NEW b \in Seq(Message), NEW c \in Seq(Message),
         NEW kind \in {"steer", "follow"}, NEW total, NEW lost,
         Fate(kind, (a \o b) \o c, total, lost)
  PROVE  Fate(kind, (a \o <<>>) \o c, total, lost \cup QueuedIn(b))
<1>1. \A n \in Ids(b, kind) : <<kind, n>> \in lost \cup QueuedIn(b)
  BY LostByName
<1>2. Fate(kind, a \o c, total, lost \cup QueuedIn(b))
  BY <1>1, Lose
<1>3. a \o <<>> = a
  BY ConcatEmptySeq
<1> QED BY <1>2, <1>3

LEMMA QueueLost ==
  ASSUME NEW s \in Seq(Message), NEW c \in Seq(Message), NEW kind, NEW total, NEW lost,
         NEW lost2, Fate(kind, s \o c, total, lost),
         lost \subseteq lost2, \A n \in Ids(c, kind) : <<kind, n>> \in lost2
  PROVE  Fate(kind, s \o <<>>, total, lost2)
<1>1. <<>> \in Seq(Message) /\ s \o c \in Seq(Message)
  BY EmptySeq, ConcatProperties
<1>2. (s \o c) \o <<>> = s \o c
  BY <1>1, ConcatEmptySeq
<1>3. Fate(kind, (s \o c) \o <<>>, total, lost)
  BY <1>2
<1> QED BY <1>1, <1>3, Lose

LEMMA AllButPendingLost ==
  ASSUME NEW a \in Seq(Message), NEW b \in Seq(Message), NEW c \in Seq(Message),
         NEW kind, NEW total, NEW lost, NEW lost2, Fate(kind, (a \o b) \o c, total, lost),
         lost \subseteq lost2,
         \A n \in Ids(a, kind) \cup Ids(c, kind) : <<kind, n>> \in lost2
  PROVE  Fate(kind, (<<>> \o b) \o <<>>, total, lost2)
<1>1. <<>> \in Seq(Message) /\ b \o c \in Seq(Message)
  BY EmptySeq, ConcatProperties
<1>2. (<<>> \o a) \o (b \o c) = (a \o b) \o c
  BY <1>1, ConcatEmptySeq, ConcatAssociative, SMTT(30)
<1>3. Fate(kind, (<<>> \o a) \o (b \o c), total, lost)
  BY <1>2
<1>4. Fate(kind, <<>> \o (b \o c), total, lost2)
  BY <1>1, <1>3, Lose
<1>5. <<>> \o (b \o c) = b \o c /\ <<>> \o b = b
  BY <1>1, ConcatEmptySeq
<1>6. Fate(kind, b \o <<>>, total, lost2)
  <2>1. Fate(kind, b \o c, total, lost2)
    BY <1>4, <1>5
  <2> QED BY <2>1, QueueLost
<1> QED BY <1>5, <1>6

LEMMA Enqueued ==
  ASSUME NEW s \in Seq(Message), NEW c \in Seq(Message), NEW kind \in {"steer", "follow"},
         NEW total \in Nat, NEW lost, Fate(kind, s \o c, total, lost)
  PROVE  Fate(kind, s \o Append(c, QueuedMessage(kind, total + 1)), total + 1, lost)
<1> DEFINE m == QueuedMessage(kind, total + 1)
<1>1. m \in Message /\ m.kind = kind /\ m.id = total + 1
  BY DEF QueuedMessage, Message, Kinds
<1> HIDE DEF m
<1>2. <<m>> \in Seq(Message) /\ s \o c \in Seq(Message)
  BY <1>1, IdsOfOne, ConcatProperties
<1>3. Fate(kind, (s \o c) \o <<m>>, total + 1, lost)
  BY <1>1, <1>2, Enqueue
<1>4. (s \o c) \o <<m>> = s \o (c \o <<m>>)
  BY <1>2, ConcatAssociative
<1>5. Append(c, m) = c \o <<m>>
  BY <1>1, AppendIsConcat
<1> QED BY <1>3, <1>4, <1>5 DEF m

LEMMA OtherEnqueued ==
  ASSUME NEW c \in Seq(Message), NEW m \in Message, NEW kind, m.kind # kind,
         Ids(c, kind) = {}
  PROVE  Ids(Append(c, m), kind) = {}
<1>1. Ids(c \o <<m>>, kind) = Ids(c, kind) \cup {}
  BY IdsWithOne
<1>2. Append(c, m) = c \o <<m>>
  BY AppendIsConcat
<1> QED BY <1>1, <1>2

(* A poll of queue q, whose messages are of kind, while r waits.           *)
LEMMA Polled ==
  ASSUME NEW a \in Seq(Message), NEW q \in Seq(Message), NEW r \in Seq(Message), NEW mode,
         NEW kind, NEW other, NEW total, NEW number, NEW lost,
         Ids(q, other) = {},
         Fate(kind, (a \o <<>>) \o q, total, lost),
         Fate(other, (a \o <<>>) \o r, number, lost)
  PROVE  /\ Fate(kind, (a \o Drained(q, mode)) \o Kept(q, mode), total, lost)
         /\ Fate(other, (a \o Drained(q, mode)) \o r, number, lost)
         /\ Ids(Kept(q, mode), other) = {}
<1> DEFINE d == Drained(q, mode)
           k == Kept(q, mode)
<1>1. d \in Seq(Message) /\ k \in Seq(Message)
  BY DrainedAndKept
<1>2. d \o k = q
  BY PollSplits
<1> HIDE DEF d, k
<1>3. a \o <<>> = a
  BY ConcatEmptySeq
<1>4. Fate(kind, (a \o d) \o k, total, lost)
  <2>1. (a \o d) \o k = a \o (d \o k)
    BY <1>1, ConcatAssociative, SMTT(30)
  <2> QED BY <1>2, <1>3, <2>1
<1>5. Ids(d, other) = {} /\ Ids(k, other) = {}
  <2>1. Ids(d \o k, other) = Ids(d, other) \cup Ids(k, other)
    BY <1>1, IdsOfConcat
  <2> QED BY <1>2, <2>1
<1>6. Fate(other, (a \o d) \o r, number, lost)
  <2>1. Fate(other, a \o r, number, lost)
    BY <1>3
  <2> QED BY <1>1, <1>5, <2>1, InsertOther
<1> QED BY <1>4, <1>5, <1>6 DEF d, k

(* Nothing is pending when a poll replaces what is pending.                *)
Fates ==
  /\ Fate("steer", (transcript \o pending) \o steering, steers, dropped)
  /\ Fate("follow", (transcript \o pending) \o followUps, follows, dropped)
  /\ Ids(steering, "follow") = {}
  /\ Ids(followUps, "steer") = {}

Announced == pc \in {"idle", "streaming", "calls", "turnEnd"} => pending = <<>>

QueueInv == TypeInv /\ Fates /\ Announced

LEMMA QueueInit == Init => QueueInv
<1> SUFFICES ASSUME Init PROVE QueueInv
  OBVIOUS
<1>1. TypeInv
  BY TypeInit
<1>2. (<<>> \o <<>>) \o <<>> = <<>>
  <2>1. <<>> \in Seq(Message)
    BY EmptySeq
  <2> QED BY <2>1, ConcatEmptySeq
<1>3. \A kind, lost : Fate(kind, <<>>, 0, lost)
  BY IdsOfNone DEF Fate
<1>4. Fates
  BY <1>2, <1>3, IdsOfNone DEF Fates, Init
<1>5. Announced
  BY DEF Init, Announced
<1> QED BY <1>1, <1>4, <1>5 DEF QueueInv

(* The sequences are messages, before and after a step.                    *)
LEMMA QueueSeqs ==
  TypeInv => /\ transcript \in Seq(Message) /\ pending \in Seq(Message)
             /\ steering \in Seq(Message) /\ followUps \in Seq(Message)
             /\ transcript \o pending \in Seq(Message)
             /\ steers \in Nat /\ follows \in Nat
BY ConcatProperties DEF TypeInv, TypeOK

(* A poll of either queue, when nothing is pending.                        *)
LEMMA SteersPolled ==
  ASSUME TypeInv, Fates, pending = <<>>,
         pending' = Drained(steering, SteeringMode), steering' = Kept(steering, SteeringMode),
         UNCHANGED <<transcript, followUps, steers, follows, dropped>>
  PROVE  Fates'
<1>1. /\ Ids(steering, "follow") = {}
      /\ Ids(followUps, "steer") = {}
      /\ Fate("steer", (transcript \o <<>>) \o steering, steers, dropped)
      /\ Fate("follow", (transcript \o <<>>) \o followUps, follows, dropped)
  BY DEF Fates
<1>2. /\ transcript \in Seq(Message) /\ steering \in Seq(Message) /\ followUps \in Seq(Message)
  BY QueueSeqs
<1>3. /\ Fate("steer", (transcript \o Drained(steering, SteeringMode))
                         \o Kept(steering, SteeringMode), steers, dropped)
      /\ Fate("follow", (transcript \o Drained(steering, SteeringMode)) \o followUps,
              follows, dropped)
      /\ Ids(Kept(steering, SteeringMode), "follow") = {}
  BY <1>1, <1>2, Polled
<1> QED BY <1>1, <1>3 DEF Fates

LEMMA FollowUpsPolled ==
  ASSUME TypeInv, Fates, pending = <<>>,
         pending' = Drained(followUps, FollowUpMode), followUps' = Kept(followUps, FollowUpMode),
         UNCHANGED <<transcript, steering, steers, follows, dropped>>
  PROVE  Fates'
<1>1. /\ Ids(steering, "follow") = {}
      /\ Ids(followUps, "steer") = {}
      /\ Fate("steer", (transcript \o <<>>) \o steering, steers, dropped)
      /\ Fate("follow", (transcript \o <<>>) \o followUps, follows, dropped)
  BY DEF Fates
<1>2. /\ transcript \in Seq(Message) /\ steering \in Seq(Message) /\ followUps \in Seq(Message)
  BY QueueSeqs
<1>3. /\ Fate("follow", (transcript \o Drained(followUps, FollowUpMode))
                          \o Kept(followUps, FollowUpMode), follows, dropped)
      /\ Fate("steer", (transcript \o Drained(followUps, FollowUpMode)) \o steering,
              steers, dropped)
      /\ Ids(Kept(followUps, FollowUpMode), "steer") = {}
  BY <1>1, <1>2, Polled
<1> QED BY <1>1, <1>3 DEF Fates

(* The loop's own messages are of another kind.                            *)
LEMMA OwnAppended ==
  ASSUME TypeInv, Fates, NEW m \in Message, m.kind \notin {"steer", "follow"},
         transcript' = Append(transcript, m),
         UNCHANGED <<pending, steering, followUps, steers, follows, dropped>>
  PROVE  Fates'
<1>1. Fate("steer", (Append(transcript, m) \o pending) \o steering, steers, dropped)
  BY QueueSeqs, OtherAppended DEF Fates
<1>2. Fate("follow", (Append(transcript, m) \o pending) \o followUps, follows, dropped)
  BY QueueSeqs, OtherAppended DEF Fates
<1> QED BY <1>1, <1>2 DEF Fates

(* A message that was pending is announced.                                *)
LEMMA HeadAnnounced ==
  ASSUME TypeInv, Fates, pending # <<>>, transcript' = Append(transcript, Head(pending)),
         pending' = Tail(pending),
         UNCHANGED <<steering, followUps, steers, follows, dropped>>
  PROVE  Fates'
<1>1. \A q \in Seq(Message) :
        (Append(transcript, Head(pending)) \o Tail(pending)) \o q = (transcript \o pending) \o q
  <2>1. transcript \in Seq(Message) /\ pending \in Seq(Message)
    BY QueueSeqs
  <2> QED BY <2>1, HeadMoves
<1> QED BY <1>1, QueueSeqs DEF Fates

(* A run that ends drops what it has not announced.                        *)
LEMMA RunDropsPending ==
  ASSUME TypeInv, Fates, LoopEnds
  PROVE  /\ Fate("steer", (transcript \o pending') \o steering, steers, dropped')
         /\ Fate("follow", (transcript \o pending') \o followUps, follows, dropped')
<1>1. pending' = <<>> /\ dropped' = dropped \cup QueuedIn(pending)
  BY DEF LoopEnds
<1>2. /\ Fate("steer", (transcript \o <<>>) \o steering, steers, dropped \cup QueuedIn(pending))
      /\ Fate("follow", (transcript \o <<>>) \o followUps, follows,
              dropped \cup QueuedIn(pending))
  BY QueueSeqs, PendingLost DEF Fates
<1> QED BY <1>1, <1>2

LEMMA FatesStep == QueueInv /\ [Next]_vars => Fates'
<1> SUFFICES ASSUME QueueInv, [Next]_vars PROVE Fates'
  OBVIOUS
<1>0. TypeInv /\ Fates /\ Announced
  BY DEF QueueInv
<1>a. /\ transcript \in Seq(Message) /\ pending \in Seq(Message)
      /\ steering \in Seq(Message) /\ followUps \in Seq(Message)
      /\ transcript \o pending \in Seq(Message)
      /\ steers \in Nat /\ follows \in Nat
  BY <1>0, QueueSeqs
<1>1. CASE Steer
  <2> DEFINE m == QueuedMessage("steer", steers + 1)
  <2>1. Fate("steer", (transcript \o pending) \o Append(steering, m), steers + 1, dropped)
    BY <1>0, <1>a, Enqueued DEF Fates
  <2>2. m \in Message /\ m.kind # "follow"
    BY <1>a DEF QueuedMessage, Message, Kinds
  <2> HIDE DEF m
  <2>3. Ids(Append(steering, m), "follow") = {}
    BY <1>0, <1>a, <2>2, OtherEnqueued DEF Fates
  <2>4. /\ steering' = Append(steering, m) /\ steers' = steers + 1
        /\ UNCHANGED <<transcript, followUps, pending, follows, dropped>>
    BY <1>1 DEF Steer, m
  <2> QED BY <1>0, <2>1, <2>3, <2>4 DEF Fates
<1>2. CASE FollowUp
  <2> DEFINE m == QueuedMessage("follow", follows + 1)
  <2>1. Fate("follow", (transcript \o pending) \o Append(followUps, m), follows + 1, dropped)
    BY <1>0, <1>a, Enqueued DEF Fates
  <2>2. m \in Message /\ m.kind # "steer"
    BY <1>a DEF QueuedMessage, Message, Kinds
  <2> HIDE DEF m
  <2>3. Ids(Append(followUps, m), "steer") = {}
    BY <1>0, <1>a, <2>2, OtherEnqueued DEF Fates
  <2>4. /\ followUps' = Append(followUps, m) /\ follows' = follows + 1
        /\ UNCHANGED <<transcript, steering, pending, steers, dropped>>
    BY <1>2 DEF FollowUp, m
  <2> QED BY <1>0, <2>1, <2>3, <2>4 DEF Fates
<1>3. CASE ClearAllQueues
  <2>1. /\ steering' = <<>> /\ followUps' = <<>>
        /\ dropped' = dropped \cup QueuedIn(steering \o followUps)
        /\ UNCHANGED <<transcript, pending, steers, follows>>
    BY <1>3 DEF ClearAllQueues, numbers
  <2>2. \A kind \in {"steer", "follow"} :
          \A n \in Ids(steering, kind) \cup Ids(followUps, kind) : <<kind, n>> \in dropped'
    <3> SUFFICES ASSUME NEW kind \in {"steer", "follow"},
                        NEW n \in Ids(steering, kind) \cup Ids(followUps, kind)
                 PROVE  <<kind, n>> \in dropped'
      OBVIOUS
    <3>1. n \in Ids(steering \o followUps, kind)
      BY <1>a, IdsOfConcat
    <3> QED BY <2>1, <3>1, LostByName
  <2>3. Fate("steer", (transcript \o pending) \o <<>>, steers, dropped')
    BY <1>0, <1>a, <2>1, <2>2, QueueLost DEF Fates
  <2>4. Fate("follow", (transcript \o pending) \o <<>>, follows, dropped')
    BY <1>0, <1>a, <2>1, <2>2, QueueLost DEF Fates
  <2> QED BY <2>1, <2>3, <2>4, IdsOfNone DEF Fates
<1>4. CASE Reset
  <2>1. /\ transcript' = <<>> /\ steering' = <<>> /\ followUps' = <<>>
        /\ dropped' = dropped \cup QueuedIn((transcript \o steering) \o followUps)
        /\ UNCHANGED <<pending, steers, follows>>
    BY <1>4 DEF Reset, numbers
  <2>2. \A kind \in {"steer", "follow"} :
          \A n \in Ids(transcript, kind) \cup Ids(steering, kind) \cup Ids(followUps, kind) :
            <<kind, n>> \in dropped'
    <3> SUFFICES ASSUME NEW kind \in {"steer", "follow"},
                        NEW n \in Ids(transcript, kind) \cup Ids(steering, kind)
                                    \cup Ids(followUps, kind)
                 PROVE  <<kind, n>> \in dropped'
      OBVIOUS
    <3>1. n \in Ids((transcript \o steering) \o followUps, kind)
      BY <1>a, IdsOfThree
    <3> QED BY <2>1, <3>1, LostByName
  <2>3. Fate("steer", (<<>> \o pending) \o <<>>, steers, dropped')
    BY <1>0, <1>a, <2>1, <2>2, AllButPendingLost DEF Fates
  <2>4. Fate("follow", (<<>> \o pending) \o <<>>, follows, dropped')
    BY <1>0, <1>a, <2>1, <2>2, AllButPendingLost DEF Fates
  <2> QED BY <2>1, <2>3, <2>4, IdsOfNone DEF Fates
<1>5. CASE Prompt
  <2> DEFINE m == PromptMessage(runs + 1)
  <2>1. m \in Message /\ m.kind = "prompt"
    <3>1. runs + 1 \in Nat
      BY <1>0 DEF TypeInv, TypeOK
    <3> QED BY <3>1 DEF PromptMessage, Message, Kinds
  <2> HIDE DEF m
  <2>2. /\ pending = <<>> /\ pending' = <<m>>
        /\ UNCHANGED <<transcript, steering, followUps, steers, follows, dropped>>
    BY <1>0, <1>5 DEF Prompt, Begin, Active, Announced, queues, m
  <2>3. /\ <<m>> \in Seq(Message)
        /\ Ids(<<m>>, "steer") = {} /\ Ids(<<m>>, "follow") = {}
    BY <2>1, IdsOfOne
  <2>4. transcript \o <<>> = transcript
    BY <1>a, ConcatEmptySeq
  <2>5. /\ Fate("steer", transcript \o steering, steers, dropped)
        /\ Fate("follow", transcript \o followUps, follows, dropped)
    BY <1>0, <2>2, <2>4 DEF Fates
  <2>6. /\ Fate("steer", (transcript \o <<m>>) \o steering, steers, dropped)
        /\ Fate("follow", (transcript \o <<m>>) \o followUps, follows, dropped)
    BY <1>a, <2>3, <2>5, InsertOther
  <2> QED BY <1>0, <2>2, <2>6 DEF Fates
<1>6. CASE ContinueRun
  <2>1. pending = <<>>
    BY <1>0, <1>6 DEF ContinueRun, Active, Announced
  <2>2. CASE Begin(<<>>, FALSE) /\ UNCHANGED queues
    BY <1>0, <2>1, <2>2 DEF Begin, queues, Fates
  <2>3. CASE /\ Begin(Drained(steering, SteeringMode), TRUE)
             /\ steering' = Kept(steering, SteeringMode) /\ UNCHANGED followUps
    BY <1>0, <2>1, <2>3, SteersPolled DEF Begin
  <2>4. CASE /\ Begin(Drained(followUps, FollowUpMode), FALSE)
             /\ followUps' = Kept(followUps, FollowUpMode) /\ UNCHANGED steering
    BY <1>0, <2>1, <2>4, FollowUpsPolled DEF Begin
  <2> QED BY <1>6, <2>2, <2>3, <2>4 DEF ContinueRun
<1>7. CASE Announce \/ Inject
  BY <1>0, <1>7, HeadAnnounced DEF Announce, Inject, queues, numbers
<1>8. CASE FirstPoll
  <2>1. CASE skipPoll
    BY <1>0, <1>8, <2>1 DEF FirstPoll, Fates, numbers
  <2>2. CASE ~skipPoll
    <3>1. /\ pending = <<>> /\ pending' = Drained(steering, SteeringMode)
          /\ steering' = Kept(steering, SteeringMode)
          /\ UNCHANGED <<transcript, followUps, steers, follows, dropped>>
      BY <1>8, <2>2 DEF FirstPoll, numbers
    <3> QED BY <1>0, <3>1, SteersPolled
  <2> QED BY <2>1, <2>2
<1>9. ASSUME NEW k \in 0..MaxCalls, NEW reason \in {"stop", "length", "error"}, Reply(reason, k)
      PROVE  Fates'
  <2> DEFINE m == AssistantMessage(replies + 1, k)
  <2>1. k \in Nat /\ replies + 1 \in Nat
    <3>1. replies \in Nat
      BY <1>0 DEF TypeInv, TypeOK
    <3>2. MaxCalls \in Nat
      BY AgentAssumption
    <3> QED BY <3>1, <3>2
  <2>2. m \in Message /\ m.kind = "assistant"
    BY <1>0, <2>1, Constructors DEF AssistantMessage, TypeInv
  <2> HIDE DEF m
  <2>3. /\ transcript' = Append(transcript, m)
        /\ UNCHANGED <<pending, steering, followUps, steers, follows, dropped>>
    BY <1>9 DEF Reply, queues, m
  <2> QED BY <1>0, <2>2, <2>3, OwnAppended
<1>10. CASE Report
  <2> DEFINE m == ToolResult(replies, Len(calls) - (reported + 1))
  <2>1. Len(calls) - (reported + 1) \in Nat /\ replies \in Nat
    BY <1>0, <1>10, LenProperties DEF Report, TypeInv, TypeOK
  <2>2. m \in Message /\ m.kind = "result"
    BY <1>0, <2>1, Constructors DEF ToolResult, TypeInv
  <2> HIDE DEF m
  <2>3. /\ transcript' = Append(transcript, m)
        /\ UNCHANGED <<pending, steering, followUps, steers, follows, dropped>>
    BY <1>10 DEF Report, queues, numbers, m
  <2> QED BY <1>0, <2>2, <2>3, OwnAppended
<1>11. CASE EndTurn
  <2>1. pending = <<>> /\ UNCHANGED <<transcript, steers, follows, dropped>>
    BY <1>0, <1>11 DEF EndTurn, Announced, numbers
  <2>2. CASE /\ NextTurn(Drained(steering, SteeringMode))
             /\ steering' = Kept(steering, SteeringMode) /\ UNCHANGED followUps
    BY <1>0, <2>1, <2>2, SteersPolled DEF NextTurn
  <2>3. CASE /\ NextTurn(Drained(followUps, FollowUpMode))
             /\ followUps' = Kept(followUps, FollowUpMode) /\ UNCHANGED steering
    BY <1>0, <2>1, <2>3, FollowUpsPolled DEF NextTurn
  <2>4. CASE UNCHANGED <<queues, pending, more>>
    BY <1>0, <2>1, <2>4 DEF queues, Fates
  <2> QED BY <1>11, <2>2, <2>3, <2>4 DEF EndTurn
<1>12. CASE End \/ Cut
  <2>1. LoopEnds /\ UNCHANGED <<transcript, steering, followUps, steers, follows>>
    BY <1>12 DEF End, Cut, Finish, queues, numbers
  <2> QED BY <1>0, <2>1, RunDropsPending DEF Fates
<1>13. CASE Fail
  <2>1. /\ LoopEnds /\ transcript' = Append(transcript, FailureMessage)
        /\ UNCHANGED <<steering, followUps, steers, follows>>
    BY <1>13 DEF Fail, queues, numbers
  <2>2. FailureMessage \in Message /\ FailureMessage.kind = "failure"
    BY <1>0 DEF FailureMessage, Message, Kinds, TypeInv, TypeOK
  <2>3. /\ Fate("steer", (transcript \o pending') \o steering, steers, dropped')
        /\ Fate("follow", (transcript \o pending') \o followUps, follows, dropped')
    BY <1>0, <2>1, RunDropsPending
  <2>4. pending' \in Seq(Message)
    BY <2>1, EmptySeq DEF LoopEnds
  <2>5. Fate("steer", (Append(transcript, FailureMessage) \o pending') \o steering,
             steers, dropped')
    BY <1>a, <2>2, <2>3, <2>4, OtherAppended
  <2>6. Fate("follow", (Append(transcript, FailureMessage) \o pending') \o followUps,
             follows, dropped')
    BY <1>a, <2>2, <2>3, <2>4, OtherAppended
  <2> QED BY <1>0, <2>1, <2>5, <2>6 DEF Fates
<1>14. CASE \/ Abort \/ StartStream \/ UNCHANGED vars
            \/ \E i \in DOMAIN calls : Refuse(i) \/ Execute(i) \/ Executed(i)
  <2>1. UNCHANGED <<transcript, pending, steering, followUps, steers, follows, dropped>>
    BY <1>14 DEF Abort, StartStream, vars, Refuse, Execute, Executed, queues, numbers
  <2> QED BY <1>0, <2>1 DEF Fates
<1> QED
  BY <1>1, <1>2, <1>3, <1>4, <1>5, <1>6, <1>7, <1>8, <1>9, <1>10, <1>11, <1>12, <1>13, <1>14
     DEF Next, User, Advance

LEMMA AnnouncedStep == QueueInv /\ [Next]_vars => Announced'
<1> SUFFICES ASSUME QueueInv, [Next]_vars PROVE Announced'
  OBVIOUS
<1> USE DEF QueueInv, Announced
<1>1. CASE \/ Steer \/ FollowUp \/ ClearAllQueues \/ Reset \/ Abort \/ UNCHANGED vars
           \/ \E i \in DOMAIN calls : Refuse(i) \/ Execute(i) \/ Executed(i)
  BY <1>1 DEF Steer, FollowUp, ClearAllQueues, Reset, Abort, vars, Refuse, Execute, Executed
<1>2. CASE Prompt \/ ContinueRun
  BY <1>2 DEF Prompt, ContinueRun, Begin
<1>3. CASE Announce \/ FirstPoll \/ Inject \/ StartStream
  BY <1>3 DEF Announce, FirstPoll, Inject, StartStream
<1>4. CASE \E k \in 0..MaxCalls, reason \in {"stop", "length", "error"} : Reply(reason, k)
  BY <1>4 DEF Reply
<1>5. CASE Report
  BY <1>5 DEF Report
<1>6. CASE EndTurn
  BY <1>6 DEF EndTurn, NextTurn
<1>7. CASE End \/ Fail \/ Cut
  BY <1>7 DEF End, Fail, Cut, Finish, LoopEnds
<1> QED BY <1>1, <1>2, <1>3, <1>4, <1>5, <1>6, <1>7 DEF Next, User, Advance

(* steer() and follow_up(): through any sequence of polls, runs, failures, *)
(* cancellations and continuations, in both queue modes, every queued      *)
(* message is delivered at most once, in the order it was queued, or still *)
(* on its way, or was cleared, reset or lost with the run that held it.    *)
THEOREM QueuedAlwaysDelivered == Spec => []QueuedDelivered
<1>1. QueueInv => QueuedDelivered
  <2> SUFFICES ASSUME QueueInv PROVE QueuedDelivered
    OBVIOUS
  <2>1. TypeInv /\ Fates
    BY DEF QueueInv
  <2>2. QueuedOnceInOrder
    BY <2>1 DEF Fates, Fate, QueuedOnceInOrder
  <2> DEFINE all == ((transcript \o pending) \o steering) \o followUps
  <2>3. \A kind : Ids(all, kind) = Ids(transcript, kind) \cup Ids(pending, kind)
                                     \cup Ids(steering, kind) \cup Ids(followUps, kind)
    <3> TAKE kind
    <3> DEFINE w == (transcript \o pending) \o steering
    <3>1. w \in Seq(Message)
      BY <2>1, QueueSeqs, ConcatProperties
    <3>2. Ids(w, kind) = Ids(transcript, kind) \cup Ids(pending, kind) \cup Ids(steering, kind)
      BY <2>1, QueueSeqs, IdsOfThree
    <3> HIDE DEF w
    <3>3. Ids(w \o followUps, kind) = Ids(w, kind) \cup Ids(followUps, kind)
      BY <2>1, <3>1, QueueSeqs, IdsOfConcat
    <3>4. Ids(w \o followUps, kind) = Ids(transcript, kind) \cup Ids(pending, kind)
                                       \cup Ids(steering, kind) \cup Ids(followUps, kind)
      BY <3>2, <3>3
    <3> QED BY <3>4 DEF w
  <2> HIDE DEF all
  <2>4. ASSUME NEW n \in 1..steers PROVE <<"steer", n>> \in QueuedIn(all) \cup dropped
    <3>1. \/ n \in Ids((transcript \o pending) \o steering, "steer")
          \/ <<"steer", n>> \in dropped
      BY <2>1 DEF Fates, Fate
    <3>2. Ids((transcript \o pending) \o steering, "steer")
            = Ids(transcript, "steer") \cup Ids(pending, "steer") \cup Ids(steering, "steer")
      BY <2>1, QueueSeqs, IdsOfThree
    <3>3. n \in Ids(all, "steer") \/ <<"steer", n>> \in dropped
      BY <2>3, <3>1, <3>2
    <3> QED BY <3>3, LostByName
  <2>5. ASSUME NEW n \in 1..follows PROVE <<"follow", n>> \in QueuedIn(all) \cup dropped
    <3>1. \/ n \in Ids((transcript \o pending) \o followUps, "follow")
          \/ <<"follow", n>> \in dropped
      BY <2>1 DEF Fates, Fate
    <3>2. Ids((transcript \o pending) \o followUps, "follow")
            = Ids(transcript, "follow") \cup Ids(pending, "follow") \cup Ids(followUps, "follow")
      BY <2>1, QueueSeqs, IdsOfThree
    <3>3. n \in Ids(all, "follow") \/ <<"follow", n>> \in dropped
      BY <2>3, <3>1, <3>2
    <3> QED BY <3>3, LostByName
  <2>6. NothingLost
    BY <2>4, <2>5 DEF NothingLost, all
  <2> QED BY <2>2, <2>6 DEF QueuedDelivered
<1>2. QueueInv /\ [Next]_vars => QueueInv'
  BY TypeStep, FatesStep, AnnouncedStep DEF QueueInv
<1> QED BY <1>1, <1>2, QueueInit, PTL DEF Spec

=============================================================================
