------------------------- MODULE AgentSessionProofs -------------------------
(***************************************************************************)
(* Theorems of the agent session, for every window, turn limit, batch size *)
(* and number of prompts and steers.                                       *)
(***************************************************************************)
EXTENDS AgentSessionHistory, SequenceTheorems, TLAPS

(* Between the head of the loop and the end of the turn the loop index is  *)
(* below its limit.                                                        *)
TurnBelowLimit ==
  pc \in {"turnStart", "streaming", "calling", "executing", "turnEnd"}
    => turn < MaxTurns

(* While a batch runs, calls of it are left.                               *)
BatchLeft == pc \in {"calling", "executing"} => batch > 0

TypeInv == TypeOK /\ TurnBelowLimit /\ BatchLeft

(***************************************************************************)
(* Lemmas on the helpers.                                                  *)
(***************************************************************************)

(* Compaction returns the transcript or a summary and the last MaxMessages *)
(* messages of it.                                                         *)
LEMMA CompactedShape ==
  ASSUME NEW s \in Seq(Message)
  PROVE  /\ Compacted(s) \in Seq(Message)
         /\ Len(s) <= MaxMessages => Compacted(s) = s
         /\ Len(s) > MaxMessages =>
              /\ Len(Compacted(s)) = MaxMessages + 1
              /\ Compacted(s)[1] = Summary(Len(s) - MaxMessages)
              /\ \A i \in 2..(MaxMessages + 1) :
                   Compacted(s)[i] = s[Len(s) - MaxMessages + i - 1]
<1>1. CASE Len(s) <= MaxMessages
  BY <1>1, SessionAssumption DEF Compacted
<1>2. CASE Len(s) > MaxMessages
  <2> DEFINE kept == SubSeq(s, Len(s) - MaxMessages + 1, Len(s))
             head == <<Summary(Len(s) - MaxMessages)>>
  <2>1. Summary(Len(s) - MaxMessages) \in Message
    BY <1>2, SessionAssumption DEF Summary, Message, Roles
  <2>2. head \in Seq(Message) /\ Len(head) = 1 /\ head[1] = Summary(Len(s) - MaxMessages)
    BY <2>1
  <2>3. /\ kept \in Seq(Message)
        /\ Len(kept) = MaxMessages
        /\ \A i \in 1..MaxMessages : kept[i] = s[Len(s) - MaxMessages + i]
    BY <1>2, SessionAssumption, SubSeqProperties
  <2>4. Compacted(s) = head \o kept
    BY <1>2, SessionAssumption DEF Compacted
  <2> HIDE DEF kept, head
  <2>5. /\ head \o kept \in Seq(Message)
        /\ Len(head \o kept) = MaxMessages + 1
        /\ \A i \in 1..(MaxMessages + 1) :
             (head \o kept)[i] = IF i <= 1 THEN head[i] ELSE kept[i - 1]
    <3>1. /\ head \o kept \in Seq(Message)
          /\ Len(head \o kept) = Len(head) + Len(kept)
          /\ \A i \in 1..(Len(head) + Len(kept)) :
               (head \o kept)[i] = IF i <= Len(head) THEN head[i]
                                  ELSE kept[i - Len(head)]
      BY <2>2, <2>3, ConcatProperties
    <3>2. Len(head) + Len(kept) = MaxMessages + 1
      BY <2>2, <2>3, SessionAssumption
    <3> QED BY <2>2, <3>1, <3>2
  <2>6. \A i \in 2..(MaxMessages + 1) :
           (head \o kept)[i] = s[Len(s) - MaxMessages + i - 1]
    <3> TAKE i \in 2..(MaxMessages + 1)
    <3>1. (head \o kept)[i] = kept[i - 1]
      BY <2>5, SessionAssumption
    <3>2. i - 1 \in 1..MaxMessages
      BY SessionAssumption
    <3>3. kept[i - 1] = s[Len(s) - MaxMessages + (i - 1)]
      BY <2>3, <3>2
    <3> QED BY <3>1, <3>3, SessionAssumption
  <2>7. (head \o kept)[1] = Summary(Len(s) - MaxMessages)
    BY <2>2, <2>5, SessionAssumption
  <2>8. ~(Len(s) <= MaxMessages)
    BY <1>2, SessionAssumption
  <2> QED BY <2>4, <2>5, <2>6, <2>7, <2>8
<1> QED BY <1>1, <1>2, SessionAssumption

(* Delivery appends one steer message per queued steer and nothing else.   *)
LEMMA DeliveredShape ==
  ASSUME TypeOK
  PROVE  LET d == Delivered(Drained) IN
         /\ d \in Seq(Message)
         /\ \A i \in 1..Len(d) : d[i].role = "steer" /\ d[i].left = 0
<1> DEFINE d == Delivered(Drained)
<1>1. /\ Len(pendingSteer) \in Nat
      /\ \A i \in 1..Len(pendingSteer) : pendingSteer[i] \in Nat
  BY DEF TypeOK
<1>2. \A i \in 1..Len(pendingSteer) : SteerMessage(pendingSteer[i]) \in Message
  BY <1>1 DEF SteerMessage, Message, Roles
<1>3. d \in [1..Len(pendingSteer) -> Message]
  BY <1>1, <1>2 DEF Delivered, Drained
<1>4. \A i \in 1..Len(pendingSteer) : d[i] = SteerMessage(pendingSteer[i])
  BY <1>1 DEF Delivered, Drained
<1> HIDE DEF d
<1>5. d \in Seq(Message)
  BY <1>1, <1>3, SeqDef
<1>6. Len(d) = Len(pendingSteer)
  BY <1>1, <1>3, <1>5, LenProperties
<1>7. \A i \in 1..Len(d) : d[i].role = "steer" /\ d[i].left = 0
  <2> TAKE i \in 1..Len(d)
  <2>1. d[i] = SteerMessage(pendingSteer[i])
    BY <1>4, <1>6
  <2> QED BY <2>1 DEF SteerMessage
<1> QED BY <1>5, <1>7 DEF d

(***************************************************************************)
(* The type invariant.                                                     *)
(***************************************************************************)

LEMMA MessageTypes ==
  ASSUME NEW n \in Nat, NEW k \in Nat
  PROVE  /\ UserMessage(n) \in Message
         /\ AssistantMessage(n, k) \in Message
         /\ ToolResultMessage(n, k) \in Message
BY DEF UserMessage, AssistantMessage, ToolResultMessage, Message, Roles

LEMMA TypeInit == Init => TypeInv
<1> SUFFICES ASSUME Init PROVE TypeInv
  OBVIOUS
<1>1. messages \in Seq(Message) /\ pendingSteer \in Seq(Nat)
  BY EmptySeq DEF Init
<1>2. stopRequested \in BOOLEAN /\ model \in Models
  BY DEF Init
<1>3. /\ turn \in 0..MaxTurns
      /\ batch \in Nat
      /\ prompts \in Nat /\ steers \in Nat /\ replies \in Nat
  BY SessionAssumption DEF Init
<1>4. pc = "idle" /\ pc \in Stages /\ result \in Results
  BY DEF Init, Stages, Results, Finals
<1> QED BY <1>1, <1>2, <1>3, <1>4 DEF TypeInv, TypeOK, TurnBelowLimit, BatchLeft

LEMMA TypeStep == TypeInv /\ [Next]_vars => TypeInv'
<1> SUFFICES ASSUME TypeInv, [Next]_vars PROVE TypeInv'
  OBVIOUS
<1> USE SessionAssumption DEF TypeInv, TypeOK, TurnBelowLimit, BatchLeft, Stages, Results, Finals
<1>1. CASE QueueSteerMessage
  BY <1>1 DEF QueueSteerMessage
<1>2. CASE RequestStop
  BY <1>2 DEF RequestStop
<1>3. ASSUME NEW m \in Models, SetModel(m) PROVE TypeInv'
  BY <1>3 DEF SetModel
<1>4. CASE Prompt
  BY <1>4 DEF Prompt
<1>5. CASE MemoriesRecalled
  BY <1>5, MessageTypes DEF MemoriesRecalled
<1>6. CASE AgentStarted
  BY <1>6 DEF AgentStarted
<1>7. CASE StopAtHead
  BY <1>7 DEF StopAtHead
<1>8. CASE BeginTurn
  <2>1. Delivered(Drained) \in Seq(Message)
    BY DeliveredShape
  <2>2. messages' \in Seq(Message)
    BY <1>8, <2>1, ConcatProperties DEF BeginTurn
  <2>3. pendingSteer' \in Seq(Nat)
    BY <1>8, SubSeqProperties DEF BeginTurn, Drained
  <2> QED BY <1>8, <2>2, <2>3 DEF BeginTurn, MayBeginTurn
<1>9. CASE TurnsExhausted
  BY <1>9 DEF TurnsExhausted
<1>10. CASE StartStream
  BY <1>10, CompactedShape DEF StartStream
<1>11. CASE NoResponse
  BY <1>11 DEF NoResponse
<1>12. CASE StreamRaised
  BY <1>12 DEF StreamRaised
<1>13. ASSUME NEW k \in 0..MaxCalls, NEW r \in Finals, FinalReply(r, k) PROVE TypeInv'
  BY <1>13, MessageTypes DEF FinalReply
<1>14. ASSUME NEW k \in 0..MaxCalls, ToolUseReply(k) PROVE TypeInv'
  BY <1>14, MessageTypes DEF ToolUseReply
<1>15. ASSUME AnswerCall, pc \in {"calling", "executing"} PROVE TypeInv'
  <2>1. batch - 1 \in Nat
    BY <1>15
  <2> QED BY <1>15, <2>1, MessageTypes DEF AnswerCall, AfterCall
<1>16. CASE RefuseCall
  BY <1>15, <1>16 DEF RefuseCall
<1>17. CASE ExecuteCall
  BY <1>17 DEF ExecuteCall
<1>18. CASE CallExecuted
  BY <1>15, <1>18 DEF CallExecuted
<1>19. CASE CallRaised
  BY <1>19 DEF CallRaised
<1>20. CASE EndTurn
  BY <1>20 DEF EndTurn
<1>21. CASE Return
  BY <1>21 DEF Return
<1>22. CASE UNCHANGED vars
  BY <1>22 DEF vars
<1> QED
  BY <1>1, <1>2, <1>3, <1>4, <1>5, <1>6, <1>7, <1>8, <1>9, <1>10, <1>11, <1>12,
     <1>13, <1>14, <1>16, <1>17, <1>18, <1>19, <1>20, <1>21, <1>22
     DEF Next, User, Advance

(* The state of a session keeps its type in every behaviour.               *)
THEOREM TypeCorrect == Spec => []TypeOK
<1>1. TypeInv => TypeOK
  BY DEF TypeInv
<1> QED BY <1>1, TypeInit, TypeStep, PTL DEF Spec

(***************************************************************************)
(* The transcript invariant.  Paired(s) is what ResultsFollowCalls and     *)
(* UnansweredOnlyWhenPromptEnded say of a transcript s; NextAnswer says    *)
(* how the end of the transcript stands to the batch that is running.      *)
(***************************************************************************)
Paired(s) ==
  /\ \A i \in 1..Len(s) :
       s[i].role = "result" =>
         /\ i > 1
         /\ Answers(s[i], s[i - 1]) \/ s[i - 1].role = "summary"
  /\ \A i \in 1..(Len(s) - 1) :
       s[i].left > 0 => Answers(s[i + 1], s[i]) \/ s[i + 1].role = "user"

Settled == messages # <<>> /\ messages[Len(messages)].left = 0

NextAnswer ==
  /\ pc \in {"starting", "head", "turnStart", "streaming"} => Settled
  /\ pc = "turnEnd" /\ result = "none" => Settled
  /\ pc \in {"calling", "executing"} =>
       /\ messages # <<>>
       /\ messages[Len(messages)].id = replies
       /\ messages[Len(messages)].left = batch

TranscriptInv == TypeInv /\ Paired(messages) /\ NextAnswer

(* Appending keeps a transcript paired if the message is the answer that   *)
(* is due, or is no result and no answer is due before it.                 *)
LEMMA AppendPaired ==
  ASSUME NEW s \in Seq(Message), NEW m \in Message, Paired(s),
         m.role = "result" => s # <<>> /\ Answers(m, s[Len(s)]),
         s # <<>> /\ s[Len(s)].left > 0 =>
           Answers(m, s[Len(s)]) \/ m.role = "user"
  PROVE  Paired(Append(s, m))
<1> DEFINE t == Append(s, m)
<1>1. /\ Len(s) \in Nat
      /\ Len(t) = Len(s) + 1
      /\ t[Len(s) + 1] = m
      /\ \A i \in 1..Len(s) : t[i] = s[i]
  OBVIOUS
<1>2. s # <<>> <=> Len(s) > 0
  OBVIOUS
<1> HIDE DEF t
<1>3. ASSUME NEW i \in 1..Len(t), t[i].role = "result"
      PROVE  i > 1 /\ (Answers(t[i], t[i - 1]) \/ t[i - 1].role = "summary")
  <2>1. CASE i <= Len(s)
    <3>1. i \in 1..Len(s) /\ t[i] = s[i]
      BY <1>1, <2>1
    <3>2. i > 1 /\ (Answers(s[i], s[i - 1]) \/ s[i - 1].role = "summary")
      BY <1>3, <3>1 DEF Paired
    <3>3. t[i - 1] = s[i - 1]
      BY <1>1, <3>1, <3>2
    <3> QED BY <3>1, <3>2, <3>3
  <2>2. CASE i = Len(s) + 1
    <3>1. Len(s) > 0 /\ Answers(m, s[Len(s)])
      BY <1>1, <1>2, <1>3, <2>2
    <3>2. t[i - 1] = s[Len(s)]
      BY <1>1, <2>2, <3>1
    <3> QED BY <1>1, <2>2, <3>1, <3>2
  <2> QED BY <1>1, <2>1, <2>2
<1>4. ASSUME NEW i \in 1..(Len(t) - 1), t[i].left > 0
      PROVE  Answers(t[i + 1], t[i]) \/ t[i + 1].role = "user"
  <2>1. i \in 1..Len(s) /\ t[i] = s[i]
    BY <1>1
  <2>2. CASE i < Len(s)
    <3>1. t[i + 1] = s[i + 1] /\ i \in 1..(Len(s) - 1)
      BY <1>1, <2>1, <2>2
    <3> QED BY <1>4, <2>1, <3>1 DEF Paired
  <2>3. CASE i = Len(s)
    BY <1>1, <1>2, <1>4, <2>1, <2>3
  <2> QED BY <1>1, <2>1, <2>2, <2>3
<1> QED BY <1>3, <1>4 DEF Paired, t

(* Delivered steers follow a settled transcript and leave it settled.      *)
LEMMA ConcatPaired ==
  ASSUME NEW s \in Seq(Message), NEW d \in Seq(Message), Paired(s),
         s # <<>>, s[Len(s)].left = 0,
         \A i \in 1..Len(d) : d[i].role = "steer" /\ d[i].left = 0
  PROVE  /\ Paired(s \o d)
         /\ s \o d # <<>>
         /\ (s \o d)[Len(s \o d)].left = 0
<1> DEFINE t == s \o d
<1>1. /\ Len(s) \in Nat /\ Len(d) \in Nat /\ Len(s) > 0
      /\ t \in Seq(Message)
      /\ Len(t) = Len(s) + Len(d)
      /\ \A i \in 1..Len(s) : t[i] = s[i]
  BY ConcatProperties
<1>2. \A i \in (Len(s) + 1)..Len(t) : t[i].role = "steer" /\ t[i].left = 0
  <2> TAKE i \in (Len(s) + 1)..Len(t)
  <2>1. i - Len(s) \in 1..Len(d) /\ ~(i <= Len(s)) /\ i \in 1..(Len(s) + Len(d))
    BY <1>1
  <2>2. t[i] = d[i - Len(s)]
    BY <2>1, ConcatProperties
  <2> QED BY <2>1, <2>2
<1> HIDE DEF t
<1>3. ASSUME NEW i \in 1..Len(t), t[i].role = "result"
      PROVE  i > 1 /\ (Answers(t[i], t[i - 1]) \/ t[i - 1].role = "summary")
  <2>1. i \in 1..Len(s)
    BY <1>1, <1>2, <1>3
  <2>2. i > 1 /\ (Answers(s[i], s[i - 1]) \/ s[i - 1].role = "summary")
    BY <1>1, <1>3, <2>1 DEF Paired
  <2> QED BY <1>1, <2>1, <2>2
<1>4. ASSUME NEW i \in 1..(Len(t) - 1), t[i].left > 0
      PROVE  Answers(t[i + 1], t[i]) \/ t[i + 1].role = "user"
  <2>1. i \in 1..Len(s) /\ t[i] = s[i]
    BY <1>1, <1>2, <1>4
  <2>2. i \in 1..(Len(s) - 1) /\ t[i + 1] = s[i + 1]
    BY <1>1, <1>4, <2>1
  <2> QED BY <1>4, <2>1, <2>2 DEF Paired
<1>5. Paired(t)
  BY <1>3, <1>4 DEF Paired
<1>6. t # <<>> /\ t[Len(t)].left = 0
  <2>1. t # <<>>
    BY <1>1
  <2>2. CASE Len(d) = 0
    BY <1>1, <2>2
  <2>3. CASE Len(d) > 0
    BY <1>1, <1>2, <2>3
  <2> QED BY <1>1, <2>1, <2>2, <2>3
<1> QED BY <1>5, <1>6 DEF t

(* Compaction keeps the pairs it does not cut, hides the cut behind the    *)
(* summary, and does not touch the end of the transcript.                  *)
LEMMA CompactedPaired ==
  ASSUME NEW s \in Seq(Message), Paired(s), s # <<>>, s[Len(s)].left = 0
  PROVE  /\ Paired(Compacted(s))
         /\ Compacted(s) # <<>>
         /\ Compacted(s)[Len(Compacted(s))].left = 0
<1> DEFINE t == Compacted(s)
           cut == Len(s) - MaxMessages
<1>1. CASE Len(s) <= MaxMessages
  BY <1>1, CompactedShape
<1>2. CASE Len(s) > MaxMessages
  <2>1. /\ MaxMessages \in Nat \ {0} /\ Len(s) \in Nat /\ cut \in Nat /\ cut > 0
        /\ Len(s) = cut + MaxMessages
    BY <1>2, SessionAssumption
  <2>2. /\ t \in Seq(Message)
        /\ Len(t) = MaxMessages + 1
        /\ t[1] = Summary(cut)
        /\ \A i \in 2..(MaxMessages + 1) : t[i] = s[cut + i - 1]
    BY <1>2, CompactedShape
  <2>3. t[1].role = "summary" /\ t[1].left = 0
    BY <2>2 DEF Summary
  <2> HIDE DEF t, cut
  <2>4. ASSUME NEW i \in 1..Len(t), t[i].role = "result"
        PROVE  i > 1 /\ (Answers(t[i], t[i - 1]) \/ t[i - 1].role = "summary")
    <3>1. i \in 2..(MaxMessages + 1)
      BY <2>1, <2>2, <2>3, <2>4
    <3>2. CASE i = 2
      BY <2>3, <3>2
    <3>3. CASE i > 2
      <4> DEFINE j == cut + i - 1
      <4>1. j \in 1..Len(s) /\ t[i] = s[j]
        BY <2>1, <2>2, <3>1, <3>3
      <4>2. t[i - 1] = s[j - 1]
        <5>1. i - 1 \in 2..(MaxMessages + 1) /\ cut + (i - 1) - 1 = j - 1
          BY <2>1, <3>1, <3>3
        <5> QED BY <2>2, <5>1
      <4>3. Answers(s[j], s[j - 1]) \/ s[j - 1].role = "summary"
        BY <2>4, <4>1 DEF Paired
      <4> QED BY <3>3, <4>1, <4>2, <4>3
    <3> QED BY <3>1, <3>2, <3>3
  <2>5. ASSUME NEW i \in 1..(Len(t) - 1), t[i].left > 0
        PROVE  Answers(t[i + 1], t[i]) \/ t[i + 1].role = "user"
    <3> DEFINE j == cut + i - 1
    <3>1. i \in 2..MaxMessages
      BY <2>1, <2>2, <2>3, <2>5
    <3>2. j \in 1..(Len(s) - 1) /\ t[i] = s[j]
      BY <2>1, <2>2, <3>1
    <3>3. t[i + 1] = s[j + 1]
      <4>1. i + 1 \in 2..(MaxMessages + 1) /\ cut + (i + 1) - 1 = j + 1
        BY <2>1, <3>1
      <4> QED BY <2>2, <4>1
    <3> QED BY <2>5, <3>2, <3>3 DEF Paired
  <2>6. Paired(t)
    BY <2>4, <2>5 DEF Paired
  <2>7. t # <<>> /\ t[Len(t)] = s[Len(s)]
    BY <2>1, <2>2
  <2> QED BY <2>6, <2>7 DEF t
<1> QED BY <1>1, <1>2, SessionAssumption

(* The end of a transcript after Append.                                   *)
LEMMA AppendLast ==
  ASSUME NEW s \in Seq(Message), NEW m \in Message
  PROVE  /\ Append(s, m) # <<>>
         /\ Append(s, m)[Len(Append(s, m))] = m
OBVIOUS

LEMMA TranscriptInit == Init => TranscriptInv
<1> SUFFICES ASSUME Init PROVE TranscriptInv
  OBVIOUS
<1>1. TypeInv
  BY TypeInit
<1>2. Len(messages) = 0
  BY DEF Init
<1>3. Paired(messages)
  BY <1>2 DEF Paired
<1>4. NextAnswer
  BY DEF Init, NextAnswer
<1> QED BY <1>1, <1>3, <1>4 DEF TranscriptInv

LEMMA TranscriptStep == TranscriptInv /\ [Next]_vars => TranscriptInv'
<1> SUFFICES ASSUME TranscriptInv, [Next]_vars PROVE TranscriptInv'
  OBVIOUS
<1> USE DEF TranscriptInv
<1>0. TypeInv'
  BY TypeStep
<1>t. /\ messages \in Seq(Message) /\ batch \in Nat
      /\ prompts \in Nat /\ replies \in Nat
      /\ pc \in {"calling", "executing"} => batch > 0
  BY DEF TypeInv, TypeOK, BatchLeft
<1>u. /\ pc \in Stages
      /\ result \in Results
  BY DEF TypeInv, TypeOK
<1>1. ASSUME UNCHANGED <<messages, pc, result, batch, replies>>
      PROVE  TranscriptInv'
  BY <1>0, <1>1 DEF NextAnswer, Settled, Paired, Answers
<1>2. CASE User
  BY <1>1, <1>2 DEF User, QueueSteerMessage, RequestStop, SetModel
<1>3. CASE Prompt
  BY <1>0, <1>3 DEF Prompt, NextAnswer, Paired, Answers
<1>4. CASE MemoriesRecalled
  <2> DEFINE m == UserMessage(prompts)
  <2>1. m \in Message /\ m.role = "user" /\ m.left = 0
    BY <1>t, MessageTypes DEF UserMessage
  <2>2. messages' = Append(messages, m) /\ pc' = "starting"
    BY <1>4 DEF MemoriesRecalled
  <2> HIDE DEF m
  <2>3. Paired(messages')
    BY <1>t, <2>1, <2>2, AppendPaired
  <2>4. Settled'
    BY <1>t, <2>1, <2>2, AppendLast DEF Settled
  <2> QED BY <1>0, <2>2, <2>3, <2>4 DEF NextAnswer
<1>5. CASE AgentStarted
  BY <1>0, <1>5 DEF AgentStarted, NextAnswer, Settled, Paired, Answers
<1>6. CASE StopAtHead \/ TurnsExhausted \/ Return
  BY <1>0, <1>6 DEF StopAtHead, TurnsExhausted, Return, NextAnswer, Paired, Answers
<1>7. CASE BeginTurn
  <2> DEFINE d == Delivered(Drained)
  <2>1. /\ d \in Seq(Message)
        /\ \A i \in 1..Len(d) : d[i].role = "steer" /\ d[i].left = 0
    BY DeliveredShape DEF TypeInv
  <2>2. messages # <<>> /\ messages[Len(messages)].left = 0
    BY <1>7 DEF BeginTurn, NextAnswer, Settled
  <2>3. messages' = messages \o d /\ pc' = "turnStart"
    BY <1>7 DEF BeginTurn
  <2> HIDE DEF d
  <2>4. Paired(messages') /\ Settled'
    BY <1>t, <2>1, <2>2, <2>3, ConcatPaired DEF Settled
  <2> QED BY <1>0, <2>3, <2>4 DEF NextAnswer
<1>8. CASE StartStream
  <2>1. messages # <<>> /\ messages[Len(messages)].left = 0
    BY <1>8 DEF StartStream, NextAnswer, Settled
  <2>2. messages' = Compacted(messages) /\ pc' = "streaming"
    BY <1>8 DEF StartStream
  <2>3. Paired(messages') /\ Settled'
    BY <1>t, <2>1, <2>2, CompactedPaired DEF Settled
  <2> QED BY <1>0, <2>2, <2>3 DEF NextAnswer
<1>9. CASE NoResponse \/ StreamRaised \/ CallRaised
  BY <1>0, <1>9 DEF NoResponse, StreamRaised, CallRaised, NextAnswer, Paired, Answers
<1>10. ASSUME NEW k \in 0..MaxCalls, pc = "streaming",
              messages' = Append(messages, AssistantMessage(replies + 1, k)),
              replies' = replies + 1
       PROVE  /\ Paired(messages')
              /\ messages' # <<>>
              /\ messages'[Len(messages')].left = k
              /\ messages'[Len(messages')].id = replies'
  <2> DEFINE m == AssistantMessage(replies + 1, k)
  <2>1. /\ m \in Message /\ m.role = "assistant" /\ m.left = k
        /\ m.id = replies + 1
    BY <1>t, SessionAssumption, MessageTypes DEF AssistantMessage
  <2>2. messages # <<>> /\ messages[Len(messages)].left = 0
    BY <1>10 DEF NextAnswer, Settled
  <2>3. messages' = Append(messages, m)
    BY <1>10
  <2> HIDE DEF m
  <2>4. Paired(messages')
    BY <1>t, <2>1, <2>2, <2>3, AppendPaired
  <2>5. messages' # <<>> /\ messages'[Len(messages')] = m
    BY <1>t, <2>1, <2>3, AppendLast
  <2> QED BY <1>10, <2>1, <2>4, <2>5
<1>11. ASSUME NEW k \in 0..MaxCalls, NEW r \in Finals, FinalReply(r, k)
       PROVE  TranscriptInv'
  <2>1. Paired(messages')
    BY <1>10, <1>11 DEF FinalReply
  <2>2. pc' = "turnEnd" /\ result' # "none"
    BY <1>11 DEF FinalReply, Finals
  <2> QED BY <1>0, <2>1, <2>2 DEF NextAnswer
<1>12. ASSUME NEW k \in 0..MaxCalls, ToolUseReply(k)
       PROVE  TranscriptInv'
  <2>1. /\ Paired(messages')
        /\ messages' # <<>>
        /\ messages'[Len(messages')].left = k
        /\ messages'[Len(messages')].id = replies'
    BY <1>10, <1>12 DEF ToolUseReply
  <2>2. batch' = k /\ pc' = IF k = 0 THEN "turnEnd" ELSE "calling"
    BY <1>12 DEF ToolUseReply
  <2>3. CASE k = 0
    BY <1>0, <2>1, <2>2, <2>3 DEF NextAnswer, Settled
  <2>4. CASE k # 0
    BY <1>0, <2>1, <2>2, <2>4 DEF NextAnswer
  <2> QED BY <2>3, <2>4
<1>13. ASSUME AnswerCall, pc \in {"calling", "executing"}
       PROVE  TranscriptInv'
  <2> DEFINE m == ToolResultMessage(replies, batch - 1)
             last == messages[Len(messages)]
  <2>1. batch > 0 /\ batch - 1 \in Nat
    BY <1>t, <1>13
  <2>2. /\ m \in Message /\ m.role = "result"
        /\ m.id = replies /\ m.left = batch - 1
    BY <1>t, <2>1, MessageTypes DEF ToolResultMessage
  <2>3. messages # <<>> /\ last.id = replies /\ last.left = batch
    BY <1>13 DEF NextAnswer
  <2>4. Answers(m, last)
    BY <2>1, <2>2, <2>3 DEF Answers
  <2>5. messages' = Append(messages, m) /\ batch' = batch - 1 /\ replies' = replies
    BY <1>13 DEF AnswerCall
  <2>6. pc' = IF batch = 1 THEN "turnEnd" ELSE "calling"
    BY <1>13 DEF AnswerCall, AfterCall
  <2> HIDE DEF m
  <2>7. Paired(messages')
    BY <1>t, <2>2, <2>3, <2>4, <2>5, AppendPaired
  <2>8. messages' # <<>> /\ messages'[Len(messages')] = m
    BY <1>t, <2>2, <2>5, AppendLast
  <2>9. NextAnswer'
    BY <2>1, <2>2, <2>5, <2>6, <2>8 DEF NextAnswer, Settled
  <2> QED BY <1>0, <2>7, <2>9
<1>14. CASE RefuseCall \/ CallExecuted
  BY <1>13, <1>14 DEF RefuseCall, CallExecuted
<1>15. CASE ExecuteCall
  BY <1>0, <1>15 DEF ExecuteCall, NextAnswer, Paired, Answers
<1>16. CASE EndTurn
  BY <1>0, <1>16 DEF EndTurn, NextAnswer, Settled, Paired, Answers
<1>17. CASE UNCHANGED vars
  BY <1>1, <1>17 DEF vars
<1> QED
  BY <1>2, <1>3, <1>4, <1>5, <1>6, <1>7, <1>8, <1>9, <1>11, <1>12, <1>14, <1>15,
     <1>16, <1>17 DEF Next, Advance

(* The transcript invariant holds in every behaviour.                      *)
LEMMA TranscriptInvariant == Spec => []TranscriptInv
BY TranscriptInit, TranscriptStep, PTL DEF Spec

(* Every tool result stands behind the call it answers or the summary.     *)
THEOREM ResultsAlwaysFollowCalls == Spec => []ResultsFollowCalls
<1>1. TranscriptInv => ResultsFollowCalls
  BY DEF TranscriptInv, Paired, ResultsFollowCalls
<1> QED BY <1>1, TranscriptInvariant, PTL

(* A call stays unanswered only at the end of its prompt.                  *)
THEOREM UnansweredCallsEndPrompts == Spec => []UnansweredOnlyWhenPromptEnded
<1>1. TranscriptInv => UnansweredOnlyWhenPromptEnded
  BY DEF TranscriptInv, Paired, UnansweredOnlyWhenPromptEnded
<1> QED BY <1>1, TranscriptInvariant, PTL

(* The model is never called with an unanswered call last.                 *)
THEOREM ModelAlwaysSeesAnswers == Spec => []ModelSeesAnswers
<1>1. TranscriptInv => ModelSeesAnswers
  BY DEF TranscriptInv, NextAnswer, Settled, ModelSeesAnswers
<1> QED BY <1>1, TranscriptInvariant, PTL

(***************************************************************************)
(* The context sent to the model.                                          *)
(***************************************************************************)

LEMMA ContextStep == TypeInv /\ ContextBounded /\ [Next]_vars => ContextBounded'
<1> SUFFICES ASSUME TypeInv, ContextBounded, [Next]_vars, pc' = "streaming"
             PROVE  Len(messages') <= MaxMessages + 1
  BY DEF ContextBounded
<1>1. messages \in Seq(Message)
  BY DEF TypeInv, TypeOK
<1>2. CASE StartStream
  <2>1. messages' = Compacted(messages) /\ Len(messages) \in Nat
    BY <1>1, <1>2 DEF StartStream
  <2>2. CASE Len(messages) <= MaxMessages
    BY <1>1, <2>1, <2>2, CompactedShape, SessionAssumption
  <2>3. CASE Len(messages) > MaxMessages
    BY <1>1, <2>1, <2>3, CompactedShape, SessionAssumption
  <2> QED BY <2>1, <2>2, <2>3, SessionAssumption
<1>3. CASE pc = "streaming" /\ UNCHANGED messages
  BY <1>3 DEF ContextBounded
<1>4. Next => StartStream \/ (pc = "streaming" /\ UNCHANGED messages)
  BY DEF Next, User, QueueSteerMessage, RequestStop, SetModel, Prompt, Advance,
         MemoriesRecalled, AgentStarted, StopAtHead, BeginTurn, TurnsExhausted,
         NoResponse, StreamRaised, ToolUseReply, FinalReply, RefuseCall,
         ExecuteCall, CallExecuted, AnswerCall, AfterCall, CallRaised, EndTurn,
         Return
<1> QED BY <1>2, <1>3, <1>4 DEF vars

(* The model is never sent more than the window and its summary.           *)
THEOREM ContextAlwaysBounded == Spec => []ContextBounded
<1>1. Init => ContextBounded
  BY DEF Init, ContextBounded
<1> QED BY <1>1, ContextStep, TypeInit, TypeStep, PTL DEF Spec

(* All four parts together: no gap between calls and results but the two   *)
(* that OnlyKnownGaps describes, in a bounded context.                     *)
THEOREM GapsAlwaysKnown == Spec => []OnlyKnownGaps
<1>1. ResultsFollowCalls /\ UnansweredOnlyWhenPromptEnded /\ ModelSeesAnswers /\ ContextBounded
        => OnlyKnownGaps
  BY DEF OnlyKnownGaps
<1> QED
  BY <1>1, ResultsAlwaysFollowCalls, UnansweredCallsEndPrompts, ModelAlwaysSeesAnswers,
     ContextAlwaysBounded, PTL

(***************************************************************************)
(* Steers.                                                                 *)
(***************************************************************************)

LEMMA AppendSteers ==
  ASSUME NEW s \in Seq(Message), NEW m \in Message, m.role # "steer", NEW last \in Int,
         SteersGrow(s, last)
  PROVE  SteersGrow(Append(s, m), last)
<1> DEFINE t == Append(s, m)
<1>1. /\ Len(s) \in Nat
      /\ Len(t) = Len(s) + 1
      /\ t[Len(s) + 1] = m
      /\ \A i \in 1..Len(s) : t[i] = s[i]
  OBVIOUS
<1> HIDE DEF t
<1>2. {i \in 1..Len(t) : t[i].role = "steer"} = {i \in 1..Len(s) : s[i].role = "steer"}
  BY <1>1
<1> QED BY <1>1, <1>2 DEF SteersGrow, t

LEMMA IdsAreNumbers ==
  ASSUME NEW s \in Seq(Message), NEW i \in 1..Len(s)
  PROVE  s[i].id \in Nat
<1>1. s[i] \in Message
  OBVIOUS
<1> QED BY <1>1 DEF Message

(* The steers delivered are those that were queued.                        *)
LEMMA ConcatSteers ==
  ASSUME NEW s \in Seq(Message), NEW d \in Seq(Message), NEW last \in Int,
         SteersGrow(s, last),
         \A i \in 1..Len(d) : d[i].role = "steer" /\ d[i].id = last + i
  PROVE  SteersGrow(s \o d, last + Len(d))
<1> DEFINE t == s \o d
<1>1. /\ Len(s) \in Nat /\ Len(d) \in Nat
      /\ Len(t) = Len(s) + Len(d)
      /\ \A i \in 1..Len(s) : t[i] = s[i]
      /\ \A i \in 1..Len(d) : t[Len(s) + i] = d[i]
  OBVIOUS
<1>2. \A i \in 1..Len(s) : s[i].id \in Nat
  BY IdsAreNumbers
<1> HIDE DEF t
<1> DEFINE old == {i \in 1..Len(s) : s[i].role = "steer"}
           new == {i \in 1..Len(t) : t[i].role = "steer"}
<1>3. ASSUME NEW i \in new
      PROVE  \/ i \in old /\ t[i] = s[i]
             \/ /\ i - Len(s) \in 1..Len(d)
                /\ i > Len(s)
                /\ t[i].id = last + (i - Len(s))
  <2>1. CASE i <= Len(s)
    BY <1>1, <2>1
  <2>2. CASE i > Len(s)
    <3>1. i - Len(s) \in 1..Len(d) /\ i = Len(s) + (i - Len(s))
      BY <1>1, <2>2
    <3>2. t[i] = d[i - Len(s)]
      BY <1>1, <3>1
    <3> QED BY <2>2, <3>1, <3>2
  <2> QED BY <1>1, <2>1, <2>2
<1>4. /\ \A i, k \in old : i < k => s[i].id < s[k].id
      /\ \A i \in old : s[i].id <= last
      /\ \A i \in old : \A n \in s[i].id..last : \E k \in old : s[k].id = n
  BY DEF SteersGrow
<1>5. ASSUME NEW i \in new, NEW k \in new, i < k PROVE t[i].id < t[k].id
  <2>1. CASE k \in old /\ t[k] = s[k]
    <3>1. i \in old /\ t[i] = s[i]
      BY <1>1, <1>3, <1>5, <2>1
    <3> QED BY <1>4, <1>5, <2>1, <3>1
  <2>2. CASE k - Len(s) \in 1..Len(d) /\ k > Len(s) /\ t[k].id = last + (k - Len(s))
    <3>1. CASE i \in old /\ t[i] = s[i]
      BY <1>1, <1>2, <1>4, <2>2, <3>1
    <3>2. CASE t[i].id = last + (i - Len(s)) /\ i - Len(s) \in 1..Len(d)
      BY <1>1, <1>5, <2>2, <3>2
    <3> QED BY <1>3, <3>1, <3>2
  <2> QED BY <1>3, <2>1, <2>2
<1>6. ASSUME NEW i \in new PROVE t[i].id <= last + Len(d)
  <2>1. CASE i \in old /\ t[i] = s[i]
    <3>1. t[i].id \in Nat /\ t[i].id <= last
      BY <1>2, <1>4, <2>1
    <3> HIDE DEF new, old
    <3> QED BY <1>1, <3>1
  <2>2. CASE i - Len(s) \in 1..Len(d) /\ t[i].id = last + (i - Len(s))
    <3> DEFINE n == i - Len(s)
    <3>1. n \in 1..Len(d) /\ t[i].id = last + n
      BY <2>2
    <3> HIDE DEF new, old, n
    <3> QED BY <1>1, <3>1
  <2> QED BY <1>3, <2>1, <2>2
<1>7. ASSUME NEW i \in new, NEW n \in t[i].id..(last + Len(d))
      PROVE  \E k \in new : t[k].id = n
  <2>1. t[i].id \in Int
    <3>1. CASE i \in old /\ t[i] = s[i]
      BY <1>2, <3>1
    <3>2. CASE i - Len(s) \in 1..Len(d) /\ t[i].id = last + (i - Len(s))
      BY <1>1, <3>2
    <3> QED BY <1>3, <3>1, <3>2
  <2>2. CASE n <= last
    <3>1. i \in old /\ t[i] = s[i]
      BY <1>1, <1>3, <2>1, <2>2
    <3>2. PICK k \in old : s[k].id = n
      BY <1>4, <2>1, <2>2, <3>1
    <3>3. k \in new /\ t[k].id = n
      BY <1>1, <3>2
    <3> QED BY <3>3
  <2>3. CASE n > last
    <3>1. n - last \in 1..Len(d) /\ last + (n - last) = n
      BY <1>1, <2>1, <2>3
    <3>2. t[Len(s) + (n - last)] = d[n - last]
      BY <1>1, <3>1
    <3>3. Len(s) + (n - last) \in new /\ t[Len(s) + (n - last)].id = n
      BY <1>1, <3>1, <3>2
    <3> QED BY <3>3
  <2> QED BY <2>1, <2>2, <2>3
<1> HIDE DEF old, new
<1>8. /\ \A i, k \in new : i < k => t[i].id < t[k].id
      /\ \A i \in new :
           /\ t[i].id <= last + Len(d)
           /\ \A n \in t[i].id..(last + Len(d)) : \E k \in new : t[k].id = n
  BY <1>5, <1>6, <1>7
<1> QED BY <1>8 DEF SteersGrow, t, new

(* What compaction keeps is the end of the transcript.                     *)
LEMMA CompactedSteers ==
  ASSUME NEW s \in Seq(Message), NEW last \in Int, SteersGrow(s, last)
  PROVE  SteersGrow(Compacted(s), last)
<1>1. CASE Len(s) <= MaxMessages
  BY <1>1, CompactedShape
<1>2. CASE Len(s) > MaxMessages
  <2> DEFINE t == Compacted(s)
             cut == Len(s) - MaxMessages - 1
             old == {i \in 1..Len(s) : s[i].role = "steer"}
             new == {i \in 1..Len(t) : t[i].role = "steer"}
  <2>1. /\ Len(s) \in Nat /\ cut \in Nat
        /\ Len(t) = MaxMessages + 1
        /\ t[1] = Summary(Len(s) - MaxMessages)
        /\ \A i \in 2..(MaxMessages + 1) : t[i] = s[Len(s) - MaxMessages + i - 1]
    BY <1>2, CompactedShape, SessionAssumption, LenProperties
  <2> HIDE DEF t
  <2>2. t[1].role # "steer"
    BY <2>1 DEF Summary
  <2>3. ASSUME NEW i \in new
        PROVE  i \in 2..(MaxMessages + 1) /\ cut + i \in old /\ t[i] = s[cut + i]
    <3>1. i \in 2..(MaxMessages + 1)
      BY <2>1, <2>2, SessionAssumption
    <3>2. Len(s) - MaxMessages + i - 1 = cut + i /\ cut + i \in 1..Len(s)
      BY <2>1, <3>1, SessionAssumption
    <3> QED BY <2>1, <3>1, <3>2
  <2>4. ASSUME NEW i \in old, i > cut + 1
        PROVE  i - cut \in new /\ t[i - cut] = s[i]
    <3>1. /\ i - cut \in 2..(MaxMessages + 1)
          /\ Len(s) - MaxMessages + (i - cut) - 1 = i
      BY <2>1, <2>4, SessionAssumption
    <3>2. t[i - cut] = s[i]
      BY <2>1, <3>1
    <3> QED BY <2>1, <3>1, <3>2, SessionAssumption
  <2>5. /\ \A i, k \in old : i < k => s[i].id < s[k].id
        /\ \A i \in old : s[i].id <= last /\ s[i].id \in Nat
        /\ \A i \in old : \A n \in s[i].id..last : \E k \in old : s[k].id = n
    BY IdsAreNumbers DEF SteersGrow
  <2>6. old \subseteq Nat /\ new \subseteq Nat
    BY <2>1
  <2> HIDE DEF old, new, cut
  <2>7. ASSUME NEW i \in new, NEW k \in new, i < k PROVE t[i].id < t[k].id
    <3>1. cut + i < cut + k
      BY <2>1, <2>6, <2>7
    <3> QED BY <2>3, <2>5, <3>1
  <2>8. ASSUME NEW i \in new, NEW n \in t[i].id..last PROVE \E k \in new : t[k].id = n
    <3>1. cut + i \in old /\ t[i] = s[cut + i] /\ i >= 2
      BY <2>3, SessionAssumption
    <3>2. PICK k \in old : s[k].id = n
      BY <2>5, <3>1
    <3>3. k >= cut + i
      <4>1. ~(k < cut + i)
        BY <2>5, <2>8, <3>1, <3>2
      <4> QED BY <4>1, <2>1, <2>6, <3>1, <3>2
    <3>4. k > cut + 1
      BY <2>1, <2>6, <3>1, <3>2, <3>3
    <3> QED BY <2>4, <3>2, <3>4
  <2>9. \A i \in new : t[i].id <= last
    BY <2>3, <2>5
  <2>10. /\ \A i, k \in new : i < k => t[i].id < t[k].id
         /\ \A i \in new :
              /\ t[i].id <= last
              /\ \A n \in t[i].id..last : \E k \in new : t[k].id = n
    BY <2>7, <2>8, <2>9
  <2> QED BY <2>10 DEF SteersGrow, t, new
<1> QED BY <1>1, <1>2, SessionAssumption, LenProperties

LEMMA DeliveredSteers ==
  ASSUME TypeOK
  PROVE  LET d == Delivered(Drained) IN
         /\ d \in Seq(Message) /\ Len(d) = Len(pendingSteer)
         /\ \A i \in 1..Len(d) : d[i].role = "steer" /\ d[i].id = pendingSteer[i]
<1> DEFINE d == Delivered(Drained)
<1>1. d \in Seq(Message)
  BY DeliveredShape
<1>2. Len(d) = Len(pendingSteer) /\ \A i \in 1..Len(pendingSteer) : d[i] = SteerMessage(pendingSteer[i])
  BY LenProperties DEF TypeOK, Delivered, Drained
<1> HIDE DEF d
<1>3. \A i \in 1..Len(d) : d[i].role = "steer" /\ d[i].id = pendingSteer[i]
  <2> TAKE i \in 1..Len(d)
  <2>1. d[i] = SteerMessage(pendingSteer[i])
    BY <1>2
  <2> QED BY <2>1 DEF SteerMessage
<1> QED BY <1>1, <1>2, <1>3 DEF d

LEMMA SteersInit == Init => SteersOnceInOrder
<1> SUFFICES ASSUME Init PROVE SteersOnceInOrder
  OBVIOUS
<1>1. Len(messages) = 0 /\ Len(pendingSteer) = 0
  BY EmptySeq DEF Init
<1> QED BY <1>1 DEF SteersOnceInOrder, SteersGrow

LEMMA SteersStep == TypeInv /\ TypeInv' /\ SteersOnceInOrder /\ [Next]_vars => SteersOnceInOrder'
<1> SUFFICES ASSUME TypeInv, TypeInv', SteersOnceInOrder, [Next]_vars
             PROVE  SteersOnceInOrder'
  OBVIOUS
<1> DEFINE last == steers - Len(pendingSteer)
<1>1. /\ messages \in Seq(Message) /\ pendingSteer \in Seq(Nat)
      /\ steers \in Nat /\ Len(pendingSteer) \in Nat /\ last \in Int
      /\ prompts \in Nat /\ replies \in Nat /\ batch \in Nat
  BY DEF TypeInv, TypeOK
<1>2. SteersGrow(messages, last) /\ \A i \in 1..Len(pendingSteer) : pendingSteer[i] = last + i
  BY DEF SteersOnceInOrder
<1>3. ASSUME NEW m \in Message, m.role # "steer", messages' = Append(messages, m),
             UNCHANGED <<pendingSteer, steers>>
      PROVE  SteersOnceInOrder'
  <2>1. SteersGrow(messages', last)
    BY <1>1, <1>2, <1>3, AppendSteers
  <2> QED BY <1>2, <1>3, <2>1 DEF SteersOnceInOrder
<1>4. CASE UNCHANGED <<messages, pendingSteer, steers>>
  BY <1>4 DEF SteersOnceInOrder
<1>5. CASE QueueSteerMessage
  <2>1. /\ Len(pendingSteer') = Len(pendingSteer) + 1
        /\ steers' = steers + 1 /\ messages' = messages
        /\ \A i \in 1..Len(pendingSteer) : pendingSteer'[i] = pendingSteer[i]
        /\ pendingSteer'[Len(pendingSteer) + 1] = steers + 1
    BY <1>1, <1>5 DEF QueueSteerMessage
  <2>2. steers' - Len(pendingSteer') = last
    BY <1>1, <2>1
  <2>3. ASSUME NEW i \in 1..Len(pendingSteer') PROVE pendingSteer'[i] = last + i
    <3>1. CASE i \in 1..Len(pendingSteer)
      BY <1>2, <2>1, <3>1
    <3>2. CASE i = Len(pendingSteer) + 1
      BY <1>1, <2>1, <3>2
    <3> QED BY <1>1, <2>1, <3>1, <3>2
  <2> QED BY <1>2, <2>1, <2>2, <2>3 DEF SteersOnceInOrder
<1>6. CASE BeginTurn
  <2> DEFINE d == Delivered(Drained)
  <2>1. /\ d \in Seq(Message) /\ Len(d) = Len(pendingSteer)
        /\ \A i \in 1..Len(d) : d[i].role = "steer" /\ d[i].id = pendingSteer[i]
    BY DeliveredSteers DEF TypeInv
  <2>2. messages' = messages \o d /\ steers' = steers /\ Len(pendingSteer') = 0
    BY <1>1, <1>6, SubSeqProperties DEF BeginTurn, Drained
  <2> HIDE DEF d
  <2>3. SteersGrow(messages \o d, last + Len(d))
    BY <1>1, <1>2, <2>1, ConcatSteers
  <2>4. last + Len(d) = steers' - Len(pendingSteer')
    BY <1>1, <2>1, <2>2
  <2> QED BY <2>2, <2>3, <2>4 DEF SteersOnceInOrder
<1>7. CASE StartStream
  <2>1. messages' = Compacted(messages) /\ UNCHANGED <<pendingSteer, steers>>
    BY <1>7 DEF StartStream
  <2>2. SteersGrow(Compacted(messages), last)
    BY <1>1, <1>2, CompactedSteers
  <2> QED BY <1>2, <2>1, <2>2 DEF SteersOnceInOrder
<1>8. CASE MemoriesRecalled
  <2>1. UserMessage(prompts) \in Message /\ UserMessage(prompts).role # "steer"
    BY <1>1, MessageTypes DEF UserMessage
  <2> QED BY <1>3, <1>8, <2>1 DEF MemoriesRecalled
<1>9. ASSUME NEW k \in 0..MaxCalls, ToolUseReply(k) \/ \E r \in Finals : FinalReply(r, k)
      PROVE  SteersOnceInOrder'
  <2>1. /\ AssistantMessage(replies + 1, k) \in Message
        /\ AssistantMessage(replies + 1, k).role # "steer"
    BY <1>1, MessageTypes, SessionAssumption DEF AssistantMessage
  <2> QED BY <1>3, <1>9, <2>1 DEF ToolUseReply, FinalReply
<1>10. CASE RefuseCall \/ CallExecuted
  <2>1. batch - 1 \in Nat
    BY <1>1, <1>10 DEF RefuseCall, CallExecuted, TypeInv, BatchLeft
  <2>2. /\ ToolResultMessage(replies, batch - 1) \in Message
        /\ ToolResultMessage(replies, batch - 1).role # "steer"
    BY <1>1, <2>1, MessageTypes DEF ToolResultMessage
  <2> QED BY <1>3, <1>10, <2>2 DEF RefuseCall, CallExecuted, AnswerCall
<1>11. CASE \/ RequestStop \/ (\E m \in Models : SetModel(m)) \/ Prompt \/ AgentStarted
            \/ StopAtHead \/ TurnsExhausted \/ NoResponse \/ StreamRaised \/ ExecuteCall
            \/ CallRaised \/ EndTurn \/ Return \/ UNCHANGED vars
  BY <1>4, <1>11 DEF RequestStop, SetModel, Prompt, AgentStarted, StopAtHead, TurnsExhausted,
     NoResponse, StreamRaised, ExecuteCall, CallRaised, EndTurn, Return, vars
<1> QED BY <1>5, <1>6, <1>7, <1>8, <1>9, <1>10, <1>11 DEF Next, Advance, User

(* Every steer reaches the transcript once and in order, whatever the      *)
(* awaits at which it is queued, whatever compaction drops.                *)
THEOREM SteersAlwaysOnceInOrder == Spec => []SteersOnceInOrder
BY SteersInit, SteersStep, TypeInit, TypeStep, PTL DEF Spec

(* The run's invariant: types and transcript together.                     *)
THEOREM SessionAlwaysConsistent == Spec => []SessionConsistent
<1>1. TypeOK /\ OnlyKnownGaps => SessionConsistent
  BY DEF SessionConsistent
<1> QED BY <1>1, TypeCorrect, GapsAlwaysKnown, PTL

(***************************************************************************)
(* Stopping.  The history variables only watch: every step of SpecH is a   *)
(* step of the session.  Between a request and the head of the loop the    *)
(* model is called at most once, and not even once if the call has begun:  *)
(* a turn that is yet to call it must have passed the head already.        *)
(***************************************************************************)

CallsLeft == IF pc = "turnStart" THEN 1 ELSE 0

RoundsInv == rounds \in Nat /\ (stopRequested => rounds + CallsLeft <= 1)

(* What a session with its history does, a session does.                   *)
THEOREM HistoryOnlyWatches == SpecH => Spec
<1>1. InitH => Init
  BY DEF InitH
<1>2. [NextH]_<<vars, history>> => [Next]_vars
  <2> SUFFICES ASSUME NextH PROVE Next
    BY DEF vars
  <2>1. StopAtHead \/ StartStream \/ Return => Advance
    BY DEF Advance
  <2> QED BY <2>1 DEF NextH, StopH, StopAtHeadH, StartStreamH, ReturnH, OtherH, Next, User
<1> QED BY <1>1, <1>2, PTL DEF SpecH, Spec

(* No step of the prompt's coroutine but BeginTurn, which sees no request, *)
(* leads to a model call, and none but StopAtHead touches the request.     *)
LEMMA OnlyBeginTurn ==
  ASSUME Advance, ~StopAtHead, ~StartStream, ~Return
  PROVE  /\ stopRequested' = stopRequested
         /\ pc' = "turnStart" => ~stopRequested
<1>1. CASE MemoriesRecalled \/ AgentStarted \/ TurnsExhausted \/ NoResponse \/ StreamRaised
  BY <1>1 DEF MemoriesRecalled, AgentStarted, TurnsExhausted, NoResponse, StreamRaised
<1>2. CASE BeginTurn
  BY <1>2 DEF BeginTurn, MayBeginTurn
<1>3. ASSUME NEW k \in 0..MaxCalls, ToolUseReply(k) \/ \E r \in Finals : FinalReply(r, k)
      PROVE  stopRequested' = stopRequested /\ pc' # "turnStart"
  BY <1>3 DEF ToolUseReply, FinalReply
<1>4. CASE RefuseCall \/ ExecuteCall \/ CallExecuted \/ CallRaised
  BY <1>4 DEF RefuseCall, ExecuteCall, CallExecuted, CallRaised, AnswerCall, AfterCall
<1>5. CASE EndTurn
  BY <1>5 DEF EndTurn
<1> QED BY <1>1, <1>2, <1>3, <1>4, <1>5 DEF Advance

LEMMA RoundsStep == RoundsInv /\ [NextH]_<<vars, history>> => RoundsInv'
<1> SUFFICES ASSUME RoundsInv, [NextH]_<<vars, history>> PROVE RoundsInv'
  OBVIOUS
<1> USE DEF RoundsInv, CallsLeft
<1>1. CASE StopH
  BY <1>1 DEF StopH, RequestStop
<1>2. CASE StopAtHeadH
  BY <1>2 DEF StopAtHeadH, StopAtHead
<1>3. CASE StartStreamH
  BY <1>3 DEF StartStreamH, StartStream
<1>4. CASE ReturnH
  BY <1>4 DEF ReturnH, Return
<1>5. CASE OtherH
  <2>1. rounds' = rounds
    BY <1>5 DEF OtherH, history
  <2>2. CASE Prompt
    BY <2>1, <2>2 DEF Prompt
  <2>3. CASE QueueSteerMessage \/ \E m \in Models : SetModel(m)
    BY <2>1, <2>3 DEF QueueSteerMessage, SetModel
  <2>4. CASE Advance /\ ~StopAtHead /\ ~StartStream /\ ~Return
    BY <2>1, <2>4, OnlyBeginTurn
  <2> QED BY <1>5, <2>2, <2>3, <2>4 DEF OtherH
<1>6. CASE UNCHANGED <<vars, history>>
  BY <1>6 DEF vars, history
<1> QED BY <1>1, <1>2, <1>3, <1>4, <1>5, <1>6 DEF NextH

(* Once a stop has been requested the model is called at most once more    *)
(* before the stop takes effect, in this prompt or a later one             *)
(* (request_stop, head of _run_turns).                                     *)
THEOREM StopAlwaysWithinOneRound == SpecH => []StopWithinOneRound
<1>1. InitH => RoundsInv
  BY DEF InitH, Init, RoundsInv, CallsLeft
<1>2. RoundsInv => StopWithinOneRound
  BY DEF RoundsInv, CallsLeft, StopWithinOneRound
<1> QED BY <1>1, <1>2, RoundsStep, PTL DEF SpecH
=============================================================================
