---------------------------- MODULE AgentSession ----------------------------
(***************************************************************************)
(* The agent session: one conversation with a model, driven by prompt().   *)
(* A prompt runs turns; a turn is one model reply and the tool calls that  *)
(* reply asks for.  While a prompt is suspended at an await, the user (the *)
(* REPL's reader, the RPC command reader, an embedding program) may queue  *)
(* steering messages, request a stop or switch the model.                  *)
(*                                                                         *)
(* Everything between two awaits is one action: the session lives on one   *)
(* asyncio event loop, so only an await lets another actor in.             *)
(***************************************************************************)
EXTENDS Integers, Sequences

CONSTANTS
  Models,       \* the models a session can be switched between
  MaxTurns,     \* AgentSessionOptions.max_turns
  MaxMessages,  \* max_messages of _compact_context_if_needed
  MaxCalls,     \* bound: tool calls in one assistant message
  MaxPrompts,   \* bound: prompt() calls in a behaviour
  MaxSteers     \* bound: queue_steer_message() calls in a behaviour

ASSUME SessionAssumption ==
  /\ Models # {}
  /\ MaxTurns \in Nat \ {0}
  /\ MaxMessages \in Nat \ {0}
  /\ MaxCalls \in Nat
  /\ MaxPrompts \in Nat
  /\ MaxSteers \in Nat

VARIABLES
  messages,       \* _messages: the transcript sent to the model
  pendingSteer,   \* _pending_steer: numbers of the steers not yet delivered
  stopRequested,  \* _stop_requested
  model,          \* _model
  pc,             \* the await at which the prompt's coroutine is suspended
  turn,           \* turn_index
  batch,          \* tool calls of the current reply still to be run
  result,         \* why the last prompt ended; "none" while it goes on
  prompts,        \* prompt() calls made so far
  steers,         \* queue_steer_message() calls made so far
  replies         \* assistant messages appended so far

vars == <<messages, pendingSteer, stopRequested, model, pc, turn, batch,
          result, prompts, steers, replies>>

Roles   == {"user", "steer", "summary", "assistant", "result"}
Stages  == {"idle", "recalling", "starting", "head", "turnStart", "streaming",
            "calling", "executing", "turnEnd", "ending"}
Finals  == {"stop", "length", "error"}      \* stop reasons that end a prompt
Results == Finals \cup {"none", "aborted", "maxTurns", "noResponse", "raised"}

(***************************************************************************)
(* A message keeps its role, the number of the prompt, steer or reply it   *)
(* belongs to, and "left": the tool calls of its reply that are unanswered *)
(* once the transcript has been read up to this message.                   *)
(***************************************************************************)
Message == [role : Roles, id : Nat, left : Nat]

UserMessage(n)         == [role |-> "user",      id |-> n, left |-> 0]
SteerMessage(n)        == [role |-> "steer",     id |-> n, left |-> 0]
Summary(n)             == [role |-> "summary",   id |-> n, left |-> 0]
AssistantMessage(n, k) == [role |-> "assistant", id |-> n, left |-> k]
ToolResultMessage(n, k) == [role |-> "result",   id |-> n, left |-> k]

\* Mutants: the summary is forgotten; one message too many is kept.
CompactedWithoutSummary(s) ==
  IF Len(s) <= MaxMessages THEN s ELSE SubSeq(s, Len(s) - MaxMessages + 1, Len(s))
CompactedTooLate(s) ==
  IF Len(s) <= MaxMessages + 1
  THEN s
  ELSE <<Summary(Len(s) - MaxMessages - 1)>>
         \o SubSeq(s, Len(s) - MaxMessages, Len(s))

(* _compact_context_if_needed: the last MaxMessages messages behind a      *)
(* summary that counts the messages this compaction dropped.               *)
Compacted(s) ==
  IF Len(s) <= MaxMessages
  THEN s
  ELSE <<Summary(Len(s) - MaxMessages)>>
         \o SubSeq(s, Len(s) - MaxMessages + 1, Len(s))

Init ==
  /\ messages = <<>>
  /\ pendingSteer = <<>>
  /\ stopRequested = FALSE
  /\ model \in Models
  /\ pc = "idle"
  /\ turn = 0
  /\ batch = 0
  /\ result = "none"
  /\ prompts = 0
  /\ steers = 0
  /\ replies = 0

-----------------------------------------------------------------------------
(* The user's side: plain assignments, legal at any moment.                *)

QueueSteerMessage ==
  /\ steers < MaxSteers
  /\ steers' = steers + 1
  /\ pendingSteer' = Append(pendingSteer, steers + 1)
  /\ UNCHANGED <<messages, stopRequested, model, pc, turn, batch, result,
                 prompts, replies>>

RequestStop ==
  /\ stopRequested' = TRUE
  /\ UNCHANGED <<messages, pendingSteer, model, pc, turn, batch, result,
                 prompts, steers, replies>>

SetModel(m) ==
  /\ model' = m
  /\ UNCHANGED <<messages, pendingSteer, stopRequested, pc, turn, batch,
                 result, prompts, steers, replies>>

-----------------------------------------------------------------------------
(* prompt(): recall memories, append the user message, announce the agent. *)

Prompt ==
  /\ pc = "idle"
  /\ prompts < MaxPrompts
  /\ prompts' = prompts + 1
  /\ result' = "none"
  /\ pc' = "recalling"
  /\ UNCHANGED <<messages, pendingSteer, stopRequested, model, turn, batch,
                 steers, replies>>

MemoriesRecalled ==
  /\ pc = "recalling"
  /\ messages' = Append(messages, UserMessage(prompts))
  /\ pc' = "starting"
  /\ UNCHANGED <<pendingSteer, stopRequested, model, turn, batch, result,
                 prompts, steers, replies>>

AgentStarted ==
  /\ pc = "starting"
  /\ turn' = 0
  /\ pc' = "head"
  /\ UNCHANGED <<messages, pendingSteer, stopRequested, model, batch, result,
                 prompts, steers, replies>>

-----------------------------------------------------------------------------
(* _run_turns: the head of the loop.                                       *)

StopAtHead ==
  /\ pc = "head"
  /\ turn < MaxTurns
  /\ stopRequested
  /\ stopRequested' = FALSE
  /\ result' = "aborted"
  /\ pc' = "ending"
  /\ UNCHANGED <<messages, pendingSteer, model, turn, batch, prompts, steers,
                 replies>>

\* Mutants: the queue is drained before the loop; the newest steer goes first.
DrainedOnFirstTurn == IF turn = 0 THEN Len(pendingSteer) ELSE 0
DeliveredNewestFirst(n) ==
  [i \in 1..n |-> SteerMessage(pendingSteer[Len(pendingSteer) + 1 - i])]

(* Every queued steer becomes a user message, oldest first.                *)
Drained == Len(pendingSteer)
Delivered(n) == [i \in 1..n |-> SteerMessage(pendingSteer[i])]

\* Mutant: only the first turn looks at the stop flag.
MayBeginTurnAfterFirst == turn < MaxTurns /\ (turn = 0 => ~stopRequested)

MayBeginTurn == turn < MaxTurns /\ ~stopRequested

BeginTurn ==
  /\ pc = "head"
  /\ MayBeginTurn
  /\ messages' = messages \o Delivered(Drained)
  /\ pendingSteer' = SubSeq(pendingSteer, Drained + 1, Len(pendingSteer))
  /\ pc' = "turnStart"
  /\ UNCHANGED <<stopRequested, model, turn, batch, result, prompts, steers,
                 replies>>

\* Mutant: the limit of turns is one off.
TurnsExhaustedLate ==
  /\ pc = "head"
  /\ turn > MaxTurns
  /\ result' = "maxTurns"
  /\ pc' = "ending"
  /\ UNCHANGED <<messages, pendingSteer, stopRequested, model, turn, batch,
                 prompts, steers, replies>>

TurnsExhausted ==
  /\ pc = "head"
  /\ turn = MaxTurns
  /\ result' = "maxTurns"
  /\ pc' = "ending"
  /\ UNCHANGED <<messages, pendingSteer, stopRequested, model, turn, batch,
                 prompts, steers, replies>>

-----------------------------------------------------------------------------
(* _run_one_turn and _consume_stream.                                      *)

StartStream ==
  /\ pc = "turnStart"
  /\ messages' = Compacted(messages)
  /\ pc' = "streaming"
  /\ UNCHANGED <<pendingSteer, stopRequested, model, turn, batch, result,
                 prompts, steers, replies>>

(* The stream ended without a done or an error event.                      *)
NoResponse ==
  /\ pc = "streaming"
  /\ result' = "noResponse"
  /\ pc' = "turnEnd"
  /\ UNCHANGED <<messages, pendingSteer, stopRequested, model, turn, batch,
                 prompts, steers, replies>>

StreamRaised ==
  /\ pc = "streaming"
  /\ result' = "raised"
  /\ pc' = "turnEnd"
  /\ UNCHANGED <<messages, pendingSteer, stopRequested, model, turn, batch,
                 prompts, steers, replies>>

(* Any stop reason but tool use returns at once, the calls the reply may   *)
(* carry (a reply cut by its length limit does) unanswered.                *)
FinalReply(reason, k) ==
  /\ pc = "streaming"
  /\ replies' = replies + 1
  /\ messages' = Append(messages, AssistantMessage(replies + 1, k))
  /\ result' = reason
  /\ pc' = "turnEnd"
  /\ UNCHANGED <<pendingSteer, stopRequested, model, turn, batch, prompts,
                 steers>>

ToolUseReply(k) ==
  /\ pc = "streaming"
  /\ replies' = replies + 1
  /\ messages' = Append(messages, AssistantMessage(replies + 1, k))
  /\ batch' = k
  /\ pc' = IF k = 0 THEN "turnEnd" ELSE "calling"
  /\ UNCHANGED <<pendingSteer, stopRequested, model, turn, result, prompts,
                 steers>>

-----------------------------------------------------------------------------
(* _run_tool_call, once per call of the reply, in order.                   *)

\* Mutant: the loop runs one call past the end of the reply.
AfterCallPastEnd == IF batch = 0 THEN "turnEnd" ELSE "calling"

AfterCall == IF batch = 1 THEN "turnEnd" ELSE "calling"

(* Append the result of the current call and go on to the next one.        *)
AnswerCall ==
  /\ messages' = Append(messages, ToolResultMessage(replies, batch - 1))
  /\ batch' = batch - 1
  /\ pc' = AfterCall
  /\ UNCHANGED <<pendingSteer, stopRequested, model, turn, result, prompts,
                 steers, replies>>

\* Mutant: a refused call is skipped without a result.
RefuseCallSilently ==
  /\ pc = "calling"
  /\ batch' = batch - 1
  /\ pc' = AfterCall
  /\ UNCHANGED <<messages, pendingSteer, stopRequested, model, turn, result,
                 prompts, steers, replies>>

(* An extension's tool_call handler blocks the call, or the permission     *)
(* gate denies it: the refusal is the call's result.                       *)
RefuseCall ==
  /\ pc = "calling"
  /\ AnswerCall

ExecuteCall ==
  /\ pc = "calling"
  /\ pc' = "executing"
  /\ UNCHANGED <<messages, pendingSteer, stopRequested, model, turn, batch,
                 result, prompts, steers, replies>>

(* The tool returned, or an AgentTool raised and its error is the result.  *)
CallExecuted ==
  /\ pc = "executing"
  /\ AnswerCall

\* Mutant: the exception is swallowed and the loop goes on.
CallRaisedSwallowed ==
  /\ pc \in {"calling", "executing"}
  /\ pc' = "turnEnd"
  /\ UNCHANGED <<messages, pendingSteer, stopRequested, model, turn, batch,
                 result, prompts, steers, replies>>

(* The permission gate or a built-in tool raised, or a handler returned    *)
(* what has no block, content or is_error: nothing catches it before the   *)
(* finally of _run_turns.                                                  *)
CallRaised ==
  /\ pc \in {"calling", "executing"}
  /\ result' = "raised"
  /\ pc' = "turnEnd"
  /\ UNCHANGED <<messages, pendingSteer, stopRequested, model, turn, batch,
                 prompts, steers, replies>>

-----------------------------------------------------------------------------
(* The turn_end handlers ran: loop, or leave with the result at hand.      *)
EndTurn ==
  /\ pc = "turnEnd"
  /\ IF result = "none"
     THEN /\ turn' = turn + 1
          /\ pc' = "head"
     ELSE /\ pc' = "ending"
          /\ UNCHANGED turn
  /\ UNCHANGED <<messages, pendingSteer, stopRequested, model, batch, result,
                 prompts, steers, replies>>

(* The agent_end handlers ran: prompt() returns or raises.                 *)
Return ==
  /\ pc = "ending"
  /\ pc' = "idle"
  /\ UNCHANGED <<messages, pendingSteer, stopRequested, model, turn, batch,
                 result, prompts, steers, replies>>

-----------------------------------------------------------------------------
(* What the prompt's coroutine does once it has been started.              *)
Advance ==
  \/ MemoriesRecalled \/ AgentStarted
  \/ StopAtHead \/ BeginTurn \/ TurnsExhausted
  \/ StartStream \/ NoResponse \/ StreamRaised
  \/ \E k \in 0..MaxCalls : ToolUseReply(k) \/ \E r \in Finals : FinalReply(r, k)
  \/ RefuseCall \/ ExecuteCall \/ CallExecuted \/ CallRaised
  \/ EndTurn \/ Return

User == QueueSteerMessage \/ RequestStop \/ \E m \in Models : SetModel(m)

Next == Prompt \/ Advance \/ User

(* A suspended coroutine is resumed by the event loop once its await is    *)
(* done; that model calls, tools and handlers finish is assumed.  The user *)
(* is under no obligation.                                                 *)
Spec == Init /\ [][Next]_vars

FairSpec == Spec /\ WF_vars(Advance)
-----------------------------------------------------------------------------
(***************************************************************************)
(* Properties                                                              *)
(***************************************************************************)

TypeOK ==
  /\ messages \in Seq(Message)
  /\ pendingSteer \in Seq(Nat)
  /\ stopRequested \in BOOLEAN
  /\ model \in Models
  /\ pc \in Stages
  /\ turn \in 0..MaxTurns
  /\ batch \in Nat
  /\ result \in Results
  /\ prompts \in Nat
  /\ steers \in Nat
  /\ replies \in Nat

(* n answers the first unanswered call of m. *)
Answers(n, m) ==
  /\ n.role = "result"
  /\ m.left > 0
  /\ n.id = m.id
  /\ n.left = m.left - 1

(* A tool result stands right behind the call it answers (the assistant    *)
(* message, or the result of that message's previous call); only           *)
(* compaction may cut it off, and then it is next to the summary.  No      *)
(* steer, stop, refusal or error gets between a call and its result        *)
(* (_run_one_turn, _run_tool_call, _compact_context_if_needed).            *)
ResultsFollowCalls ==
  \A i \in 1..Len(messages) :
    messages[i].role = "result" =>
      /\ i > 1
      /\ \/ Answers(messages[i], messages[i - 1])
         \/ messages[i - 1].role = "summary"

(* A call without a result is the last thing its prompt did: the batch was *)
(* cut by an exception or the reply was final.  Otherwise its answer comes *)
(* next, whatever refused it (_run_tool_call, all three of its endings).   *)
UnansweredOnlyWhenPromptEnded ==
  \A i \in 1..(Len(messages) - 1) :
    messages[i].left > 0 =>
      \/ Answers(messages[i + 1], messages[i])
      \/ messages[i + 1].role = "user"

(* The model is never called in the middle of a batch: the last message it *)
(* is shown leaves no call open (_run_one_turn finishes the batch, or the  *)
(* prompt ends and a user's message follows).                              *)
ModelSeesAnswers ==
  pc = "streaming" => messages # <<>> /\ messages[Len(messages)].left = 0

(* In s the numbers of the steers grow, and from any of them up to last    *)
(* none is missing.                                                        *)
SteersGrow(s, last) ==
  LET steered == {i \in 1..Len(s) : s[i].role = "steer"}
  IN  /\ \A i, k \in steered : i < k => s[i].id < s[k].id
      /\ \A i \in steered :
           /\ s[i].id <= last
           /\ \A n \in s[i].id..last : \E k \in steered : s[k].id = n

(* Every steer is delivered once, in the order it was queued: those in the *)
(* transcript, less what compaction dropped, and then those in the queue   *)
(* are consecutive up to the last one queued (queue_steer_message and the  *)
(* draining loop of _run_turns).                                           *)
SteersOnceInOrder ==
  LET last == steers - Len(pendingSteer)
  IN  /\ SteersGrow(messages, last)
      /\ \A i \in 1..Len(pendingSteer) : pendingSteer[i] = last + i

(* What the model is called with never exceeds the compaction window and   *)
(* its summary (_compact_context_if_needed).                               *)
ContextBounded == pc = "streaming" => Len(messages) <= MaxMessages + 1

(* Between calls and results the transcript has two kinds of gap and no    *)
(* other, and it is bounded.  A result may have lost its call: it stands   *)
(* behind the summary when compaction cut inside a batch.  And calls may   *)
(* stay without results where a prompt ended in their batch or with their  *)
(* reply: then the next prompt's message follows them, and the model is    *)
(* shown both.  A provider that matches calls with results refuses such a  *)
(* conversation; the code does not repair it (_run_one_turn,               *)
(* _run_tool_call, _compact_context_if_needed).                            *)
OnlyKnownGaps ==
  /\ ResultsFollowCalls
  /\ UnansweredOnlyWhenPromptEnded
  /\ ModelSeesAnswers
  /\ ContextBounded

(* A prompt that has been started returns or raises: a turn ends, turns    *)
(* are bounded, and every way out of a turn leads back to the caller.      *)
PromptReturns == pc # "idle" ~> pc = "idle"

(* A steer that waits when a turn ends and another may follow is delivered *)
(* unless the prompt is aborted at that boundary (docstring of             *)
(* queue_steer_message: "at the next turn boundary").                      *)
SteerReachesNextTurn ==
  (pendingSteer # <<>> /\ pc = "turnEnd" /\ result = "none" /\ turn + 1 < MaxTurns)
    ~> (pendingSteer = <<>> \/ result = "aborted")

(* Nothing a prompt or a steer waits for fails to come.                    *)
NobodyWaitsForever == PromptReturns /\ SteerReachesNextTurn

(* The declared types, and no gap in the transcript but the known ones.    *)
SessionConsistent == TypeOK /\ OnlyKnownGaps
=============================================================================
