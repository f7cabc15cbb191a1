-------------------------------- MODULE Agent --------------------------------
(***************************************************************************)
(* The embeddable agent: Agent keeps a transcript and two queues, and runs *)
(* the agent loop on a context of its own.  The loop reports every message *)
(* by an event; Agent appends it to the transcript and then awaits its     *)
(* listeners, which may raise.  At every await the embedding program may   *)
(* steer, queue follow-ups, abort, reset or cancel the run.                *)
(***************************************************************************)
EXTENDS Integers, Sequences

CONSTANTS
  SteeringMode, \* "all" or "one-at-a-time"
  FollowUpMode, \* likewise
  MaxCalls,     \* bound: tool calls in one reply
  MaxReplies,   \* bound: only the first replies may have tool calls
  MaxRuns,      \* bound: runs in a behaviour
  MaxQueued     \* bound: steer() and follow_up() calls

QueueModes == {"all", "one-at-a-time"}

ASSUME AgentAssumption ==
  /\ SteeringMode \in QueueModes
  /\ FollowUpMode \in QueueModes
  /\ {MaxCalls, MaxReplies, MaxRuns, MaxQueued} \subseteq Nat

VARIABLES
  transcript, \* _state.messages
  context,    \* current_context.messages of the loop
  steering,   \* _steering_queue
  followUps,  \* _follow_up_queue
  pc,         \* the await at which the run is suspended
  pending,    \* messages taken from a queue, or prompts, not yet announced
  skipPoll,   \* skip_steering of the run's config
  parallel,   \* tool_execution of the run's config is "parallel"
  calls,      \* the tool calls of the current reply
  reported,   \* how many of them have their result in the transcript
  terminating,\* every result of the batch so far asks to terminate
  more,       \* has_more_tool_calls
  aborted,    \* the active run has been aborted
  runs, replies, steers, follows, \* counters that number what they count
  dropped,    \* queued messages that a clear or the end of a run threw away
  wiped,      \* reset() was called during the current run
  interrupted \* history: runs in which abort(), an error or a cancellation
              \* met tool calls

queues  == <<steering, followUps>>
numbers == <<runs, replies, steers, follows>>
batch   == <<calls, reported, terminating>>
vars == <<transcript, context, queues, pc, pending, skipPoll, parallel, batch,
          more, aborted, numbers, dropped, wiped, interrupted>>

Active  == pc # "idle"
Stages  == {"idle", "opening", "turn", "streaming", "calls", "turnEnd", "ending", "failing"}
Kinds   == {"prompt", "steer", "follow", "assistant", "result", "failure"}

(* left: the calls of the message's reply that are unanswered after it.    *)
Message == [kind : Kinds, id : Nat, left : Nat, run : Nat]

QueuedMessage(kind, n) == [kind |-> kind, id |-> n, left |-> 0, run |-> 0]
PromptMessage(n)       == [kind |-> "prompt", id |-> n, left |-> 0, run |-> n]
AssistantMessage(n, k) == [kind |-> "assistant", id |-> n, left |-> k, run |-> runs]
ToolResult(n, k)       == [kind |-> "result", id |-> n, left |-> k, run |-> runs]
FailureMessage         == [kind |-> "failure", id |-> runs, left |-> 0, run |-> runs]

Init ==
  /\ transcript = <<>> /\ context = <<>>
  /\ steering = <<>> /\ followUps = <<>>
  /\ pc = "idle" /\ pending = <<>>
  /\ skipPoll = FALSE /\ parallel = FALSE
  /\ calls = <<>> /\ reported = 0 /\ terminating = FALSE /\ more = FALSE
  /\ aborted = FALSE
  /\ runs = 0 /\ replies = 0 /\ steers = 0 /\ follows = 0
  /\ dropped = {} /\ wiped = FALSE /\ interrupted = {}

Interrupts(it) ==
  interrupted' = IF it THEN interrupted \cup {runs} ELSE interrupted

NoBatch ==
  /\ calls' = <<>>
  /\ reported' = 0
  /\ terminating' = FALSE

-----------------------------------------------------------------------------
(* _PendingMessageQueue.                                                   *)

\* Mutant: a queue in mode "one-at-a-time" gives away its newest message.
DrainedNewest(queue, mode) ==
  IF mode = "all" \/ queue = <<>> THEN queue ELSE <<queue[Len(queue)]>>

Drained(queue, mode) ==
  IF mode = "all" \/ queue = <<>> THEN queue ELSE <<Head(queue)>>

Kept(queue, mode) ==
  IF mode = "all" \/ queue = <<>> THEN <<>> ELSE Tail(queue)

\* Mutant: a steer goes to the transcript at once.
SteerAtOnce ==
  /\ steers + follows < MaxQueued
  /\ steers' = steers + 1
  /\ transcript' = Append(transcript, QueuedMessage("steer", steers + 1))
  /\ UNCHANGED <<context, queues, pc, pending, skipPoll, parallel, batch, more,
                 aborted, runs, replies, follows, dropped, wiped, interrupted>>

Steer ==
  /\ steers + follows < MaxQueued
  /\ steers' = steers + 1
  /\ steering' = Append(steering, QueuedMessage("steer", steers + 1))
  /\ UNCHANGED <<transcript, context, followUps, pc, pending, skipPoll, parallel,
                 batch, more, aborted, runs, replies, follows, dropped, wiped, interrupted>>

FollowUp ==
  /\ steers + follows < MaxQueued
  /\ follows' = follows + 1
  /\ followUps' = Append(followUps, QueuedMessage("follow", follows + 1))
  /\ UNCHANGED <<transcript, context, steering, pc, pending, skipPoll, parallel,
                 batch, more, aborted, runs, replies, steers, dropped, wiped, interrupted>>

QueuedIn(s) ==
  {<<s[i].kind, s[i].id>> : i \in {k \in 1..Len(s) : s[k].kind \in {"steer", "follow"}}}

ClearAllQueues ==
  /\ steering \o followUps # <<>>
  /\ steering' = <<>>
  /\ followUps' = <<>>
  /\ dropped' = dropped \cup QueuedIn(steering \o followUps)
  /\ UNCHANGED <<transcript, context, pc, pending, skipPoll, parallel, batch, more,
                 aborted, numbers, wiped, interrupted>>

(* reset() does not ask whether a run is active.                           *)
Reset ==
  /\ transcript # <<>>
  /\ transcript' = <<>>
  /\ steering' = <<>>
  /\ followUps' = <<>>
  /\ dropped' = dropped \cup QueuedIn(transcript \o steering \o followUps)
  /\ wiped' = Active
  /\ UNCHANGED <<context, pc, pending, skipPoll, parallel, batch, more, aborted,
                 numbers, interrupted>>

Abort ==
  /\ Active
  /\ aborted' = TRUE
  /\ UNCHANGED <<transcript, context, queues, pc, pending, skipPoll, parallel,
                 batch, more, numbers, dropped, wiped, interrupted>>

-----------------------------------------------------------------------------
(* prompt() and continue_run(): a run starts when none is active.          *)

Begin(prompts, skip) ==
  /\ runs < MaxRuns
  /\ runs' = runs + 1
  /\ pc' = "opening"
  /\ pending' = prompts
  /\ context' = transcript \o prompts
  /\ skipPoll' = skip
  /\ parallel' \in BOOLEAN
  /\ more' = TRUE
  /\ wiped' = FALSE
  /\ UNCHANGED <<transcript, batch, aborted, replies, steers, follows, dropped,
                 interrupted>>

Prompt ==
  /\ ~Active
  /\ Begin(<<PromptMessage(runs + 1)>>, FALSE)
  /\ UNCHANGED queues

EndsWithAssistant ==
  transcript[Len(transcript)].kind \in {"assistant", "failure"}

ContinueRun ==
  /\ ~Active
  /\ transcript # <<>>
  /\ \/ /\ ~EndsWithAssistant
        /\ Begin(<<>>, FALSE)
        /\ UNCHANGED queues
     \/ /\ EndsWithAssistant
        /\ steering # <<>>
        /\ Begin(Drained(steering, SteeringMode), TRUE)
        /\ steering' = Kept(steering, SteeringMode)
        /\ UNCHANGED followUps
     \/ /\ EndsWithAssistant
        /\ steering = <<>>
        /\ followUps # <<>>
        /\ Begin(Drained(followUps, FollowUpMode), FALSE)
        /\ followUps' = Kept(followUps, FollowUpMode)
        /\ UNCHANGED steering

(* run_agent_loop announces the prompts, which its context already has.    *)
Announce ==
  /\ pc = "opening"
  /\ pending # <<>>
  /\ transcript' = Append(transcript, Head(pending))
  /\ pending' = Tail(pending)
  /\ UNCHANGED <<context, queues, pc, skipPoll, parallel, batch, more, aborted,
                 numbers, dropped, wiped, interrupted>>

(* The first poll of _run_loop.                                            *)
FirstPoll ==
  /\ pc = "opening"
  /\ pending = <<>>
  /\ pc' = "turn"
  /\ IF skipPoll
     THEN UNCHANGED <<pending, steering>>
     ELSE /\ pending' = Drained(steering, SteeringMode)
          /\ steering' = Kept(steering, SteeringMode)
  /\ skipPoll' = FALSE
  /\ UNCHANGED <<transcript, context, followUps, parallel, batch, more, aborted,
                 numbers, dropped, wiped, interrupted>>

-----------------------------------------------------------------------------
(* One turn: pending messages, then a reply.                               *)

\* Mutant: the message is announced but not added to the context.
InjectOutside ==
  /\ pc = "turn"
  /\ pending # <<>>
  /\ transcript' = Append(transcript, Head(pending))
  /\ pending' = Tail(pending)
  /\ UNCHANGED <<context, queues, pc, skipPoll, parallel, batch, more, aborted,
                 numbers, dropped, wiped, interrupted>>

Inject ==
  /\ pc = "turn"
  /\ pending # <<>>
  /\ transcript' = Append(transcript, Head(pending))
  /\ context' = Append(context, Head(pending))
  /\ pending' = Tail(pending)
  /\ UNCHANGED <<queues, pc, skipPoll, parallel, batch, more, aborted, numbers,
                 dropped, wiped, interrupted>>

StartStream ==
  /\ pc = "turn"
  /\ pending = <<>>
  /\ pc' = "streaming"
  /\ UNCHANGED <<transcript, context, queues, pending, skipPoll, parallel, batch,
                 more, aborted, numbers, dropped, wiped, interrupted>>

(* The reply has k tool calls.  One cut by its length limit has them all   *)
(* refused; an error or aborted reply ends the run.                        *)
Reply(reason, k) ==
  /\ pc = "streaming"
  /\ k > 0 => replies < MaxReplies
  /\ replies' = replies + 1
  /\ transcript' = Append(transcript, AssistantMessage(replies + 1, k))
  /\ context' = Append(context, AssistantMessage(replies + 1, k))
  /\ more' = FALSE
  /\ IF reason = "error"
     THEN /\ pc' = "ending"
          /\ UNCHANGED batch
     ELSE /\ pc' = IF k = 0 THEN "turnEnd" ELSE "calls"
          /\ calls' = [i \in 1..k |-> IF reason = "length" THEN "truncated" ELSE "queued"]
          /\ reported' = 0
          /\ terminating' = (k > 0 /\ reason # "length")
  /\ Interrupts(reason = "error" /\ k > 0)
  /\ UNCHANGED <<queues, pending, skipPoll, parallel, aborted, runs, steers,
                 follows, dropped, wiped>>

-----------------------------------------------------------------------------
(* _execute_tool_calls.                                                    *)

AllAtOnce == parallel /\ Len(calls) > 1 /\ calls[1] # "truncated"

(* A sequential batch starts a call when the one before it is reported.    *)
MayPrepare(i) == calls[i] = "queued" /\ (AllAtOnce \/ i = reported + 1)

(* The tool is unknown, the hook blocks or raises, or the run is aborted.  *)
Refuse(i) ==
  /\ pc = "calls"
  /\ MayPrepare(i)
  /\ calls' = [calls EXCEPT ![i] = "finished"]
  /\ terminating' = FALSE
  /\ UNCHANGED <<transcript, context, queues, pc, pending, skipPoll, parallel,
                 reported, more, aborted, numbers, dropped, wiped, interrupted>>

Execute(i) ==
  /\ pc = "calls"
  /\ MayPrepare(i)
  /\ ~aborted
  /\ calls' = [calls EXCEPT ![i] = "executing"]
  /\ UNCHANGED <<transcript, context, queues, pc, pending, skipPoll, parallel,
                 reported, terminating, more, aborted, numbers, dropped, wiped, interrupted>>

(* The tool, or the hook behind it, returned or raised.                    *)
Executed(i) ==
  /\ pc = "calls"
  /\ calls[i] = "executing"
  /\ calls' = [calls EXCEPT ![i] = "finished"]
  /\ \E terminate \in BOOLEAN : terminating' = (terminating /\ terminate)
  /\ UNCHANGED <<transcript, context, queues, pc, pending, skipPoll, parallel,
                 reported, more, aborted, numbers, dropped, wiped, interrupted>>

AllFinished == \A i \in DOMAIN calls : calls[i] = "finished"

\* Mutant: the calls of a truncated reply are forgotten.
ReportableIfExecuted(i) == calls[i] = "finished" /\ (AllAtOnce => AllFinished)

(* A parallel batch is gathered before any of it is reported.              *)
Reportable(i) ==
  \/ calls[i] = "truncated"
  \/ calls[i] = "finished" /\ (AllAtOnce => AllFinished)

\* Mutant: every batch of an aborted run ends with the call at hand.
BatchEndsWhenAborted(i) == i = Len(calls) \/ (calls[i] = "finished" /\ aborted)

(* A sequential batch of an aborted run ends with the call at hand.        *)
BatchEnds(i) == i = Len(calls) \/ (calls[i] = "finished" /\ ~AllAtOnce /\ aborted)

ReportedResults(n) == [i \in 1..n |-> ToolResult(replies, Len(calls) - i)]

Report ==
  LET i == reported + 1 IN
  /\ pc = "calls"
  /\ i <= Len(calls)
  /\ Reportable(i)
  /\ transcript' = Append(transcript, ToolResult(replies, Len(calls) - i))
  /\ IF BatchEnds(i)
     THEN /\ context' = context \o ReportedResults(i)
          /\ more' = ~terminating
          /\ pc' = "turnEnd"
          /\ NoBatch
     ELSE /\ reported' = i
          /\ UNCHANGED <<context, more, pc, calls, terminating>>
  /\ Interrupts(BatchEnds(i) /\ aborted)
  /\ UNCHANGED <<queues, pending, skipPoll, parallel, aborted, numbers, dropped,
                 wiped>>

-----------------------------------------------------------------------------
(* The end of a turn: poll for steers, and for follow-ups when the loop    *)
(* would stop.                                                             *)

NextTurn(messages) ==
  /\ pending' = messages
  /\ pc' = "turn"

EndTurn ==
  /\ pc = "turnEnd"
  /\ \/ /\ more \/ steering # <<>>
        /\ NextTurn(Drained(steering, SteeringMode))
        /\ steering' = Kept(steering, SteeringMode)
        /\ UNCHANGED <<followUps, more>>
     \/ /\ ~more /\ steering = <<>> /\ followUps # <<>>
        /\ NextTurn(Drained(followUps, FollowUpMode))
        /\ followUps' = Kept(followUps, FollowUpMode)
        /\ more' = TRUE
        /\ UNCHANGED steering
     \/ /\ ~more /\ steering = <<>> /\ followUps = <<>>
        /\ pc' = "ending"
        /\ UNCHANGED <<queues, pending, more>>
  /\ UNCHANGED <<transcript, context, skipPoll, parallel, batch, aborted, numbers,
                 dropped, wiped, interrupted>>

-----------------------------------------------------------------------------
(* _run_with_lifecycle: how a run ends.  The locals of the loop go with    *)
(* it, messages it has taken from a queue included.                        *)

LoopEnds ==
  /\ context' = <<>>
  /\ pending' = <<>>
  /\ NoBatch
  /\ skipPoll' = FALSE /\ parallel' = FALSE /\ more' = FALSE /\ wiped' = FALSE
  /\ dropped' = dropped \cup QueuedIn(pending)
  /\ Interrupts(calls # <<>>)

Finish ==
  /\ pc' = "idle"
  /\ aborted' = FALSE
  /\ LoopEnds
  /\ UNCHANGED <<queues, numbers>>

End ==
  /\ pc \in {"ending", "failing"}
  /\ Finish
  /\ UNCHANGED transcript

(* Hooks and tools may raise without harm; listeners and the stream not.   *)
MayRaise ==
  /\ pc \in Stages \ {"idle", "failing"}
  /\ pc = "calls" =>
       /\ \A i \in DOMAIN calls : calls[i] # "executing"
       /\ AllAtOnce => AllFinished \/ \A i \in DOMAIN calls : calls[i] = "queued"

(* _handle_run_failure appends a message that says so.                     *)
Fail ==
  /\ MayRaise
  /\ transcript' = Append(transcript, FailureMessage)
  /\ pc' = "failing"
  /\ LoopEnds
  /\ UNCHANGED <<queues, aborted, numbers>>

(* The task of the run is cancelled, or a listener raises once more: the   *)
(* run ends without a word.                                                *)
Cut ==
  /\ Active
  /\ Finish
  /\ UNCHANGED transcript

-----------------------------------------------------------------------------
Advance ==
  \/ Announce \/ FirstPoll \/ Inject \/ StartStream
  \/ \E k \in 0..MaxCalls, reason \in {"stop", "length", "error"} : Reply(reason, k)
  \/ \E i \in DOMAIN calls : Refuse(i) \/ Execute(i) \/ Executed(i)
  \/ Report \/ EndTurn \/ End

User == Steer \/ FollowUp \/ ClearAllQueues \/ Reset \/ Abort \/ Prompt \/ ContinueRun

Next == Advance \/ Fail \/ Cut \/ User

Spec == Init /\ [][Next]_vars

(* The event loop resumes what is ready; replies, tools and listeners end. *)
FairSpec == Spec /\ WF_vars(Advance)
-----------------------------------------------------------------------------
(***************************************************************************)
(* Properties                                                              *)
(***************************************************************************)

TypeOK ==
  /\ {transcript, context, steering, followUps, pending} \subseteq Seq(Message)
  /\ pc \in Stages
  /\ {skipPoll, parallel, terminating, more, aborted, wiped} \subseteq BOOLEAN
  /\ calls \in Seq({"queued", "executing", "finished", "truncated"})
  /\ reported \in 0..Len(calls)
  /\ aborted => Active
  /\ {runs, replies, steers, follows} \subseteq Nat
  /\ dropped \subseteq {"steer", "follow"} \X Nat
  /\ interrupted \subseteq Nat

Answers(n, m) ==
  /\ n.kind = "result"
  /\ m.left > 0
  /\ n.run = m.run
  /\ n.left = m.left - 1

(* In the transcript a tool result stands behind its call, whatever was    *)
(* queued, aborted or executed out of order; only reset() cuts it off      *)
(* (_execute_tool_calls, _process_events).                                 *)
ResultsFollowCalls ==
  \A i \in 2..Len(transcript) :
    transcript[i].kind = "result" => Answers(transcript[i], transcript[i - 1])

(* When the model is called, the result of each call in the context stands *)
(* right behind it.  The calls that have none are those of a run in which  *)
(* abort(), an error or a cancellation met a batch; in the run that goes   *)
(* on it can only be a sequential batch that abort() has cut.              *)
ModelSeesAnswers ==
  pc = "streaming" =>
    \A i \in 1..Len(context) :
      context[i].left > 0 =>
        \/ i < Len(context) /\ Answers(context[i + 1], context[i])
        \/ /\ context[i].run \in interrupted
           /\ context[i].run = runs => aborted /\ ~parallel

(* What listeners have been told is what the model is shown: at the head   *)
(* of a turn the agent's transcript is the loop's context, or the end of   *)
(* it if the transcript was reset while the run was active.                *)
MirrorsContext ==
  pc \in {"turn", "streaming"} =>
    /\ Len(transcript) <= Len(context)
    /\ transcript = SubSeq(context, Len(context) - Len(transcript) + 1, Len(context))
    /\ ~wiped => Len(transcript) = Len(context)

(* Whatever the order in which the calls of a batch end, and whatever is   *)
(* queued, reset or aborted meanwhile, the model and the listeners are     *)
(* shown the same messages, and in them only an interrupted batch leaves   *)
(* calls without results.                                                  *)
ConversationShared == ResultsFollowCalls /\ ModelSeesAnswers /\ MirrorsContext

(* The messages of one kind stand in s in the order of their numbers.      *)
InOrder(s, kind) ==
  \A i, k \in 1..Len(s) :
    i < k /\ s[i].kind = kind /\ s[k].kind = kind => s[i].id < s[k].id

(* No queued message is delivered twice or before an older one of its      *)
(* queue, through any sequence of polls, runs and continuations.           *)
QueuedOnceInOrder ==
  /\ InOrder(transcript \o pending \o steering, "steer")
  /\ InOrder(transcript \o pending \o followUps, "follow")

(* A queued message is in its queue, on its way or in the transcript,      *)
(* unless it was cleared, reset, or on its way when its run failed.        *)
NothingLost ==
  LET seen == QueuedIn(transcript \o pending \o steering \o followUps) \cup dropped
  IN  /\ \A n \in 1..steers : <<"steer", n>> \in seen
      /\ \A n \in 1..follows : <<"follow", n>> \in seen

(* steer() and follow_up(): each queued message has one fate.              *)
QueuedDelivered == QueuedOnceInOrder /\ NothingLost

(* A run ends once the model stops asking for tools: queues are finite and *)
(* every batch is reported to its end.                                     *)
RunEnds == Active ~> ~Active

(* A conversation that is sound and of the declared types.                 *)
AgentSound == TypeOK /\ ConversationShared
=============================================================================
