--------------------------- MODULE ResponseStream ---------------------------
(***************************************************************************)
(* A model's answer on its way to the consumer: the providers of pi_ai     *)
(* (openai, nvidia_glm, the two Kimi providers, nvidia_models with its     *)
(* fallback chain, faux) read the answer of a server line by line in a     *)
(* background task and push events into an EventStream, from which the     *)
(* session takes them.                                                     *)
(*                                                                         *)
(* A piece of text is the number of the line it came with; a block is the  *)
(* sequence of its pieces.  A line is [r, c, t, z, f]: a piece of          *)
(* reasoning, a piece of text, a fragment of the arguments of tool call t  *)
(* (0: none), whether it closes the JSON object, a finish reason.          *)
(***************************************************************************)
EXTENDS Integers, Sequences, FiniteSets, SequencesExt

CONSTANTS
  Producers, \* which providers: of "openai", "glm", "kimi", "nvidia", "auto", "faux"
  Chain,     \* number of models nvidia/auto tries
  MaxLines   \* lines of an answer

ResponseAssumption ==
  Producers \subseteq {"openai", "glm", "kimi", "nvidia", "auto", "faux"} /\ Chain \in Nat \ {0} /\ MaxLines \in Nat

VARIABLES
  producer, \* the provider that answers
  task,     \* its background task: "connect", "lines", "over" or "died"
  attempt,  \* index in the fallback chain
  lines,    \* history: what the server sent
  p,        \* locals of the parsing loop
  st,       \* the EventStream and its one waiter
  consumer, \* "ready", "waiting", "over" or "gone" (cancelled)
  taken,    \* the events the consumer got
  pushed    \* history: the events accepted by push

responseVars == <<producer, task, attempt, lines, p, st, consumer, taken, pushed>>

Reasons == {"tool_calls", "length", "stop"}
Line(r, c, t, f) == [r |-> r, c |-> c, t |-> t, z |-> FALSE, f |-> f]
Closing(t) == [Line(FALSE, FALSE, t, "") EXCEPT !.z = TRUE]
Lines ==
  {Line(TRUE, FALSE, 0, ""), Line(TRUE, TRUE, 0, ""), Line(FALSE, TRUE, 0, "")} \cup
  {Line(FALSE, TRUE, 1, "")} \cup {Line(FALSE, FALSE, t, "") : t \in {1, 2}} \cup {Closing(t) : t \in {1, 2}} \cup
  {Line(FALSE, FALSE, 0, f) : f \in Reasons}

Block(type, pieces) == [type |-> type, pieces |-> pieces]
Event(type, at, data) == [type |-> type, at |-> at, data |-> data]
Terminal(e) == e.type \in {"done", "error"}
Failure == [reason |-> "error", content |-> <<>>]
Thinks == producer \in {"nvidia", "auto"}

(***************************************************************************)
(* The EventStream.  A waiter is the future of a consumer in _iterate:     *)
(* "none", "open" or "cancelled"; item is what an open one was given.      *)
(***************************************************************************)
NoItem == Event("none", 0, <<>>)
EndItem == Event("end", 0, <<>>)
Fresh == [queue |-> <<>>, waiter |-> "none", item |-> NoItem, done |-> FALSE, result |-> <<>>,
          raised |-> FALSE, accepted |-> <<>>]

(* A result that is resolved stays as it is.  A waiter that was cancelled  *)
(* is still in the list: giving it the event raises in the producer.       *)
Push(s, e) ==
  IF s.done \/ s.raised THEN s
  ELSE [s EXCEPT !.done = Terminal(e),
                 !.result = IF Terminal(e) THEN <<e.data>> ELSE @,
                 !.waiter = "none",
                 !.item = IF s.waiter = "open" THEN e ELSE @,
                 !.raised = s.waiter = "cancelled",
                 !.queue = IF s.waiter = "none" THEN Append(@, e) ELSE @,
                 !.accepted = Append(@, e)]
PushAll(s, events) == FoldLeft(Push, s, events)

End(s, result) ==
  [s EXCEPT !.done = TRUE, !.result = IF @ = <<>> THEN <<result>> ELSE @, !.waiter = "none",
            !.item = IF s.waiter = "open" THEN EndItem ELSE @]

(***************************************************************************)
(* The parsing loop, a line at a time.  at is content_index.               *)
(***************************************************************************)
NoCalls == [i \in {} |-> <<>>]
Parser == [content |-> <<>>, text |-> FALSE, thinking |-> FALSE, at |-> 0, calls |-> NoCalls,
           finish |-> "", events |-> <<>>, ok |-> TRUE]
Emit(q, e) == [q EXCEPT !.events = Append(@, e)]
Current(q) == q.content[q.at + 1]
Extended(q, n) == [q EXCEPT !.content[q.at + 1].pieces = Append(@, n)]

(* nvidia: reasoning goes to the block at content_index, which must be a   *)
(* thinking block: after text it is not, and the assertion fails.          *)
Reasoned(q, n) ==
  LET started == IF q.thinking THEN q
                 ELSE Emit([q EXCEPT !.content = Append(@, Block("thinking", <<>>)), !.thinking = TRUE],
                           Event("thinking_start", q.at, <<>>))
  IN IF Current(started).type # "thinking" THEN [started EXCEPT !.ok = FALSE]
     ELSE Emit(Extended(started, n), Event("thinking_delta", q.at, <<n>>))

ThoughtEnds(q) ==
  IF ~q.thinking THEN q
  ELSE Emit([q EXCEPT !.at = @ + 1, !.thinking = FALSE], Event("thinking_end", q.at, Current(q).pieces))

(* Only openai announces a text block.                                     *)
TextBegins(q) ==
  LET begun == [q EXCEPT !.content = Append(@, Block("text", <<>>)), !.text = TRUE]
  IN IF q.text THEN q
     ELSE IF producer = "openai" THEN Emit(begun, Event("text_start", q.at, <<>>)) ELSE begun
Wrote(q, n) ==
  LET begun == TextBegins(ThoughtEnds(q))
  IN Emit(Extended(begun, n), Event("text_delta", begun.at, <<n>>))

CalledAfresh(q, t, n) == [q EXCEPT !.calls = [i \in DOMAIN @ \cup {t} |-> IF i = t THEN <<n>> ELSE @[i]]]

(* tool_calls_acc: fragments are joined by their index.                    *)
Called(q, t, n) ==
  [q EXCEPT !.calls = [i \in DOMAIN @ \cup {t} |->
                         (IF i \in DOMAIN @ THEN @[i] ELSE <<>>) \o (IF i = t THEN <<n>> ELSE <<>>)]]

Parsed(q, l, n) ==
  LET thought == IF l.r /\ Thinks THEN Reasoned(q, n) ELSE q
      wrote == IF l.c /\ thought.ok THEN Wrote(thought, n) ELSE thought
      called == IF l.t # 0 /\ wrote.ok THEN Called(wrote, l.t, n) ELSE wrote
  IN IF l.f # "" THEN [called EXCEPT !.finish = l.f] ELSE called

(* json.loads of the fragments: the last one, and no other, closes the     *)
(* object that the first one opened.                                       *)
IsObject(pieces) == \A i \in DOMAIN pieces : lines[pieces[i]].z <=> i = Len(pieces)

(* After the last line: open blocks end, then the calls, by index.         *)
(* Arguments that do not parse are dropped: the call goes on without any.  *)
CallEnds(q, t) ==
  LET arguments == IF IsObject(q.calls[t]) THEN q.calls[t] ELSE <<>>
  IN Emit([q EXCEPT !.content = Append(@, Block("call", arguments)), !.at = @ + 1],
          Event("toolcall_end", q.at, arguments))
Finished(q) ==
  LET thought == ThoughtEnds(q)
      wrote == IF ~q.text THEN thought
               ELSE Emit([thought EXCEPT !.at = @ + 1], Event("text_end", thought.at, Current(thought).pieces))
  IN FoldLeft(CallEnds, wrote, SetToSortSeq(DOMAIN q.calls, <))

StopReason(f) == CASE f = "tool_calls" -> "toolUse" [] f = "length" -> "length" [] OTHER -> "stop"

(***************************************************************************)
(* The background task.                                                    *)
(***************************************************************************)
Init ==
  /\ producer \in Producers /\ task = "connect" /\ attempt = 1 /\ lines = <<>>
  /\ p = Parser /\ st = Fresh /\ consumer = "ready" /\ taken = <<>> /\ pushed = <<>>

(* Push the events of a step and go on in state next; a push that raises   *)
(* is caught, as every exception of the parsing, and reported as an error. *)
Keep(s) == st' = [s EXCEPT !.accepted = <<>>, !.raised = FALSE] /\ pushed' = pushed \o s.accepted
Report(s) ==
  LET told == Push([s EXCEPT !.raised = FALSE], Event("error", 0, Failure))
  IN IF told.raised THEN Keep(told) /\ task' = "died" ELSE Keep(End(told, Failure)) /\ task' = "over"
Go(q, next) ==
  LET s == PushAll(st, q.events)
  IN /\ p' = [q EXCEPT !.events = <<>>]
     /\ IF q.ok /\ ~s.raised THEN Keep(s) /\ task' = next ELSE Report(s)

Stays == UNCHANGED <<producer, consumer, taken>>

(* A 200 arrived.                                                          *)
Answered ==
  /\ task = "connect"
  /\ Go(Emit(p, Event("start", 0, <<>>)), "lines")
  /\ UNCHANGED <<attempt, lines>> /\ Stays

(* No connection, or another status.  nvidia/auto tries the next model and *)
(* reports only when all have failed.                                      *)
Unavailable ==
  /\ task = "connect" /\ producer # "faux"
  /\ IF producer = "auto" /\ attempt < Chain
     THEN attempt' = attempt + 1 /\ UNCHANGED <<task, st, pushed>>
     ELSE Report(st) /\ UNCHANGED attempt
  /\ UNCHANGED <<lines, p>> /\ Stays

(* The request cannot be built (a header that is not ASCII, an argument    *)
(* that is not JSON): nvidia_models catches only httpx.HTTPError, and      *)
(* openai converts the messages before its try; the exception ends the     *)
(* task.                                                                   *)
Unbuildable ==
  /\ task = "connect" /\ attempt = 1
  /\ \/ (Thinks \/ producer = "openai") /\ task' = "died" /\ UNCHANGED <<st, pushed>>
     \/ ~Thinks /\ Report(st)
  /\ UNCHANGED <<attempt, lines, p>> /\ Stays

OneLine(l) ==
  /\ task = "lines" /\ producer # "faux" /\ Len(lines) < MaxLines
  /\ lines' = Append(lines, l)
  /\ Go(Parsed(p, l, Len(lines) + 1), "lines")
  /\ UNCHANGED attempt /\ Stays

(* The connection drops, or a line is not what the loop expects.           *)
Dropped ==
  /\ task = "lines" /\ producer # "faux"
  /\ Report(st) /\ UNCHANGED <<attempt, lines, p>> /\ Stays

(* [DONE], or just the end: not told apart.                                *)
Completed ==
  /\ task = "lines" /\ producer # "faux"
  /\ LET q == Finished(p)
         message == [reason |-> StopReason(q.finish), content |-> q.content]
         s == PushAll(st, Append(q.events, Event("done", 0, message)))
     IN /\ p' = [q EXCEPT !.events = <<>>]
        /\ IF s.raised THEN Report(s) ELSE Keep(End(s, message)) /\ task' = "over"
  /\ UNCHANGED <<attempt, lines>> /\ Stays

(* faux replays a message that it has: the next piece of a block, or the   *)
(* first piece of the next one.                                            *)
FauxBlockEnds(q) ==
  IF q.content = <<>> THEN q
  ELSE Emit([q EXCEPT !.at = @ + 1], Event(Current(q).type \o "_end", q.at, Current(q).pieces))
FauxPiece(type, fresh) ==
  LET n == Len(lines) + 1
      ended == FauxBlockEnds(p)
      begun == IF ~fresh THEN p
               ELSE Emit([ended EXCEPT !.content = Append(@, Block(type, <<>>))],
                         Event(type \o "_start", ended.at, <<>>))
  IN /\ task = "lines" /\ producer = "faux" /\ Len(lines) < MaxLines
     /\ ~fresh => p.content # <<>> /\ Current(p).type = type
     /\ lines' = Append(lines, Line(FALSE, FALSE, 0, ""))
     /\ Go(Emit(Extended(begun, n), Event(type \o "_delta", begun.at, <<n>>)), "lines")
     /\ UNCHANGED attempt /\ Stays

(* The message ends as it was queued: with an error, aborted or done.      *)
FauxEnds(reason) ==
  /\ task = "lines" /\ producer = "faux"
  /\ LET q == FauxBlockEnds(p)
         message == [reason |-> reason, content |-> p.content]
         s == PushAll(st, Append(q.events, Event(IF reason = "stop" THEN "done" ELSE "error", 0, message)))
     IN /\ p' = [q EXCEPT !.events = <<>>]
        /\ IF s.raised THEN Report(s) ELSE Keep(End(s, message)) /\ task' = "over"
  /\ UNCHANGED <<attempt, lines>> /\ Stays

(***************************************************************************)
(* The consumer, a task that iterates over the stream.                     *)
(***************************************************************************)
Take ==
  /\ consumer = "ready" /\ st.queue # <<>>
  /\ taken' = Append(taken, Head(st.queue)) /\ st' = [st EXCEPT !.queue = Tail(@)]
  /\ UNCHANGED consumer
Exhausted ==
  /\ consumer = "ready" /\ st.queue = <<>> /\ st.done
  /\ consumer' = "over" /\ UNCHANGED <<taken, st>>
Wait ==
  /\ consumer = "ready" /\ st.queue = <<>> /\ ~st.done
  /\ consumer' = "waiting" /\ st' = [st EXCEPT !.waiter = "open"] /\ UNCHANGED taken
Resume ==
  /\ consumer = "waiting" /\ st.item # NoItem
  /\ st' = [st EXCEPT !.item = NoItem]
  /\ IF st.item = EndItem THEN consumer' = "over" /\ UNCHANGED taken
     ELSE consumer' = "ready" /\ taken' = Append(taken, st.item)
Cancel ==
  /\ consumer = "waiting"
  /\ consumer' = "gone"
  /\ st' = [st EXCEPT !.waiter = IF @ = "open" THEN "cancelled" ELSE @, !.item = NoItem]
  /\ UNCHANGED taken
Consume ==
  (Take \/ Exhausted \/ Wait \/ Resume \/ Cancel) /\ UNCHANGED <<producer, task, attempt, lines, p, pushed>>

Next ==
  \/ Answered \/ Unavailable \/ Unbuildable \/ Dropped \/ Completed
  \/ \E l \in Lines : OneLine(l)
  \/ \E type \in {"thinking", "text", "toolcall"}, fresh \in BOOLEAN : FauxPiece(type, fresh)
  \/ \E reason \in {"stop", "error", "aborted"} : FauxEnds(reason)
  \/ Consume

(***************************************************************************)
(* Properties.                                                             *)
(***************************************************************************)
TypeOK ==
  /\ producer \in Producers /\ task \in {"connect", "lines", "over", "died"} /\ attempt \in 1 .. Chain
  /\ st.waiter \in {"none", "open", "cancelled"} /\ consumer \in {"ready", "waiting", "over", "gone"}

(* The consumer gets what was pushed, each event once and in order, and    *)
(* nothing comes after the one event that ends the answer.                 *)
EventsInOrder ==
  /\ consumer # "gone" =>
       pushed = taken \o (IF st.item \in {NoItem, EndItem} THEN <<>> ELSE <<st.item>>) \o st.queue
  /\ \A i \in DOMAIN pushed : Terminal(pushed[i]) => i = Len(pushed)
  /\ consumer = "over" => taken = pushed /\ Terminal(Last(taken))

(* A task that is over leaves nobody waiting, and the result is what the   *)
(* last event says.                                                        *)
TaskLeavesNobody ==
  /\ task = "over" => st.done /\ st.waiter = "none"
  /\ st.done => /\ st.result # <<>>
                /\ pushed # <<>> /\ Terminal(Last(pushed)) /\ st.result[1] = Last(pushed).data

(* The events that a consumer was shown and the message it keeps agree:    *)
(* the deltas of an index make up its block, an end event has the whole    *)
(* block, and every tool call is there, in order: with all its fragments   *)
(* if they make up one object (the last and only the last one closes it),  *)
(* and otherwise with no arguments at all, never with some of them.        *)
DeltasOf(i, types) ==
  FlattenSeq([k \in DOMAIN pushed |-> IF pushed[k].type \in types /\ pushed[k].at = i THEN pushed[k].data ELSE <<>>])
FragmentsOf(t) == SelectSeq([k \in DOMAIN lines |-> k], LAMBDA k : lines[k].t = t)
Arguments(t) ==
  LET sent == FragmentsOf(t)
      closing == SelectSeq(sent, LAMBDA k : lines[k].z)
  IN IF closing = <<sent[Len(sent)]>> THEN sent ELSE <<>>
CallsSent == {t \in {1, 2} : FragmentsOf(t) # <<>>}
AnswerShown ==
  st.done /\ pushed # <<>> /\ Last(pushed).type = "done" =>
    LET content == st.result[1].content
        ends == SelectSeq(pushed, LAMBDA e : e.type \in {"thinking_end", "text_end", "toolcall_end"})
        calls == SelectSeq(content, LAMBDA b : b.type = "call")
    IN /\ \A i \in DOMAIN content : content[i].type # "call" =>
            DeltasOf(i - 1, {"thinking_delta", "text_delta", "toolcall_delta"}) = content[i].pieces
       /\ [i \in DOMAIN ends |-> ends[i].at] = [i \in DOMAIN content |-> i - 1]
       /\ [i \in DOMAIN ends |-> ends[i].data] = [i \in DOMAIN content |-> content[i].pieces]
       /\ [i \in DOMAIN calls |-> calls[i].pieces]
            = [i \in 1 .. Cardinality(CallsSent) |-> Arguments(SetToSortSeq(CallsSent, <)[i])]

(* Of a fallback chain only one model is ever heard.                       *)
OneVoice ==
  /\ Cardinality({k \in DOMAIN pushed : pushed[k].type = "start"}) <= 1
  /\ pushed # <<>> /\ pushed[1].type # "start" => pushed[1].type = "error" /\ (producer = "auto" /\ attempt # 1 => attempt = Chain)

AnswerArrives == TypeOK /\ EventsInOrder /\ TaskLeavesNobody /\ AnswerShown /\ OneVoice
=============================================================================
