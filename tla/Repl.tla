-------------------------------- MODULE Repl --------------------------------
(***************************************************************************)
(* The classic terminal loop.  repl_loop reads a line, runs a turn in a    *)
(* task of its own and goes on reading: a line typed while the turn runs   *)
(* answers the question of a tool call or is routed to the session as a    *)
(* steer or a stop.  Reading blocks a thread on stdin, which nothing but   *)
(* a line or the end of the input releases; the reader that is left when   *)
(* a turn ends is kept for the next prompt.                                *)
(***************************************************************************)
EXTENDS Integers, Sequences, FiniteSets

CONSTANTS
  Sessions,   \* session files that /session resume may switch between
  MaxLines,   \* bound: lines submitted in a behaviour
  MaxCalls,   \* bound: tool calls in one turn
  MaxStarts   \* bound: processes, the first one included

ASSUME ReplAssumption ==
  /\ Sessions # {}
  /\ {MaxLines, MaxCalls, MaxStarts} \subseteq Nat

VARIABLES
  loop,      \* where repl_loop waits: "prompt", "turn", or "exited"
  running,   \* _running
  reader,    \* the task of _read_live_line: "none", "waiting", "ready"
  line,      \* the line a ready reader returns
  blocked,   \* threads blocked on stdin
  closed,    \* stdin is at its end
  mode,      \* _permission_mode
  turn,      \* where the turn's task waits
  calls,     \* tool calls of the turn so far
  question,  \* _pending_confirm_future: "none", "open", "yes" or "no"
  steers,    \* _pending_steer of the session
  stopping,  \* _stop_requested of the session
  current,   \* _session_id
  count,     \* _message_count
  files,     \* the entries in each session's file
  typed,     \* lines submitted so far, which numbers them
  turns,     \* turns started so far
  heard,     \* history: the lines that became user messages, in order
  spent,     \* history: lines that were commands, answers, stops or blank
  dropped,   \* history: lines that came to nothing
  approved,  \* history: tool calls that ran because of an answer
  consents,  \* history: submitted lines that say yes
  starts     \* processes so far

input   == <<reader, line, blocked, closed>>
session == <<steers, stopping>>
store   == <<current, count, files>>
history == <<heard, spent, dropped, approved, consents>>
vars == <<loop, running, input, mode, turn, calls, question, session, store,
          typed, turns, history, starts>>

Kinds == {"text", "yes", "blank", "stop", "usage", "command", "resume", "exit", "eof"}
Modes == {"default", "acceptEdits", "plan"}
Tools == {"read", "edit", "soul"}
Roles == {"user", "assistant"}

NoLine == [id |-> 0, kind |-> "blank"]

(* A user message: the line, the turn it was typed for and the turn whose  *)
(* model hears it.                                                         *)
Message(id, for, in) == [id |-> id, for |-> for, in |-> in]

\* Mutant: the count is raised after the number is taken.
EntryBehind(role) == [seq |-> count - 1, role |-> role]

Entry(role) == [seq |-> count, role |-> role]

Init ==
  /\ loop = "prompt" /\ running = TRUE
  /\ reader = "waiting" /\ line = NoLine /\ blocked = 1 /\ closed = FALSE
  /\ mode = "default"
  /\ turn = "none" /\ calls = 0 /\ question = "none"
  /\ steers = <<>> /\ stopping = FALSE
  /\ current \in Sessions /\ count = 0 /\ files = [s \in Sessions |-> <<>>]
  /\ typed = 0 /\ turns = 0
  /\ heard = <<>> /\ spent = {} /\ dropped = {} /\ approved = 0 /\ consents = 0
  /\ starts = 1

-----------------------------------------------------------------------------
(* _read_live_line starts a thread that blocks on stdin.                   *)

StartReader ==
  /\ reader' = "waiting"
  /\ line' = NoLine
  /\ blocked' = blocked + 1
  /\ closed' = closed

NoReader ==
  /\ reader' = "none"
  /\ line' = NoLine
  /\ UNCHANGED <<blocked, closed>>

\* Mutant: the flag is set once, at the start of the turn.
MidTurnReaderAssumed == loop = "turn"

(* _mid_turn_reader_active *)
MidTurnReaderActive == loop = "turn" /\ reader # "none"

Submit(kind) ==
  /\ loop # "exited"
  /\ reader = "waiting"
  /\ ~closed
  /\ typed < MaxLines
  /\ typed' = typed + 1
  /\ reader' = "ready"
  /\ line' = [id |-> typed + 1, kind |-> kind]
  /\ blocked' = blocked - 1
  /\ consents' = IF kind = "yes" THEN consents + 1 ELSE consents
  /\ UNCHANGED <<loop, running, closed, mode, turn, calls, question, session,
                 store, turns, heard, spent, dropped, approved, starts>>

CloseInput ==
  /\ loop # "exited"
  /\ ~closed
  /\ closed' = TRUE
  /\ UNCHANGED <<loop, running, reader, line, blocked, mode, turn, calls, question,
                 session, store, typed, turns, history, starts>>

(* The end of the input releases a reader.                                 *)
ReadEof ==
  /\ loop # "exited"
  /\ closed
  /\ reader = "waiting"
  /\ reader' = "ready"
  /\ line' = [id |-> 0, kind |-> "eof"]
  /\ blocked' = blocked - 1
  /\ UNCHANGED <<loop, running, closed, mode, turn, calls, question, session,
                 store, typed, turns, history, starts>>

(* Shift+tab, seen by the thread that reads keys.                          *)
CyclePermissionMode ==
  /\ loop # "exited"
  /\ reader = "waiting"
  /\ mode' = CASE mode = "default"     -> "acceptEdits"
               [] mode = "acceptEdits" -> "plan"
               [] mode = "plan"        -> "default"
  /\ UNCHANGED <<loop, running, input, turn, calls, question, session, store,
                 typed, turns, history, starts>>

-----------------------------------------------------------------------------
(* The session's file.                                                     *)

PersistMessage(role) ==
  /\ files' = [files EXCEPT ![current] = Append(@, Entry(role))]
  /\ count' = count + 1
  /\ current' = current

\* Mutant: the count of the session that is left is carried over.
RestoreOnTop(s) == count + Len(files[s])

(* Entries are counted as they are restored; every entry of the file that  *)
(* this program writes is restored.                                        *)
Restored(s) == Len(files[s])

-----------------------------------------------------------------------------
(* repl_loop with a line at its prompt.                                    *)

AtPrompt(kinds) == loop = "prompt" /\ reader = "ready" /\ line.kind \in kinds

SpendLine == spent' = IF line.id = 0 THEN spent ELSE spent \cup {line.id}

ExitLoop ==
  /\ AtPrompt({"eof", "exit"})
  /\ loop' = "exited"
  /\ SpendLine
  /\ NoReader
  /\ UNCHANGED <<running, mode, turn, calls, question, session, store, typed,
                 turns, heard, dropped, approved, consents, starts>>

Command ==
  /\ AtPrompt({"blank", "command", "stop", "usage"})
  /\ SpendLine
  /\ StartReader
  /\ UNCHANGED <<loop, running, mode, turn, calls, question, session, store, typed,
                 turns, heard, dropped, approved, consents, starts>>

(* /session resume: nothing of the AgentSession but its messages changes.  *)
ResumeSession(s) ==
  /\ AtPrompt({"resume"})
  /\ IF s = current
     THEN UNCHANGED store
     ELSE /\ current' = s
          /\ count' = Restored(s)
          /\ files' = files
  /\ SpendLine
  /\ StartReader
  /\ UNCHANGED <<loop, running, mode, turn, calls, question, session, typed,
                 turns, heard, dropped, approved, consents, starts>>

(* run_turn persists the prompt before the session sees it.                *)
RunTurn ==
  /\ AtPrompt({"text", "yes"})
  /\ loop' = "turn"
  /\ turn' = "boundary"
  /\ calls' = 0
  /\ turns' = turns + 1
  /\ heard' = Append(heard, Message(line.id, turns + 1, turns + 1))
  /\ PersistMessage("user")
  /\ StartReader
  /\ UNCHANGED <<running, mode, question, session, typed, spent, dropped, approved,
                 consents, starts>>

-----------------------------------------------------------------------------
(* _run_turn_accepting_mid_turn_input.                                     *)

\* Mutant: whatever is not a no is a yes.
AnswerDefaultsToYes(kind) ==
  IF question = "open"
  THEN IF kind \in {"blank", "eof"} THEN "no" ELSE "yes"
  ELSE question

\* Mutant: the end of the input leaves an open question open.
AnswerWithoutEof(kind) ==
  IF question = "open" /\ kind # "eof"
  THEN IF kind = "yes" THEN "yes" ELSE "no"
  ELSE question

(* An open question takes any line; only a yes is a yes.                   *)
Answer(kind) ==
  IF question = "open"
  THEN IF kind = "yes" THEN "yes" ELSE "no"
  ELSE question

(* _handle_mid_turn_input queues a command like any other text.            *)
Steers == question # "open" /\ line.kind \notin {"blank", "stop", "usage", "eof"}

HandleLine ==
  /\ loop = "turn"
  /\ turn # "done"
  /\ reader = "ready"
  /\ question' = Answer(line.kind)
  /\ IF Steers
     THEN steers' = Append(steers, [id |-> line.id, for |-> turns]) /\ UNCHANGED spent
     ELSE SpendLine /\ UNCHANGED steers
  /\ stopping' = (stopping \/ line.kind = "eof" \/ (line.kind = "stop" /\ question # "open"))
  /\ IF line.kind = "eof"
     THEN running' = FALSE /\ NoReader
     ELSE UNCHANGED running /\ StartReader
  /\ UNCHANGED <<loop, mode, turn, calls, store, typed, turns, heard, dropped,
                 approved, consents, starts>>

(* repl_loop reuses the reader that is left, unless its line came together *)
(* with the end of the turn.                                               *)
NextReader ==
  IF reader = "waiting" THEN UNCHANGED <<reader, line, blocked, closed>> ELSE StartReader

TurnOver ==
  /\ loop = "turn"
  /\ turn = "done"
  /\ turn' = "none"
  /\ dropped' = IF line.id # 0 THEN dropped \cup {line.id} ELSE dropped
  /\ IF running
     THEN loop' = "prompt" /\ NextReader
     ELSE loop' = "exited" /\ NoReader
  /\ UNCHANGED <<running, mode, calls, question, session, store, typed, turns,
                 heard, spent, approved, consents, starts>>

(* A KeyboardInterrupt that reaches the loop cancels the turn.             *)
Interrupt ==
  /\ loop # "exited"
  /\ loop' = "exited"
  /\ turn' = "none"
  /\ question' = "none"
  /\ dropped' = IF line.id # 0 THEN dropped \cup {line.id} ELSE dropped
  /\ NoReader
  /\ UNCHANGED <<running, mode, calls, session, store, typed, turns, heard, spent,
                 approved, consents, starts>>

(* A new process restores a session.                                       *)
Restart(s) ==
  /\ loop = "exited"
  /\ starts < MaxStarts
  /\ starts' = starts + 1
  /\ loop' = "prompt"
  /\ running' = TRUE
  /\ reader' = "waiting" /\ line' = NoLine /\ blocked' = 1 /\ closed' = FALSE
  /\ mode' = "default"
  /\ steers' = <<>> /\ stopping' = FALSE
  /\ current' = s /\ count' = Len(files[s]) /\ files' = files
  /\ dropped' = dropped \cup {steers[i].id : i \in 1..Len(steers)}
  /\ UNCHANGED <<turn, calls, question, typed, turns, heard, spent, approved,
                 consents>>

-----------------------------------------------------------------------------
(* The task of the turn: AgentSession.prompt, its gate and its tools.      *)

InTurn(stages) == loop = "turn" /\ turn \in stages

(* The result of a prompt is persisted by run_turn.                        *)
EndTurn ==
  /\ turn' = "done"
  /\ PersistMessage("assistant")

(* The head of _run_turns: a stop ends the prompt, else steers are heard.  *)
Stopped ==
  /\ InTurn({"boundary"})
  /\ stopping
  /\ stopping' = FALSE
  /\ EndTurn
  /\ UNCHANGED <<loop, running, input, mode, calls, question, steers, typed, turns,
                 history, starts>>

\* Mutant: the steers are read without being taken from the queue.
BeginRoundKeepingSteers ==
  /\ InTurn({"boundary"})
  /\ ~stopping
  /\ turn' = "streaming"
  /\ heard' = heard \o [i \in 1..Len(steers) |-> Message(steers[i].id, steers[i].for, turns)]
  /\ UNCHANGED <<loop, running, input, mode, calls, question, session, store, typed,
                 turns, spent, dropped, approved, consents, starts>>

BeginRound ==
  /\ InTurn({"boundary"})
  /\ ~stopping
  /\ turn' = "streaming"
  /\ heard' = heard \o [i \in 1..Len(steers) |-> Message(steers[i].id, steers[i].for, turns)]
  /\ steers' = <<>>
  /\ UNCHANGED <<loop, running, input, mode, calls, question, stopping, store, typed,
                 turns, spent, dropped, approved, consents, starts>>

FinalReply ==
  /\ InTurn({"streaming"})
  /\ EndTurn
  /\ UNCHANGED <<loop, running, input, mode, calls, question, session, typed, turns,
                 history, starts>>

(* run_turn reports what prompt raises; there is no result to persist.     *)
TurnRaises ==
  /\ InTurn({"boundary", "streaming", "tool"})
  /\ turn' = "done"
  /\ UNCHANGED <<loop, running, input, mode, calls, question, session, store, typed,
                 turns, history, starts>>

Decision(tool) ==
  CASE tool = "soul" -> "ask"
    [] tool = "read" -> "allow"
    [] tool = "edit" ->
         CASE mode = "plan"        -> "deny"
           [] mode = "acceptEdits" -> "allow"
           [] mode = "default"     -> "ask"

\* Mutant: a question starts a reader of its own.
AskAlone == turn' = "input" /\ blocked' = blocked + 1 /\ UNCHANGED question

(* _confirm_tool: ask through the reader of the loop if there is one, else *)
(* block a thread on stdin.                                                *)
Ask ==
  IF MidTurnReaderActive
  THEN turn' = "asking" /\ question' = "open" /\ UNCHANGED blocked
  ELSE turn' = "input" /\ blocked' = blocked + 1 /\ UNCHANGED question

(* The model asks for a tool, or for one more after the last: the gate.    *)
CallTool(tool) ==
  /\ InTurn({"streaming", "called"})
  /\ calls < MaxCalls
  /\ calls' = calls + 1
  /\ CASE Decision(tool) = "allow" -> turn' = "tool" /\ UNCHANGED <<question, blocked>>
       [] Decision(tool) = "deny"  -> turn' = "called" /\ UNCHANGED <<question, blocked>>
       [] Decision(tool) = "ask"   -> Ask
  /\ UNCHANGED <<loop, running, reader, line, closed, mode, session, store, typed,
                 turns, history, starts>>

Approve(yes) ==
  /\ turn' = IF yes THEN "tool" ELSE "called"
  /\ approved' = IF yes THEN approved + 1 ELSE approved

Answered ==
  /\ InTurn({"asking"})
  /\ question \in {"yes", "no"}
  /\ question' = "none"
  /\ Approve(question = "yes")
  /\ UNCHANGED <<loop, running, input, mode, calls, session, store, typed, turns,
                 heard, spent, dropped, consents, starts>>

(* input() takes a line of its own; the end of the input is a no.          *)
AnsweredByInput(kind) ==
  /\ InTurn({"input"})
  /\ IF closed
     THEN kind = "eof" /\ UNCHANGED <<typed, spent, consents>>
     ELSE /\ typed < MaxLines
          /\ typed' = typed + 1
          /\ spent' = spent \cup {typed + 1}
          /\ consents' = IF kind = "yes" THEN consents + 1 ELSE consents
  /\ blocked' = blocked - 1
  /\ Approve(kind = "yes")
  /\ UNCHANGED <<loop, running, reader, line, closed, mode, calls, question, session,
                 store, turns, heard, dropped, starts>>

ToolEnds ==
  /\ InTurn({"tool"})
  /\ turn' = "called"
  /\ UNCHANGED <<loop, running, input, mode, calls, question, session, store, typed,
                 turns, history, starts>>

LastCall ==
  /\ InTurn({"called"})
  /\ turn' = "boundary"
  /\ UNCHANGED <<loop, running, input, mode, calls, question, session, store, typed,
                 turns, history, starts>>

-----------------------------------------------------------------------------
Loop ==
  \/ ReadEof
  \/ ExitLoop \/ Command \/ RunTurn \/ HandleLine \/ TurnOver
  \/ \E s \in Sessions : ResumeSession(s)

Turn ==
  \/ Stopped \/ BeginRound \/ FinalReply \/ Answered \/ ToolEnds \/ LastCall
  \/ \E tool \in Tools : CallTool(tool)
  \/ closed /\ AnsweredByInput("eof")

User ==
  \/ \E kind \in Kinds : Submit(kind) \/ (~closed /\ AnsweredByInput(kind))
  \/ CloseInput \/ CyclePermissionMode \/ Interrupt
  \/ \E s \in Sessions : Restart(s)

Next == Loop \/ Turn \/ TurnRaises \/ User

Spec == Init /\ [][Next]_vars

(* The event loop resumes both tasks; replies and tools end.  The user     *)
(* owes nothing.                                                           *)
FairSpec == Spec /\ WF_vars(Loop) /\ WF_vars(Turn)

-----------------------------------------------------------------------------
(***************************************************************************)
(* Properties                                                              *)
(***************************************************************************)

Line == [id : Nat, kind : Kinds]

TypeOK ==
  /\ loop \in {"prompt", "turn", "exited"}
  /\ {running, closed, stopping} \subseteq BOOLEAN
  /\ reader \in {"none", "waiting", "ready"}
  /\ line \in Line
  /\ mode \in Modes
  /\ turn \in {"none", "boundary", "streaming", "asking", "input", "tool", "called", "done"}
  /\ question \in {"none", "open", "yes", "no"}
  /\ steers \in Seq([id : Nat, for : Nat])
  /\ current \in Sessions
  /\ files \in [Sessions -> Seq([seq : Nat, role : Roles])]
  /\ heard \in Seq([id : Nat, for : Nat, in : Nat])
  /\ {blocked, calls, count, typed, turns, approved, consents, starts} \subseteq Nat
  /\ spent \cup dropped \subseteq Nat

(* No two threads ever compete for a line: a question in the middle of a   *)
(* turn and the prompt after it use the reader that is there               *)
(* (_confirm_tool, _pending_live_input_task).                              *)
OneReader ==
  loop # "exited" =>
    /\ blocked <= 1
    /\ blocked = 1 <=> (reader = "waiting" \/ turn = "input")

(* Whoever waits for the answer to a question has a reader to get it from, *)
(* also when the input ends while the question is open.                    *)
QuestionHasReader == question = "open" => loop = "turn" /\ reader # "none"

(* A question and the loop never compete for the terminal, nor leave it to *)
(* nobody while somebody waits.                                            *)
ReadersServeQuestions == OneReader /\ QuestionHasReader

(* A line is one thing only: a message of the session, a steer that waits, *)
(* an answer or command, or lost with the turn or process it came too late *)
(* for.  A steer is never heard before the turn it was typed in: in that   *)
(* one, or in a later one if no round of it was left.                      *)
LineHasOneFate ==
  LET heardIds == {heard[i].id : i \in 1..Len(heard)}
      queued   == {steers[i].id : i \in 1..Len(steers)}
      unread   == {line.id} \ {0}
  IN  /\ heardIds \cup queued \cup unread \cup spent \cup dropped = 1..typed
      /\ Len(heard) + Len(steers) + Cardinality(unread) + Cardinality(spent)
           + Cardinality(dropped) = typed
      /\ \A i \in 1..Len(heard) : heard[i].for <= heard[i].in

(* A yes lets one tool run: no answer serves two questions, and a line     *)
(* that says something else, or no line, is no consent.                    *)
OneYesOneTool == approved <= consents

(* Through resumes, restarts, failed turns and interrupts a session's file *)
(* numbers its messages without gap or repetition, and a reply stands      *)
(* behind a prompt (_persist_message, _restore_persisted_messages).        *)
FilesReplayable ==
  \A s \in Sessions : \A i \in 1..Len(files[s]) :
    /\ files[s][i].seq = i - 1
    /\ files[s][i].role = "assistant" => i > 1 /\ files[s][i - 1].role = "user"

(* When the input ends the loop ends, in the middle of a turn with an open *)
(* question too.                                                           *)
EofEndsLoop == closed ~> loop = "exited"

(* One reader serves prompt, steers and questions, and one yes lets one    *)
(* tool run; types included (repl_loop).                                   *)
ReplSound == TypeOK /\ ReadersServeQuestions /\ OneYesOneTool
=============================================================================
