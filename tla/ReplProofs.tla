----------------------------- MODULE ReplProofs -----------------------------
(***************************************************************************)
(* Theorems of the terminal loop, for any number of sessions, lines, tool  *)
(* calls and processes, and of the text helpers beside it.                 *)
(***************************************************************************)
EXTENDS MCTerminal, FunctionTheorems, SequenceTheorems, FiniteSetTheorems, TLAPS

(* Which waits of the two tasks go together.                               *)
Waits ==
  /\ turn = "none" <=> loop # "turn"
  /\ question # "none" <=> turn = "asking"
  /\ reader # "ready" => line = NoLine
  /\ turn = "input" => reader = "none"
  /\ loop = "prompt" => reader # "none"

ReaderInv == TypeOK /\ Waits /\ OneReader /\ QuestionHasReader

(* A yes that was submitted and has let no tool run yet.                   *)
Unused == (IF question = "yes" THEN 1 ELSE 0) + (IF line.kind = "yes" THEN 1 ELSE 0)

ConsentInv == approved + Unused <= consents

(* While a turn runs its prompt is the last entry of the session's file.   *)
FilesInv ==
  /\ count = Len(files[current])
  /\ FilesReplayable
  /\ turn \notin {"none", "done"} => count > 0 /\ files[current][count].role = "user"

(***************************************************************************)
(* Type correctness and the readers.                                       *)
(***************************************************************************)

LEMMA ReaderInit == Init => ReaderInv
<1> SUFFICES ASSUME Init PROVE ReaderInv
  OBVIOUS
<1>1. steers \in Seq([id : Nat, for : Nat]) /\ heard \in Seq([id : Nat, for : Nat, in : Nat])
  BY EmptySeq DEF Init
<1>2. files \in [Sessions -> Seq([seq : Nat, role : Roles])]
  BY EmptySeq DEF Init
<1>3. {running, closed, stopping} \subseteq BOOLEAN
  BY DEF Init
<1>4. TypeOK
  BY <1>1, <1>2, <1>3 DEF Init, TypeOK, Line, NoLine, Kinds, Modes
<1>5. Waits /\ OneReader /\ QuestionHasReader
  BY DEF Init, Waits, OneReader, QuestionHasReader, NoLine
<1> QED BY <1>4, <1>5 DEF ReaderInv

(* What is written to a file and what is heard keeps its type.             *)
LEMMA PersistType ==
  ASSUME TypeOK, NEW role \in Roles, PersistMessage(role)
  PROVE  /\ current' \in Sessions
         /\ files' \in [Sessions -> Seq([seq : Nat, role : Roles])]
         /\ count' \in Nat
<1>1. Entry(role) \in [seq : Nat, role : Roles]
  BY DEF TypeOK, Entry
<1>2. Append(files[current], Entry(role)) \in Seq([seq : Nat, role : Roles])
  BY <1>1, AppendProperties DEF TypeOK
<1>3. files' = [files EXCEPT ![current] = Append(files[current], Entry(role))]
  BY DEF PersistMessage
<1>4. files' \in [Sessions -> Seq([seq : Nat, role : Roles])]
  BY <1>2, <1>3 DEF TypeOK
<1>5. current' \in Sessions /\ count' \in Nat
  BY DEF TypeOK, PersistMessage
<1> QED BY <1>4, <1>5

LEMMA HeardType ==
  ASSUME TypeOK
  PROVE  [i \in 1..Len(steers) |-> Message(steers[i].id, steers[i].for, turns)]
           \in Seq([id : Nat, for : Nat, in : Nat])
<1>1. Len(steers) \in Nat
  BY LenProperties DEF TypeOK
<1>2. \A i \in 1..Len(steers) : steers[i] \in [id : Nat, for : Nat]
  BY ElementOfSeq DEF TypeOK
<1>3. \A i \in 1..Len(steers) :
        Message(steers[i].id, steers[i].for, turns) \in [id : Nat, for : Nat, in : Nat]
  BY <1>2 DEF TypeOK, Message
<1> QED BY <1>1, <1>3, IsASeq

(* A value of a type that no step leaves.                                  *)
LEMMA TypeStep == ReaderInv /\ [Next]_vars => TypeOK'
<1> SUFFICES ASSUME ReaderInv, [Next]_vars PROVE TypeOK'
  OBVIOUS
<1> USE ReplAssumption
<1>1. TypeOK /\ Waits /\ OneReader
  BY DEF ReaderInv
<1>2. CASE UNCHANGED vars
  BY <1>1, <1>2 DEF TypeOK, vars, input, session, store, history
<1>3. ASSUME NEW kind \in Kinds, Submit(kind) PROVE TypeOK'
  <2>1. line' \in Line /\ blocked' \in Nat /\ typed' \in Nat /\ consents' \in Nat
    BY <1>1, <1>3, SMTT(20) DEF TypeOK, Submit, Line, OneReader
  <2> QED BY <1>1, <1>3, <2>1 DEF TypeOK, Submit, session, store
<1>4. CASE CloseInput
  BY <1>1, <1>4 DEF TypeOK, CloseInput, session, store, history
<1>5. CASE ReadEof
  <2>1. line' \in Line /\ blocked' \in Nat
    BY <1>1, <1>5 DEF TypeOK, ReadEof, Line, Kinds, OneReader
  <2> QED BY <1>1, <1>5, <2>1 DEF TypeOK, ReadEof, session, store, history
<1>6. CASE CyclePermissionMode
  BY <1>1, <1>6 DEF TypeOK, Modes, CyclePermissionMode, input, session, store, history
<1>7. TypeOK => NoLine \in Line
  BY DEF NoLine, Line, Kinds
<1>8. StartReader /\ TypeOK =>
        reader' = "waiting" /\ line' \in Line /\ blocked' \in Nat /\ closed' = closed
  <2>1. TypeOK => blocked + 1 \in Nat
    BY DEF TypeOK
  <2> QED BY <1>7, <2>1 DEF StartReader
<1>9. NoReader /\ TypeOK => reader' = "none" /\ line' \in Line /\ blocked' = blocked /\ closed' = closed
  BY <1>7 DEF NoReader, TypeOK
<1>10. SpendLine /\ TypeOK => spent' \subseteq Nat
  BY DEF SpendLine, TypeOK, Line
<1>11. CASE ExitLoop
  BY <1>1, <1>9, <1>10, <1>11 DEF TypeOK, ExitLoop, session, store
<1>12. CASE Command
  BY <1>1, <1>8, <1>10, <1>12 DEF TypeOK, Command, session, store
<1>13. ASSUME NEW s \in Sessions, ResumeSession(s) PROVE TypeOK'
  <2>1. current' \in Sessions /\ count' \in Nat /\ files' = files
    BY <1>1, <1>13, LenProperties DEF TypeOK, ResumeSession, Restored, store
  <2> QED BY <1>1, <1>8, <1>10, <1>13, <2>1 DEF TypeOK, ResumeSession, session
<1>14. CASE RunTurn
  <2>1. Message(line.id, turns + 1, turns + 1) \in [id : Nat, for : Nat, in : Nat]
    BY <1>1, SMTT(20) DEF TypeOK, Line, Message
  <2>2. heard' \in Seq([id : Nat, for : Nat, in : Nat])
    BY <1>1, <1>14, <2>1, AppendProperties DEF TypeOK, RunTurn
  <2>3. current' \in Sessions /\ files' \in [Sessions -> Seq([seq : Nat, role : Roles])] /\ count' \in Nat
    BY <1>1, <1>14, PersistType DEF RunTurn, Roles
  <2>4. {running', closed', stopping'} \subseteq BOOLEAN
    BY <1>1, <1>8, <1>14 DEF TypeOK, RunTurn, session
  <2>5. /\ loop' = "turn" /\ turn' = "boundary" /\ calls' = 0 /\ turns' \in Nat
        /\ reader' = "waiting" /\ line' \in Line /\ blocked' \in Nat
    <3>1. turns + 1 \in Nat
      BY <1>1 DEF TypeOK
    <3>2. StartReader
      BY <1>14 DEF RunTurn
    <3>3. reader' = "waiting" /\ line' \in Line /\ blocked' \in Nat
      BY <1>1, <1>8, <3>2
    <3> QED BY <1>14, <3>1, <3>3 DEF RunTurn
  <2>6. UNCHANGED <<mode, question, steers, typed, spent, dropped, approved, consents, starts>>
    BY <1>14 DEF RunTurn, session
  <2>7. {blocked', calls', count', typed', turns', approved', consents', starts'} \subseteq Nat
    BY <1>1, <2>3, <2>5, <2>6 DEF TypeOK
  <2> QED BY <1>1, <2>2, <2>3, <2>4, <2>5, <2>6, <2>7 DEF TypeOK
<1>15. CASE HandleLine
  <2>1. steers' \in Seq([id : Nat, for : Nat]) /\ spent' \subseteq Nat
    <3>1. CASE Steers
      <4>1. [id |-> line.id, for |-> turns] \in [id : Nat, for : Nat]
        BY <1>1 DEF TypeOK, Line
      <4>2. steers' = Append(steers, [id |-> line.id, for |-> turns]) /\ spent' = spent
        BY <1>15, <3>1 DEF HandleLine
      <4>3. steers' \in Seq([id : Nat, for : Nat])
        BY <1>1, <4>1, <4>2, AppendProperties DEF TypeOK
      <4> QED BY <1>1, <4>2, <4>3 DEF TypeOK
    <3>2. CASE ~Steers
      BY <1>1, <1>10, <1>15, <3>2 DEF TypeOK, HandleLine
    <3> QED BY <3>1, <3>2
  <2>2. question' \in {"none", "open", "yes", "no"} /\ running' \in BOOLEAN /\ stopping' \in BOOLEAN
    BY <1>1, <1>15 DEF TypeOK, HandleLine, Answer
  <2>3. reader' \in {"none", "waiting", "ready"} /\ line' \in Line /\ blocked' \in Nat /\ closed' = closed
    BY <1>1, <1>8, <1>9, <1>15 DEF TypeOK, HandleLine
  <2> QED BY <1>1, <1>15, <2>1, <2>2, <2>3 DEF TypeOK, HandleLine, store
<1>16. CASE TurnOver
  <2>1. reader' \in {"none", "waiting", "ready"} /\ line' \in Line /\ blocked' \in Nat /\ closed' = closed
    BY <1>1, <1>8, <1>9, <1>16 DEF TypeOK, TurnOver, NextReader
  <2>2. dropped' \subseteq Nat
    BY <1>1, <1>16 DEF TypeOK, TurnOver, Line
  <2>3. loop' \in {"prompt", "turn", "exited"} /\ turn' = "none"
    BY <1>16 DEF TurnOver
  <2> QED BY <1>1, <1>16, <2>1, <2>2, <2>3 DEF TypeOK, TurnOver, session, store
<1>17. CASE Interrupt
  <2>1. dropped' \subseteq Nat
    BY <1>1, <1>17 DEF TypeOK, Interrupt, Line
  <2> QED BY <1>1, <1>9, <1>17, <2>1 DEF TypeOK, Interrupt, session, store
<1>18. ASSUME NEW s \in Sessions, Restart(s) PROVE TypeOK'
  <2>1. steers' \in Seq([id : Nat, for : Nat])
    BY <1>18, EmptySeq DEF Restart
  <2>2. count' \in Nat
    BY <1>1, <1>18, LenProperties DEF TypeOK, Restart
  <2>3. {steers[i].id : i \in 1..Len(steers)} \subseteq Nat
    <3>1. \A i \in 1..Len(steers) : steers[i] \in [id : Nat, for : Nat]
      BY <1>1, ElementOfSeq DEF TypeOK
    <3> QED BY <3>1
  <2>4. dropped' \subseteq Nat
    BY <1>1, <1>18, <2>3 DEF TypeOK, Restart
  <2>5. line' \in Line
    BY <1>1, <1>7, <1>18 DEF Restart
  <2>6. {running', closed', stopping'} \subseteq BOOLEAN
    BY <1>18 DEF Restart
  <2>7. /\ loop' \in {"prompt", "turn", "exited"}
        /\ reader' \in {"none", "waiting", "ready"}
        /\ mode' \in Modes
        /\ current' \in Sessions
        /\ files' = files
        /\ {blocked', starts'} \subseteq Nat
    BY <1>1, <1>18, SMTT(20) DEF TypeOK, Modes, Restart
  <2>8. UNCHANGED <<turn, calls, question, typed, turns, heard, spent, approved, consents>>
    BY <1>18 DEF Restart
  <2> QED BY <1>1, <2>1, <2>2, <2>4, <2>5, <2>6, <2>7, <2>8 DEF TypeOK
<1>19. EndTurn => current' \in Sessions /\ files' \in [Sessions -> Seq([seq : Nat, role : Roles])] /\ count' \in Nat
  BY <1>1, PersistType DEF EndTurn, Roles
<1>20. CASE Stopped
  <2>1. turn' = "done" /\ stopping' \in BOOLEAN
    BY <1>20 DEF Stopped, EndTurn
  <2> QED BY <1>1, <1>19, <1>20, <2>1 DEF TypeOK, Stopped, input, history
<1>21. CASE BeginRound
  <2>1. heard' \in Seq([id : Nat, for : Nat, in : Nat])
    BY <1>1, <1>21, HeardType, ConcatProperties DEF TypeOK, BeginRound
  <2>2. steers' \in Seq([id : Nat, for : Nat])
    BY <1>21, EmptySeq DEF BeginRound
  <2> QED BY <1>1, <1>21, <2>1, <2>2 DEF TypeOK, BeginRound, input, store
<1>22. CASE FinalReply
  <2>1. turn' = "done"
    BY <1>22 DEF FinalReply, EndTurn
  <2> QED BY <1>1, <1>19, <1>22, <2>1 DEF TypeOK, FinalReply, input, session, history
<1>23. CASE TurnRaises
  BY <1>1, <1>23 DEF TypeOK, TurnRaises, input, session, store, history
<1>24. ASSUME NEW tool \in Tools, CallTool(tool) PROVE TypeOK'
  <2>1. Decision(tool) \in {"allow", "deny", "ask"}
    BY <1>1 DEF Decision, Tools, TypeOK, Modes
  <2>2. /\ turn' \in {"tool", "called", "asking", "input"}
        /\ question' \in {"none", "open", "yes", "no"}
        /\ blocked' \in Nat
        /\ calls' \in Nat
    <3>1. CASE Decision(tool) = "allow"
      BY <1>1, <1>24, <3>1, SMTT(20) DEF TypeOK, CallTool
    <3>2. CASE Decision(tool) = "deny"
      BY <1>1, <1>24, <3>2, SMTT(20) DEF TypeOK, CallTool
    <3>3. CASE Decision(tool) = "ask"
      <4>1. Ask /\ calls' = calls + 1
        BY <1>24, <3>3 DEF CallTool
      <4>2. CASE MidTurnReaderActive
        BY <1>1, <4>1, <4>2, SMTT(20) DEF TypeOK, Ask
      <4>3. CASE ~MidTurnReaderActive
        <5>1. blocked + 1 \in Nat
          BY <1>1 DEF TypeOK
        <5> QED BY <1>1, <4>1, <4>3, <5>1, SMTT(30) DEF TypeOK, Ask
      <4> QED BY <4>2, <4>3
    <3> QED BY <2>1, <3>1, <3>2, <3>3
  <2> QED BY <1>1, <1>24, <2>2 DEF TypeOK, CallTool, session, store, history
<1>25. CASE Answered
  <2>1. turn' \in {"tool", "called"} /\ approved' \in Nat
    BY <1>1, <1>25, SMTT(20) DEF TypeOK, Answered, Approve
  <2> QED BY <1>1, <1>25, <2>1 DEF TypeOK, Answered, input, session, store
<1>26. ASSUME NEW kind, AnsweredByInput(kind) PROVE TypeOK'
  <2>1. turn' \in {"tool", "called"} /\ approved' \in Nat
    <3>1. approved \in Nat
      BY <1>1 DEF TypeOK
    <3>2. Approve(kind = "yes")
      BY <1>26 DEF AnsweredByInput
    <3> QED BY <3>1, <3>2 DEF Approve
  <2>2. blocked' \in Nat
    BY <1>1, <1>26 DEF TypeOK, AnsweredByInput, OneReader, InTurn
  <2>3. typed' \in Nat /\ spent' \subseteq Nat /\ consents' \in Nat
    <3>1. CASE closed
      BY <1>1, <1>26, <3>1 DEF TypeOK, AnsweredByInput
    <3>2. CASE ~closed
      <4>1. {typed, consents} \subseteq Nat /\ spent \subseteq Nat
        BY <1>1 DEF TypeOK
      <4>2. /\ typed' = typed + 1
            /\ spent' = spent \cup {typed + 1}
            /\ consents' = IF kind = "yes" THEN consents + 1 ELSE consents
        BY <1>26, <3>2 DEF AnsweredByInput
      <4>3. typed' \in Nat
        BY <4>1, <4>2
      <4>4. spent' \subseteq Nat
        <5>1. {typed + 1} \subseteq Nat
          BY <4>1
        <5> QED BY <4>1, <4>2, <5>1
      <4>5. consents' \in Nat
        BY <4>1, <4>2
      <4> QED BY <4>3, <4>4, <4>5
    <3> QED BY <3>1, <3>2
  <2> QED BY <1>1, <1>26, <2>1, <2>2, <2>3 DEF TypeOK, AnsweredByInput, session, store
<1>27. CASE ToolEnds \/ LastCall
  BY <1>1, <1>27 DEF TypeOK, ToolEnds, LastCall, input, session, store, history
<1> QED
  BY <1>2, <1>3, <1>4, <1>5, <1>6, <1>11, <1>12, <1>13, <1>14, <1>15, <1>16, <1>17,
     <1>18, <1>20, <1>21, <1>22, <1>23, <1>24, <1>25, <1>26, <1>27
  DEF Next, Loop, Turn, User

LEMMA WaitsStep == ReaderInv /\ [Next]_vars => Waits' /\ OneReader' /\ QuestionHasReader'
<1> SUFFICES ASSUME ReaderInv, [Next]_vars PROVE Waits' /\ OneReader' /\ QuestionHasReader'
  OBVIOUS
<1>1. TypeOK /\ Waits /\ OneReader /\ QuestionHasReader
  BY DEF ReaderInv
<1>2. blocked \in Nat
  BY <1>1 DEF TypeOK
<1> USE DEF Waits, OneReader, QuestionHasReader
<1>3. ASSUME UNCHANGED <<loop, input, turn, question>>
      PROVE  Waits' /\ OneReader' /\ QuestionHasReader'
  BY <1>1, <1>3 DEF input
<1>4. ASSUME NEW kind, Submit(kind) PROVE Waits' /\ OneReader' /\ QuestionHasReader'
  BY <1>1, <1>2, <1>4 DEF Submit
<1>5. CASE CloseInput
  BY <1>1, <1>5 DEF CloseInput
<1>6. CASE ReadEof
  BY <1>1, <1>2, <1>6 DEF ReadEof
<1>7. CASE ExitLoop
  BY <1>1, <1>2, <1>7 DEF ExitLoop, AtPrompt, NoReader
<1>8. ASSUME AtPrompt({line.kind}), StartReader, loop' \in {"prompt", "turn"},
             loop' = "turn" => turn' = "boundary",
             loop' = "prompt" => turn' = turn, UNCHANGED question
      PROVE  Waits' /\ OneReader' /\ QuestionHasReader'
  BY <1>1, <1>2, <1>8 DEF AtPrompt, StartReader
<1>9. CASE Command
  BY <1>8, <1>9 DEF Command, AtPrompt
<1>10. ASSUME NEW s \in Sessions, ResumeSession(s)
       PROVE Waits' /\ OneReader' /\ QuestionHasReader'
  BY <1>8, <1>10 DEF ResumeSession, AtPrompt
<1>11. CASE RunTurn
  BY <1>8, <1>11 DEF RunTurn, AtPrompt
<1>12. CASE HandleLine
  <2>1. CASE line.kind = "eof"
    BY <1>1, <1>2, <1>12, <2>1 DEF HandleLine, NoReader, Answer
  <2>2. CASE line.kind # "eof"
    BY <1>1, <1>2, <1>12, <2>2 DEF HandleLine, StartReader, Answer
  <2> QED BY <2>1, <2>2
<1>13. CASE TurnOver
  <2>1. turn = "done" /\ turn' = "none" /\ question' = question /\ loop = "turn"
    BY <1>13 DEF TurnOver
  <2>2. CASE running /\ reader = "waiting"
    BY <1>1, <1>2, <1>13, <2>1, <2>2 DEF TurnOver, NextReader
  <2>3. CASE running /\ reader # "waiting"
    BY <1>1, <1>2, <1>13, <2>1, <2>3 DEF TurnOver, NextReader, StartReader
  <2>4. CASE ~running
    BY <1>1, <1>2, <1>13, <2>1, <2>4 DEF TurnOver, NoReader
  <2> QED BY <2>2, <2>3, <2>4
<1>14. CASE Interrupt
  BY <1>1, <1>14 DEF Interrupt, NoReader
<1>15. ASSUME NEW s \in Sessions, Restart(s) PROVE Waits' /\ OneReader' /\ QuestionHasReader'
  BY <1>1, <1>15 DEF Restart
<1>16. ASSUME loop = "turn", turn \notin {"none", "asking", "input"},
              turn' \notin {"none", "asking", "input"}, UNCHANGED <<loop, input, question>>
       PROVE  Waits' /\ OneReader' /\ QuestionHasReader'
  BY <1>1, <1>16 DEF input
<1>17. CASE Stopped \/ BeginRound \/ FinalReply \/ TurnRaises \/ ToolEnds \/ LastCall
  BY <1>16, <1>17 DEF Stopped, BeginRound, FinalReply, TurnRaises, ToolEnds, LastCall, InTurn, EndTurn
<1>18. ASSUME NEW tool \in Tools, CallTool(tool) PROVE Waits' /\ OneReader' /\ QuestionHasReader'
  <2>1. Decision(tool) \in {"allow", "deny", "ask"}
    BY <1>1 DEF Decision, Tools, TypeOK, Modes
  <2>2. loop = "turn" /\ turn \in {"streaming", "called"} /\ UNCHANGED <<loop, reader, line, closed>>
    BY <1>18 DEF CallTool, InTurn
  <2>3. CASE Decision(tool) \in {"allow", "deny"}
    BY <1>1, <1>18, <2>2, <2>3 DEF CallTool
  <2>4. CASE Decision(tool) = "ask"
    <3>1. Ask
      BY <1>18, <2>4 DEF CallTool
    <3>2. CASE MidTurnReaderActive
      BY <1>1, <2>2, <3>1, <3>2 DEF Ask, MidTurnReaderActive
    <3>3. CASE ~MidTurnReaderActive
      BY <1>1, <1>2, <2>2, <3>1, <3>3 DEF Ask, MidTurnReaderActive
    <3> QED BY <3>2, <3>3
  <2> QED BY <2>1, <2>3, <2>4
<1>19. CASE Answered
  BY <1>1, <1>19 DEF Answered, InTurn, Approve, input
<1>20. ASSUME NEW kind, AnsweredByInput(kind) PROVE Waits' /\ OneReader' /\ QuestionHasReader'
  BY <1>1, <1>2, <1>20 DEF AnsweredByInput, InTurn, Approve
<1>21. CASE CyclePermissionMode \/ UNCHANGED vars
  BY <1>3, <1>21 DEF CyclePermissionMode, vars
<1> QED
  BY <1>4, <1>5, <1>6, <1>7, <1>9, <1>10, <1>11, <1>12, <1>13, <1>14, <1>15, <1>17,
     <1>18, <1>19, <1>20, <1>21
  DEF Next, Loop, Turn, User

LEMMA ReaderInvariant == Spec => []ReaderInv
<1>1. ReaderInv /\ [Next]_vars => ReaderInv'
  BY TypeStep, WaitsStep DEF ReaderInv
<1> QED BY <1>1, ReaderInit, PTL DEF Spec

(* The variables of the loop keep their types.                             *)
THEOREM TypeCorrect == Spec => []TypeOK
<1>1. ReaderInv => TypeOK
  BY DEF ReaderInv
<1> QED BY <1>1, ReaderInvariant, PTL

(* At most one thread is blocked on stdin (_confirm_tool and the reader    *)
(* that repl_loop inherits from a turn).                                   *)
THEOREM AlwaysOneReader == Spec => []OneReader
<1>1. ReaderInv => OneReader
  BY DEF ReaderInv
<1> QED BY <1>1, ReaderInvariant, PTL

(* An open question has a reader to answer it, after the end of the input  *)
(* too (_run_turn_accepting_mid_turn_input).                               *)
THEOREM QuestionAlwaysHasReader == Spec => []QuestionHasReader
<1>1. ReaderInv => QuestionHasReader
  BY DEF ReaderInv
<1> QED BY <1>1, ReaderInvariant, PTL

(* The terminal has one reader, and a question has it.                     *)
THEOREM ReadersAlwaysServeQuestions == Spec => []ReadersServeQuestions
<1>1. OneReader /\ QuestionHasReader => ReadersServeQuestions
  BY DEF ReadersServeQuestions
<1> QED BY <1>1, AlwaysOneReader, QuestionAlwaysHasReader, PTL

(***************************************************************************)
(* A yes lets one tool run.                                                *)
(***************************************************************************)

LEMMA ConsentStep == ReaderInv /\ ConsentInv /\ [Next]_vars => ConsentInv'
<1> SUFFICES ASSUME ReaderInv, ConsentInv, [Next]_vars PROVE ConsentInv'
  OBVIOUS
<1>1. Waits /\ approved \in Nat /\ consents \in Nat /\ NoLine.kind = "blank"
  BY DEF ReaderInv, TypeOK, NoLine
<1> USE DEF ConsentInv, Unused
<1>2. ASSUME UNCHANGED <<approved, consents>>,
             question' = "yes" => question = "yes",
             line'.kind = "yes" => line.kind = "yes"
      PROVE  ConsentInv'
  BY <1>1, <1>2
<1>3. ASSUME NEW kind, Submit(kind) PROVE ConsentInv'
  BY <1>1, <1>3 DEF Submit, Waits
<1>4. CASE HandleLine
  <2>1. line'.kind = "blank" /\ UNCHANGED <<approved, consents>>
    BY <1>1, <1>4 DEF HandleLine, NoReader, StartReader
  <2>2. question' = "yes" => question = "yes" \/ line.kind = "yes"
    BY <1>4 DEF HandleLine, Answer
  <2> QED BY <1>1, <2>1, <2>2
<1>5. CASE Answered
  BY <1>1, <1>5 DEF Answered, Approve, input
<1>6. ASSUME NEW kind, AnsweredByInput(kind), closed => kind = "eof" PROVE ConsentInv'
  <2>1. CASE closed
    BY <1>1, <1>6, <2>1 DEF AnsweredByInput, Approve
  <2>2. CASE ~closed
    BY <1>1, <1>6, <2>2 DEF AnsweredByInput, Approve
  <2> QED BY <2>1, <2>2
<1>7. StartReader \/ NoReader \/ UNCHANGED line => (line'.kind = "yes" => line.kind = "yes")
  BY <1>1 DEF StartReader, NoReader
<1>8. CASE CloseInput \/ CyclePermissionMode \/ ExitLoop \/ Command \/ RunTurn \/ UNCHANGED vars
  BY <1>2, <1>7, <1>8
  DEF CloseInput, CyclePermissionMode, ExitLoop, Command, RunTurn, vars, input, history
<1>9. CASE ReadEof
  BY <1>2, <1>9 DEF ReadEof, history
<1>10. ASSUME NEW s \in Sessions, ResumeSession(s) PROVE ConsentInv'
  BY <1>2, <1>7, <1>10 DEF ResumeSession
<1>11. CASE TurnOver
  <2>1. StartReader \/ NoReader \/ UNCHANGED line
    BY <1>11 DEF TurnOver, NextReader
  <2> QED BY <1>2, <1>7, <1>11, <2>1 DEF TurnOver
<1>12. CASE Interrupt
  BY <1>2, <1>7, <1>12 DEF Interrupt
<1>13. ASSUME NEW s \in Sessions, Restart(s) PROVE ConsentInv'
  BY <1>1, <1>2, <1>13 DEF Restart
<1>14. CASE Stopped \/ BeginRound \/ FinalReply \/ TurnRaises \/ ToolEnds \/ LastCall
  BY <1>2, <1>14
  DEF Stopped, BeginRound, FinalReply, TurnRaises, ToolEnds, LastCall, input, history
<1>15. ASSUME NEW tool \in Tools, CallTool(tool) PROVE ConsentInv'
  <2>1. question' = question \/ question' = "open"
    <3>1. Decision(tool) \in {"allow", "deny", "ask"}
      BY DEF ReaderInv, Decision, Tools, TypeOK, Modes
    <3> QED BY <1>15, <3>1 DEF CallTool, Ask
  <2> QED BY <1>2, <1>15, <2>1 DEF CallTool, history
<1> QED
  BY <1>3, <1>4, <1>5, <1>6, <1>8, <1>9, <1>10, <1>11, <1>12, <1>13, <1>14, <1>15
  DEF Next, Loop, Turn, User

(* No tool runs because of an answer that nobody gave or that let another  *)
(* tool run already (_confirm_tool).                                       *)
THEOREM YesAlwaysServesOnce == Spec => []OneYesOneTool
<1>1. Init => ConsentInv
  BY DEF Init, ConsentInv, Unused, NoLine
<1>2. ReaderInv /\ ConsentInv => OneYesOneTool
  BY DEF ReaderInv, TypeOK, ConsentInv, Unused, OneYesOneTool
<1> QED BY <1>1, <1>2, ConsentStep, ReaderInvariant, PTL DEF Spec

(***************************************************************************)
(* The files.                                                              *)
(***************************************************************************)

(* One more entry behind those of the current session.                     *)
LEMMA PersistStep ==
  ASSUME ReaderInv, FilesInv, NEW role \in Roles, PersistMessage(role),
         role = "assistant" => turn \notin {"none", "done"}
  PROVE  /\ count' = Len(files'[current'])
         /\ FilesReplayable'
         /\ count' > 0 /\ files'[current'][count'].role = role
<1> DEFINE f == files[current]
<1>1. /\ f \in Seq([seq : Nat, role : Roles]) /\ Len(f) \in Nat /\ count = Len(f)
      /\ current \in Sessions /\ current' = current /\ count' = Len(f) + 1
      /\ files' = [files EXCEPT ![current] = Append(f, Entry(role))]
  BY LenProperties DEF ReaderInv, TypeOK, FilesInv, PersistMessage
<1>2. /\ files'[current] = Append(f, Entry(role))
      /\ \A s \in Sessions : s # current => files'[s] = files[s]
  BY <1>1 DEF ReaderInv, TypeOK
<1>3. /\ Len(Append(f, Entry(role))) = Len(f) + 1
      /\ \A i \in 1..Len(f) : Append(f, Entry(role))[i] = f[i]
      /\ Append(f, Entry(role))[Len(f) + 1] = Entry(role)
  BY <1>1, AppendProperties
<1>4. Entry(role).seq = Len(f) /\ Entry(role).role = role
  BY <1>1 DEF Entry
<1>5. role = "assistant" => Len(f) > 0 /\ f[Len(f)].role = "user"
  BY <1>1 DEF FilesInv
<1>6. \A i \in 1..Len(f) :
        f[i].seq = i - 1 /\ (f[i].role = "assistant" => i > 1 /\ f[i - 1].role = "user")
  BY <1>1 DEF FilesInv, FilesReplayable
<1>7. \A i \in 1..(Len(f) + 1) :
        /\ files'[current][i].seq = i - 1
        /\ files'[current][i].role = "assistant" => i > 1 /\ files'[current][i - 1].role = "user"
  <2> TAKE i \in 1..(Len(f) + 1)
  <2>1. CASE i \in 1..Len(f)
    <3>1. i > 1 => i - 1 \in 1..Len(f)
      BY <1>1, <2>1
    <3>2. i > 1 => files'[current][i - 1] = f[i - 1]
      BY <1>2, <1>3, <3>1
    <3> QED BY <1>2, <1>3, <1>6, <2>1, <3>2
  <2>2. CASE i = Len(f) + 1
    <3>1. Len(f) > 0 => Len(f) \in 1..Len(f) /\ i - 1 = Len(f) /\ i > 1
      BY <1>1, <2>2
    <3>2. Len(f) > 0 => files'[current][i - 1] = f[Len(f)]
      BY <1>2, <1>3, <3>1
    <3>3. files'[current][i] = Entry(role)
      BY <1>2, <1>3, <2>2
    <3> QED BY <1>1, <1>4, <1>5, <2>2, <3>1, <3>2, <3>3
  <2> QED BY <1>1, <2>1, <2>2
<1>8. FilesReplayable'
  BY <1>1, <1>2, <1>3, <1>7 DEF FilesInv, FilesReplayable
<1> QED BY <1>1, <1>2, <1>3, <1>4, <1>8

LEMMA FilesStep == ReaderInv /\ FilesInv /\ [Next]_vars => FilesInv'
<1> SUFFICES ASSUME ReaderInv, FilesInv, [Next]_vars PROVE FilesInv'
  OBVIOUS
<1>1. ASSUME UNCHANGED <<current, count, files>>,
             turn' \notin {"none", "done"} => turn \notin {"none", "done"}
      PROVE  FilesInv'
  BY <1>1 DEF FilesInv, FilesReplayable
<1>2. ASSUME NEW s \in Sessions, current' = s, count' = Len(files[s]), files' = files,
             turn' = "none"
      PROVE  FilesInv'
  BY <1>2 DEF FilesInv, FilesReplayable
<1>3. ASSUME NEW kind, Submit(kind) PROVE FilesInv'
  BY <1>1, <1>3 DEF Submit, store
<1>4. CASE CloseInput \/ ReadEof \/ CyclePermissionMode \/ ExitLoop \/ Command \/ HandleLine
  BY <1>1, <1>4 DEF CloseInput, ReadEof, CyclePermissionMode, ExitLoop, Command, HandleLine, store
<1>5. CASE TurnOver \/ Interrupt \/ TurnRaises \/ UNCHANGED vars
  BY <1>1, <1>5 DEF TurnOver, Interrupt, TurnRaises, store, vars
<1>6. CASE BeginRound \/ ToolEnds \/ LastCall
  BY <1>1, <1>6 DEF BeginRound, ToolEnds, LastCall, InTurn, store
<1>7. CASE Answered
  BY <1>1, <1>7 DEF Answered, InTurn, store
<1>8. ASSUME NEW kind, AnsweredByInput(kind) PROVE FilesInv'
  BY <1>1, <1>8 DEF AnsweredByInput, InTurn, store
<1>9. ASSUME NEW tool \in Tools, CallTool(tool) PROVE FilesInv'
  BY <1>1, <1>9 DEF CallTool, InTurn, store
<1>10. ASSUME NEW s \in Sessions, ResumeSession(s) PROVE FilesInv'
  <2>1. turn = "none" /\ turn' = turn
    BY <1>10 DEF ReaderInv, Waits, ResumeSession, AtPrompt
  <2>2. CASE s = current
    BY <1>1, <1>10, <2>1, <2>2 DEF ResumeSession, store
  <2>3. CASE s # current
    BY <1>2, <1>10, <2>1, <2>3 DEF ResumeSession, Restored
  <2> QED BY <2>2, <2>3
<1>11. ASSUME NEW s \in Sessions, Restart(s) PROVE FilesInv'
  <2>1. turn' = "none"
    BY <1>11 DEF ReaderInv, Waits, Restart
  <2> QED BY <1>2, <1>11, <2>1 DEF Restart
<1>12. CASE RunTurn
  BY <1>12, PersistStep DEF RunTurn, FilesInv, Roles
<1>13. CASE Stopped \/ FinalReply
  <2>1. turn' = "done" /\ PersistMessage("assistant") /\ turn \notin {"none", "done"}
    BY <1>13 DEF Stopped, FinalReply, EndTurn, InTurn
  <2> QED BY <2>1, PersistStep DEF FilesInv, Roles
<1> QED
  BY <1>3, <1>4, <1>5, <1>6, <1>7, <1>8, <1>9, <1>10, <1>11, <1>12, <1>13
  DEF Next, Loop, Turn, User

(* Every session file can be replayed: its numbers have no gap, and a      *)
(* reply stands behind its prompt.                                         *)
THEOREM FilesAlwaysReplayable == Spec => []FilesReplayable
<1>1. Init => FilesInv
  <2> SUFFICES ASSUME Init PROVE FilesInv
    OBVIOUS
  <2>1. \A s \in Sessions : files[s] = <<>> /\ Len(files[s]) = 0
    BY DEF Init
  <2> QED BY <2>1 DEF Init, FilesInv, FilesReplayable
<1>2. FilesInv => FilesReplayable
  BY DEF FilesInv
<1> QED BY <1>1, <1>2, FilesStep, ReaderInvariant, PTL DEF Spec

(* The run's invariant: types, readers and consents together.              *)
THEOREM ReplAlwaysSound == Spec => []ReplSound
<1>1. TypeOK /\ ReadersServeQuestions /\ OneYesOneTool => ReplSound
  BY DEF ReplSound
<1> QED BY <1>1, TypeCorrect, ReadersAlwaysServeQuestions, YesAlwaysServesOnce, PTL

(***************************************************************************)
(* Each line has one fate.  The lines are parted among the history of the  *)
(* session, its waiting steers, the line that a reader has returned, and   *)
(* what was spent or lost; a step moves lines from one part to another.    *)
(* That no part holds a line twice is why the sizes add up.                *)
(***************************************************************************)

LineIds(q) == {q[i].id : i \in 1..Len(q)}

Distinct(q) == \A i, k \in 1..Len(q) : q[i].id = q[k].id => i = k

Unread == {line.id} \ {0}

Parted(H, Q, U, S, D, n) ==
  /\ H \cup Q \cup U \cup S \cup D = 1..n
  /\ H \cap Q = {} /\ H \cap U = {} /\ H \cap S = {} /\ H \cap D = {}
  /\ Q \cap U = {} /\ Q \cap S = {} /\ Q \cap D = {}
  /\ U \cap S = {} /\ U \cap D = {}
  /\ S \cap D = {}

FateInv ==
  /\ Parted(LineIds(heard), LineIds(steers), Unread, spent, dropped, typed)
  /\ Distinct(heard)
  /\ Distinct(steers)

(* Only a line that was submitted becomes a message, none is read after    *)
(* the loop has exited, and no steer is older than its turn.               *)
LinesInv ==
  /\ line.id = 0 => line.kind \in {"blank", "eof"}
  /\ loop = "exited" => reader = "none"
  /\ \A i \in 1..Len(heard) : heard[i].for <= heard[i].in
  /\ \A i \in 1..Len(steers) : steers[i].for <= turns

LEMMA LineIdsOfAppend ==
  ASSUME NEW T, NEW q \in Seq(T), NEW e \in T
  PROVE  /\ LineIds(Append(q, e)) = LineIds(q) \cup {e.id}
         /\ Distinct(q) /\ e.id \notin LineIds(q) => Distinct(Append(q, e))
<1> DEFINE r == Append(q, e)
<1>1. /\ Len(q) \in Nat /\ Len(r) = Len(q) + 1
      /\ \A i \in 1..Len(q) : r[i] = q[i]
      /\ r[Len(q) + 1] = e
  BY AppendProperties, LenProperties
<1> HIDE DEF r
<1>2. \A i : i \in 1..Len(r) <=> i \in 1..Len(q) \/ i = Len(q) + 1
  BY <1>1
<1>3. LineIds(r) = LineIds(q) \cup {e.id}
  BY <1>1, <1>2 DEF LineIds
<1>4. ASSUME Distinct(q), e.id \notin LineIds(q) PROVE Distinct(r)
  <2> SUFFICES ASSUME NEW i \in 1..Len(r), NEW k \in 1..Len(r), r[i].id = r[k].id
               PROVE  i = k
    BY DEF Distinct
  <2>1. \A m \in 1..Len(q) : r[m].id \in LineIds(q)
    BY <1>1 DEF LineIds
  <2>2. CASE i \in 1..Len(q) /\ k \in 1..Len(q)
    BY <1>1, <1>4, <2>2 DEF Distinct
  <2>3. CASE i = Len(q) + 1 \/ k = Len(q) + 1
    BY <1>1, <1>2, <1>4, <2>1, <2>3
  <2> QED BY <1>2, <2>2, <2>3
<1> QED BY <1>3, <1>4 DEF r

LEMMA LineIdsOfConcat ==
  ASSUME NEW T, NEW q \in Seq(T), NEW r \in Seq(T)
  PROVE  /\ LineIds(q \o r) = LineIds(q) \cup LineIds(r)
         /\ Distinct(q) /\ Distinct(r) /\ LineIds(q) \cap LineIds(r) = {} => Distinct(q \o r)
<1> DEFINE u == q \o r
<1>1. /\ Len(q) \in Nat /\ Len(r) \in Nat /\ Len(u) = Len(q) + Len(r)
      /\ \A i \in 1..Len(q) : u[i] = q[i]
      /\ \A i \in 1..Len(r) : u[Len(q) + i] = r[i]
  OBVIOUS
<1> HIDE DEF u
<1>2. \A i \in 1..Len(u) :
        i \in 1..Len(q) \/ (i - Len(q) \in 1..Len(r) /\ i = Len(q) + (i - Len(q)))
  BY <1>1
<1>3. \A i \in 1..Len(q) : i \in 1..Len(u)
  BY <1>1
<1>4. \A i \in 1..Len(r) : Len(q) + i \in 1..Len(u)
  BY <1>1
<1>5. \A i \in 1..Len(u) :
        \/ i \in 1..Len(q) /\ u[i] = q[i]
        \/ i - Len(q) \in 1..Len(r) /\ u[i] = r[i - Len(q)]
  BY <1>1, <1>2
<1>6. LineIds(u) = LineIds(q) \cup LineIds(r)
  <2>1. LineIds(u) \subseteq LineIds(q) \cup LineIds(r)
    BY <1>5 DEF LineIds
  <2>2. LineIds(q) \subseteq LineIds(u)
    BY <1>1, <1>3 DEF LineIds
  <2>3. LineIds(r) \subseteq LineIds(u)
    BY <1>1, <1>4 DEF LineIds
  <2> QED BY <2>1, <2>2, <2>3
<1>7. ASSUME Distinct(q), Distinct(r), LineIds(q) \cap LineIds(r) = {} PROVE Distinct(u)
  <2> SUFFICES ASSUME NEW i \in 1..Len(u), NEW k \in 1..Len(u), u[i].id = u[k].id
               PROVE  i = k
    BY DEF Distinct
  <2>1. CASE i \in 1..Len(q) /\ k \in 1..Len(q)
    BY <1>1, <1>7, <2>1 DEF Distinct
  <2>2. CASE i \in 1..Len(q) /\ k - Len(q) \in 1..Len(r)
    <3>1. u[i].id \in LineIds(q)
      BY <1>1, <2>2 DEF LineIds
    <3>2. u[k] = r[k - Len(q)]
      BY <1>1, <2>2
    <3>3. u[k].id \in LineIds(r)
      BY <2>2, <3>2 DEF LineIds
    <3> QED BY <1>7, <3>1, <3>3
  <2>3. CASE i - Len(q) \in 1..Len(r) /\ k \in 1..Len(q)
    <3>1. u[k].id \in LineIds(q)
      BY <1>1, <2>3 DEF LineIds
    <3>2. u[i] = r[i - Len(q)]
      BY <1>1, <2>3
    <3>3. u[i].id \in LineIds(r)
      BY <2>3, <3>2 DEF LineIds
    <3> QED BY <1>7, <3>1, <3>3
  <2>4. CASE i - Len(q) \in 1..Len(r) /\ k - Len(q) \in 1..Len(r)
    <3>1. /\ u[Len(q) + (i - Len(q))] = r[i - Len(q)]
          /\ u[Len(q) + (k - Len(q))] = r[k - Len(q)]
          /\ Len(q) + (i - Len(q)) = i /\ Len(q) + (k - Len(q)) = k
      <4>1. /\ u[Len(q) + (i - Len(q))] = r[i - Len(q)]
            /\ u[Len(q) + (k - Len(q))] = r[k - Len(q)]
        BY <1>1, <2>4
      <4> QED BY <1>1, <4>1
    <3>2. i - Len(q) = k - Len(q)
      BY <1>7, <2>4, <3>1 DEF Distinct
    <3> QED BY <1>1, <3>2
  <2> QED BY <1>2, <2>1, <2>2, <2>3, <2>4
<1> QED BY <1>6, <1>7 DEF u

(* What a step may do to the parts.                                        *)
LEMMA PartsMove ==
  ASSUME NEW H, NEW Q, NEW U, NEW S, NEW D, NEW n \in Nat, Parted(H, Q, U, S, D, n)
  PROVE  /\ Parted(H \cup U, Q, {}, S, D, n)
         /\ Parted(H, Q \cup U, {}, S, D, n)
         /\ Parted(H, Q, {}, S \cup U, D, n)
         /\ Parted(H, Q, {}, S, D \cup U, n)
         /\ Parted(H \cup Q, {}, U, S, D, n)
         /\ Parted(H, {}, U, S, D \cup Q, n)
         /\ Parted(H, Q, U, S \cup {n + 1}, D, n + 1)
         /\ U = {} => Parted(H, Q, {n + 1}, S, D, n + 1)
<1>1. n + 1 \notin 1..n /\ 1..(n + 1) = (1..n) \cup {n + 1}
  OBVIOUS
<1>2. /\ Parted(H \cup U, Q, {}, S, D, n)
      /\ Parted(H, Q \cup U, {}, S, D, n)
      /\ Parted(H, Q, {}, S \cup U, D, n)
      /\ Parted(H, Q, {}, S, D \cup U, n)
  BY DEF Parted
<1>3. /\ Parted(H \cup Q, {}, U, S, D, n)
      /\ Parted(H, {}, U, S, D \cup Q, n)
  BY DEF Parted
<1>4. Parted(H, Q, U, S \cup {n + 1}, D, n + 1)
  BY <1>1 DEF Parted
<1>5. U = {} => Parted(H, Q, {n + 1}, S, D, n + 1)
  BY <1>1 DEF Parted
<1> QED BY <1>2, <1>3, <1>4, <1>5

(* The steers, as the messages that a round hears.                         *)
LEMMA HeardSteers ==
  ASSUME TypeOK, NEW r,
         r = [i \in 1..Len(steers) |-> Message(steers[i].id, steers[i].for, turns)]
  PROVE  /\ r \in Seq([id : Nat, for : Nat, in : Nat])
         /\ LineIds(r) = LineIds(steers)
         /\ Distinct(steers) => Distinct(r)
         /\ \A i \in 1..Len(r) : i \in 1..Len(steers) /\ r[i].for = steers[i].for /\ r[i].in = turns
<1>1. r \in Seq([id : Nat, for : Nat, in : Nat])
  BY HeardType
<1>2. Len(r) = Len(steers)
  <2>1. DOMAIN r = 1..Len(steers) /\ Len(steers) \in Nat
    BY LenProperties DEF TypeOK
  <2> QED BY <1>1, <2>1, LenProperties
<1>3. \A i \in 1..Len(steers) :
        r[i].id = steers[i].id /\ r[i].for = steers[i].for /\ r[i].in = turns
  BY DEF Message
<1>4. LineIds(r) = LineIds(steers)
  BY <1>2, <1>3 DEF LineIds
<1>5. Distinct(steers) => Distinct(r)
  BY <1>2, <1>3 DEF Distinct
<1> QED BY <1>1, <1>2, <1>3, <1>4, <1>5

LEMMA FateInit == Init => FateInv /\ LinesInv
<1> SUFFICES ASSUME Init PROVE FateInv /\ LinesInv
  OBVIOUS
<1>1. \A q : q = <<>> => 1..Len(q) = {}
  BY EmptySeq
<1>2. \A q : q = <<>> => LineIds(q) = {} /\ Distinct(q)
  BY <1>1 DEF LineIds, Distinct
<1>3. Unread = {} /\ 1..typed = {}
  BY DEF Init, NoLine, Unread
<1>4. Parted({}, {}, {}, {}, {}, typed)
  BY <1>3 DEF Parted
<1>5. FateInv
  BY <1>2, <1>3, <1>4 DEF Init, FateInv
<1>6. LinesInv
  BY <1>1 DEF Init, LinesInv, NoLine
<1> QED BY <1>5, <1>6

(* A line that was read is a message only if it is a line.                 *)
LEMMA UnreadFacts ==
  ASSUME TypeOK, LinesInv
  PROVE  /\ line.kind \notin {"blank", "eof"} => Unread = {line.id}
         /\ line.id # 0 => Unread = {line.id}
         /\ line.id = 0 => Unread = {}
         /\ line = NoLine => Unread = {}
         /\ line' = NoLine => Unread' = {}
         /\ UNCHANGED line => Unread' = Unread
BY DEF TypeOK, LinesInv, Unread, NoLine

LEMMA FateStep == ReaderInv /\ LinesInv /\ FateInv /\ [Next]_vars => FateInv'
<1> SUFFICES ASSUME ReaderInv, LinesInv, FateInv, [Next]_vars PROVE FateInv'
  OBVIOUS
<1>1. /\ TypeOK /\ Waits /\ typed \in Nat
      /\ Distinct(heard) /\ Distinct(steers)
      /\ heard \in Seq([id : Nat, for : Nat, in : Nat])
      /\ steers \in Seq([id : Nat, for : Nat])
  BY DEF ReaderInv, TypeOK, FateInv
<1> DEFINE H == LineIds(heard)
           Q == LineIds(steers)
<1>2. Parted(H, Q, Unread, spent, dropped, typed)
  BY DEF FateInv
<1>3. /\ Parted(H \cup Unread, Q, {}, spent, dropped, typed)
      /\ Parted(H, Q \cup Unread, {}, spent, dropped, typed)
      /\ Parted(H, Q, {}, spent \cup Unread, dropped, typed)
      /\ Parted(H, Q, {}, spent, dropped \cup Unread, typed)
      /\ Parted(H \cup Q, {}, Unread, spent, dropped, typed)
      /\ Parted(H, {}, Unread, spent, dropped \cup Q, typed)
      /\ Parted(H, Q, Unread, spent \cup {typed + 1}, dropped, typed + 1)
      /\ Unread = {} => Parted(H, Q, {typed + 1}, spent, dropped, typed + 1)
  BY <1>1, <1>2, PartsMove
<1>4. /\ line.kind \notin {"blank", "eof"} => Unread = {line.id}
      /\ line.id # 0 => Unread = {line.id}
      /\ line.id = 0 => Unread = {}
      /\ line = NoLine => Unread = {}
      /\ line' = NoLine => Unread' = {}
      /\ UNCHANGED line => Unread' = Unread
  BY <1>1, UnreadFacts
<1>5. ASSUME UNCHANGED <<heard, steers>>, Parted(H, Q, Unread', spent', dropped', typed')
      PROVE  FateInv'
  BY <1>1, <1>5 DEF FateInv
<1>6. StartReader \/ NoReader => line' = NoLine
  BY DEF StartReader, NoReader
<1>7. SpendLine => spent' = spent \cup Unread
  BY <1>4 DEF SpendLine
<1> HIDE DEF H, Q
<1>8. ASSUME UNCHANGED <<heard, steers, line, spent, dropped, typed>> PROVE FateInv'
  BY <1>2, <1>4, <1>5, <1>8
<1>9. ASSUME NEW kind \in Kinds, Submit(kind) PROVE FateInv'
  <2>1. Unread = {}
    BY <1>1, <1>4, <1>9 DEF Submit, Waits
  <2>2. Unread' = {typed + 1}
    BY <1>1, <1>9 DEF Submit, Unread
  <2>3. UNCHANGED <<heard, steers, spent, dropped>> /\ typed' = typed + 1
    BY <1>9 DEF Submit, session
  <2> QED BY <1>3, <1>5, <2>1, <2>2, <2>3
<1>10. CASE CloseInput \/ CyclePermissionMode \/ UNCHANGED vars
  BY <1>8, <1>10 DEF CloseInput, CyclePermissionMode, vars, input, session, history
<1>11. CASE ReadEof
  <2>1. Unread = {} /\ Unread' = {}
    BY <1>1, <1>4, <1>11 DEF ReadEof, Waits, Unread
  <2> QED BY <1>2, <1>5, <1>11, <2>1 DEF ReadEof, session, history
<1>12. CASE ExitLoop \/ Command \/ \E s \in Sessions : ResumeSession(s)
  <2>1. /\ SpendLine /\ (StartReader \/ NoReader)
        /\ UNCHANGED <<heard, steers, dropped, typed>>
    BY <1>12 DEF ExitLoop, Command, ResumeSession, session
  <2> QED BY <1>3, <1>4, <1>5, <1>6, <1>7, <2>1
<1>13. CASE RunTurn
  <2> DEFINE m == Message(line.id, turns + 1, turns + 1)
  <2>1. m \in [id : Nat, for : Nat, in : Nat] /\ m.id = line.id
    BY <1>1, SMTT(20) DEF TypeOK, Line, Message
  <2> HIDE DEF m
  <2>2. /\ heard' = Append(heard, m) /\ Unread = {line.id} /\ line' = NoLine
        /\ UNCHANGED <<steers, spent, dropped, typed>>
    BY <1>4, <1>6, <1>13 DEF RunTurn, AtPrompt, session, m
  <2>3. line.id \notin H
    BY <1>2, <2>2 DEF Parted
  <2>4. LineIds(heard') = H \cup Unread /\ Distinct(heard')
    <3>1. /\ LineIds(Append(heard, m)) = LineIds(heard) \cup {m.id}
          /\ Distinct(heard) /\ m.id \notin LineIds(heard) => Distinct(Append(heard, m))
      BY <1>1, <2>1, LineIdsOfAppend
    <3> QED BY <1>1, <2>1, <2>2, <2>3, <3>1 DEF H
  <2>5. Unread' = {}
    BY <1>4, <2>2
  <2>6. Parted(H \cup Unread, Q, {}, spent, dropped, typed)
    BY <1>3
  <2> QED BY <1>1, <2>2, <2>4, <2>5, <2>6 DEF FateInv, Q
<1>14. CASE HandleLine
  <2>1. /\ UNCHANGED <<heard, dropped, typed>> /\ line' = NoLine
    BY <1>6, <1>14 DEF HandleLine
  <2>2. CASE Steers
    <3> DEFINE e == [id |-> line.id, for |-> turns]
    <3>1. e \in [id : Nat, for : Nat] /\ e.id = line.id
      BY <1>1 DEF TypeOK, Line
    <3> HIDE DEF e
    <3>2. steers' = Append(steers, e) /\ spent' = spent /\ Unread = {line.id}
      BY <1>4, <1>14, <2>2 DEF HandleLine, Steers, e
    <3>3. line.id \notin Q
      BY <1>2, <3>2 DEF Parted
    <3>4. LineIds(steers') = Q \cup Unread /\ Distinct(steers')
      <4>1. /\ LineIds(Append(steers, e)) = LineIds(steers) \cup {e.id}
            /\ Distinct(steers) /\ e.id \notin LineIds(steers) => Distinct(Append(steers, e))
        BY <1>1, <3>1, LineIdsOfAppend
      <4> QED BY <1>1, <3>1, <3>2, <3>3, <4>1 DEF Q
    <3>5. Unread' = {}
      BY <1>4, <2>1
    <3>6. Parted(H, Q \cup Unread, {}, spent, dropped, typed)
      BY <1>3
    <3> QED BY <1>1, <2>1, <3>2, <3>4, <3>5, <3>6 DEF FateInv, H
  <2>3. CASE ~Steers
    <3>1. SpendLine /\ UNCHANGED steers
      BY <1>14, <2>3 DEF HandleLine
    <3> QED BY <1>3, <1>4, <1>5, <1>7, <2>1, <3>1
  <2> QED BY <2>2, <2>3
<1>15. CASE TurnOver
  <2>1. dropped' = dropped \cup Unread /\ UNCHANGED <<heard, steers, spent, typed>>
    BY <1>4, <1>15 DEF TurnOver, session
  <2>2. Unread' = {}
    <3>1. CASE running /\ reader = "waiting"
      BY <1>1, <1>4, <1>15, <3>1 DEF TurnOver, NextReader, Waits
    <3>2. CASE ~(running /\ reader = "waiting")
      BY <1>4, <1>6, <1>15, <3>2 DEF TurnOver, NextReader
    <3> QED BY <3>1, <3>2
  <2> QED BY <1>3, <1>5, <2>1, <2>2
<1>16. CASE Interrupt
  <2>1. /\ dropped' = dropped \cup Unread /\ line' = NoLine
        /\ UNCHANGED <<heard, steers, spent, typed>>
    BY <1>4, <1>6, <1>16 DEF Interrupt, session
  <2> QED BY <1>3, <1>4, <1>5, <2>1
<1>17. ASSUME NEW s \in Sessions, Restart(s) PROVE FateInv'
  <2>1. Unread = {} /\ Unread' = {}
    BY <1>1, <1>4, <1>17 DEF Restart, LinesInv, Waits
  <2>2. /\ steers' = <<>> /\ UNCHANGED <<heard, spent, typed>>
        /\ dropped' = dropped \cup Q
    BY <1>17 DEF Restart, Q, LineIds
  <2>3. \A q : q = <<>> => 1..Len(q) = {}
    BY EmptySeq
  <2>4. LineIds(steers') = {} /\ Distinct(steers')
    BY <2>2, <2>3 DEF LineIds, Distinct
  <2>5. Parted(H, {}, Unread, spent, dropped \cup Q, typed)
    BY <1>3
  <2> QED BY <1>1, <2>1, <2>2, <2>4, <2>5 DEF FateInv, H
<1>18. CASE BeginRound
  <2> DEFINE r == [i \in 1..Len(steers) |-> Message(steers[i].id, steers[i].for, turns)]
  <2>1. /\ r \in Seq([id : Nat, for : Nat, in : Nat])
        /\ LineIds(r) = Q /\ Distinct(r)
    BY <1>1, HeardSteers DEF Q
  <2>2. /\ heard' = heard \o r /\ steers' = <<>>
        /\ UNCHANGED <<line, spent, dropped, typed>>
    BY <1>18 DEF BeginRound, input
  <2> HIDE DEF r
  <2>3. H \cap Q = {}
    BY <1>2 DEF Parted
  <2>4. LineIds(heard') = H \cup Q /\ Distinct(heard')
    BY <1>1, <2>1, <2>2, <2>3, LineIdsOfConcat DEF H
  <2>5. \A q : q = <<>> => 1..Len(q) = {}
    BY EmptySeq
  <2>6. LineIds(steers') = {} /\ Distinct(steers')
    BY <2>2, <2>5 DEF LineIds, Distinct
  <2>7. Parted(H \cup Q, {}, Unread, spent, dropped, typed) /\ Unread' = Unread
    BY <1>3, <1>4, <2>2
  <2> QED BY <2>2, <2>4, <2>6, <2>7 DEF FateInv
<1>19. CASE Stopped \/ FinalReply \/ TurnRaises \/ ToolEnds \/ LastCall \/ Answered
  BY <1>8, <1>19
  DEF Stopped, FinalReply, TurnRaises, ToolEnds, LastCall, Answered, input, session, history
<1>20. ASSUME NEW tool \in Tools, CallTool(tool) PROVE FateInv'
  BY <1>8, <1>20 DEF CallTool, session, history
<1>21. ASSUME NEW kind, AnsweredByInput(kind) PROVE FateInv'
  <2>1. UNCHANGED <<heard, steers, line, dropped>>
    BY <1>21 DEF AnsweredByInput, session
  <2>2. CASE closed
    BY <1>8, <1>21, <2>1, <2>2 DEF AnsweredByInput
  <2>3. CASE ~closed
    <3>1. typed' = typed + 1 /\ spent' = spent \cup {typed + 1}
      BY <1>21, <2>3 DEF AnsweredByInput
    <3> QED BY <1>3, <1>4, <1>5, <2>1, <3>1
  <2> QED BY <2>2, <2>3
<1> QED
  BY <1>9, <1>10, <1>11, <1>12, <1>13, <1>14, <1>15, <1>16, <1>17, <1>18, <1>19, <1>20, <1>21
  DEF Next, Loop, Turn, User

LEMMA LinesStep == ReaderInv /\ LinesInv /\ [Next]_vars => LinesInv'
<1> SUFFICES ASSUME ReaderInv, LinesInv, [Next]_vars PROVE LinesInv'
  OBVIOUS
<1>1. /\ TypeOK /\ Waits /\ turns \in Nat /\ typed \in Nat
      /\ heard \in Seq([id : Nat, for : Nat, in : Nat])
      /\ steers \in Seq([id : Nat, for : Nat])
      /\ \A i \in 1..Len(steers) : steers[i].for \in Nat
  <2>1. TypeOK /\ Waits
    BY DEF ReaderInv
  <2>2. \A i \in 1..Len(steers) : steers[i] \in [id : Nat, for : Nat]
    BY <2>1, ElementOfSeq DEF TypeOK
  <2> QED BY <2>1, <2>2 DEF TypeOK
<1>2. StartReader \/ NoReader => line' = NoLine
  BY DEF StartReader, NoReader
<1>3. line' = NoLine => (line'.id = 0 => line'.kind \in {"blank", "eof"})
  BY DEF NoLine
<1>4. ASSUME UNCHANGED <<heard, steers>>, turns' \in Nat, turns <= turns',
             loop' = "exited" => reader' = "none",
             line' = NoLine \/ UNCHANGED line
      PROVE  LinesInv'
  BY <1>1, <1>3, <1>4 DEF LinesInv
<1>5. ASSUME UNCHANGED <<heard, steers, turns, loop, reader, line>> PROVE LinesInv'
  BY <1>5 DEF LinesInv
<1>6. ASSUME NEW kind \in Kinds, Submit(kind) PROVE LinesInv'
  <2>1. /\ UNCHANGED <<heard, steers, turns, loop>> /\ loop # "exited"
        /\ line'.id = typed + 1
    BY <1>6 DEF Submit, session
  <2> QED BY <1>1, <2>1 DEF LinesInv
<1>7. CASE CloseInput \/ CyclePermissionMode \/ UNCHANGED vars
  BY <1>5, <1>7 DEF CloseInput, CyclePermissionMode, vars, input, session, history
<1>8. CASE ReadEof
  <2>1. /\ UNCHANGED <<heard, steers, turns, loop>> /\ loop # "exited"
        /\ line'.kind = "eof"
    BY <1>8 DEF ReadEof, session, history
  <2> QED BY <2>1 DEF LinesInv
<1>9. CASE ExitLoop
  <2>1. UNCHANGED <<heard, steers, turns>> /\ reader' = "none" /\ line' = NoLine
    BY <1>9 DEF ExitLoop, NoReader, session
  <2> QED BY <1>1, <1>4, <2>1
<1>10. CASE Command \/ \E s \in Sessions : ResumeSession(s)
  <2>1. /\ UNCHANGED <<heard, steers, turns, loop>> /\ loop = "prompt" /\ line' = NoLine
    BY <1>2, <1>10 DEF Command, ResumeSession, AtPrompt, session
  <2> QED BY <1>1, <1>4, <2>1
<1>11. CASE RunTurn
  <2> DEFINE m == Message(line.id, turns + 1, turns + 1)
  <2>1. m \in [id : Nat, for : Nat, in : Nat] /\ m.for <= m.in
    BY <1>1, SMTT(20) DEF TypeOK, Line, Message
  <2> HIDE DEF m
  <2>2. /\ heard' = Append(heard, m) /\ turns' = turns + 1 /\ loop' = "turn"
        /\ line' = NoLine /\ UNCHANGED steers
    BY <1>2, <1>11 DEF RunTurn, session, m
  <2>3. /\ Len(heard') = Len(heard) + 1 /\ Len(heard) \in Nat
        /\ \A i \in 1..Len(heard) : heard'[i] = heard[i]
        /\ heard'[Len(heard) + 1] = m
    BY <1>1, <2>1, <2>2, AppendProperties, LenProperties
  <2>4. \A i \in 1..Len(heard') : heard'[i].for <= heard'[i].in
    <3> SUFFICES ASSUME NEW i \in 1..Len(heard') PROVE heard'[i].for <= heard'[i].in
      OBVIOUS
    <3>1. i \in 1..Len(heard) \/ i = Len(heard) + 1
      BY <2>3
    <3> QED BY <2>1, <2>3, <3>1 DEF LinesInv
  <2>5. \A i \in 1..Len(steers) : steers[i].for <= turns'
    BY <1>1, <2>2 DEF LinesInv
  <2> QED BY <1>3, <2>2, <2>4, <2>5 DEF LinesInv
<1>12. CASE HandleLine
  <2>1. /\ UNCHANGED <<heard, turns, loop>> /\ line' = NoLine /\ loop = "turn"
    BY <1>2, <1>12 DEF HandleLine
  <2>2. CASE Steers
    <3> DEFINE e == [id |-> line.id, for |-> turns]
    <3>1. e \in [id : Nat, for : Nat] /\ e.for = turns
      BY <1>1 DEF TypeOK, Line
    <3> HIDE DEF e
    <3>2. steers' = Append(steers, e)
      BY <1>12, <2>2 DEF HandleLine, e
    <3>3. /\ Len(steers') = Len(steers) + 1 /\ Len(steers) \in Nat
          /\ \A i \in 1..Len(steers) : steers'[i] = steers[i]
          /\ steers'[Len(steers) + 1] = e
      BY <1>1, <3>1, <3>2, AppendProperties, LenProperties
    <3>4. \A i \in 1..Len(steers') : steers'[i].for <= turns
      <4> SUFFICES ASSUME NEW i \in 1..Len(steers') PROVE steers'[i].for <= turns
        OBVIOUS
      <4>1. i \in 1..Len(steers) \/ i = Len(steers) + 1
        BY <3>3
      <4>2. CASE i \in 1..Len(steers)
        BY <3>3, <4>2 DEF LinesInv
      <4>3. CASE i = Len(steers) + 1
        BY <1>1, <3>1, <3>3, <4>3
      <4> QED BY <4>1, <4>2, <4>3
    <3> QED BY <1>3, <2>1, <3>4 DEF LinesInv
  <2>3. CASE ~Steers
    <3>1. UNCHANGED steers
      BY <1>12, <2>3 DEF HandleLine
    <3> QED BY <1>1, <1>4, <2>1, <3>1
  <2> QED BY <2>2, <2>3
<1>13. CASE TurnOver
  <2>1. UNCHANGED <<heard, steers, turns>> /\ (loop' = "exited" => reader' = "none")
    BY <1>13 DEF TurnOver, NoReader, session
  <2>2. line' = NoLine \/ UNCHANGED line
    BY <1>2, <1>13 DEF TurnOver, NextReader
  <2> QED BY <1>1, <1>4, <2>1, <2>2
<1>14. CASE Interrupt
  <2>1. UNCHANGED <<heard, steers, turns>> /\ reader' = "none" /\ line' = NoLine
    BY <1>14 DEF Interrupt, NoReader, session
  <2> QED BY <1>1, <1>4, <2>1
<1>15. ASSUME NEW s \in Sessions, Restart(s) PROVE LinesInv'
  <2>1. steers' = <<>> /\ UNCHANGED <<heard, turns>> /\ loop' = "prompt" /\ line' = NoLine
    BY <1>15 DEF Restart
  <2>2. \A q : q = <<>> => 1..Len(q) = {}
    BY EmptySeq
  <2>3. 1..Len(steers') = {}
    BY <2>1, <2>2
  <2> QED BY <1>3, <2>1, <2>3 DEF LinesInv
<1>16. CASE BeginRound
  <2> DEFINE r == [i \in 1..Len(steers) |-> Message(steers[i].id, steers[i].for, turns)]
  <2>1. /\ r \in Seq([id : Nat, for : Nat, in : Nat])
        /\ \A i \in 1..Len(r) : i \in 1..Len(steers) /\ r[i].for = steers[i].for /\ r[i].in = turns
    BY <1>1, HeardSteers
  <2>2. /\ heard' = heard \o r /\ steers' = <<>>
        /\ UNCHANGED <<loop, reader, line, turns>>
    BY <1>16 DEF BeginRound, input
  <2> HIDE DEF r
  <2>3. \A i \in 1..Len(r) : r[i].for <= r[i].in
    BY <2>1 DEF LinesInv
  <2>4. /\ Len(heard) \in Nat /\ Len(r) \in Nat /\ Len(heard') = Len(heard) + Len(r)
        /\ \A i \in 1..(Len(heard) + Len(r)) :
              heard'[i] = IF i <= Len(heard) THEN heard[i] ELSE r[i - Len(heard)]
    BY <1>1, <2>1, <2>2, ConcatProperties, LenProperties
  <2>5. \A i \in 1..Len(heard') : heard'[i].for <= heard'[i].in
    <3> SUFFICES ASSUME NEW i \in 1..Len(heard') PROVE heard'[i].for <= heard'[i].in
      OBVIOUS
    <3>1. CASE i <= Len(heard)
      <4>1. i \in 1..Len(heard) /\ heard'[i] = heard[i]
        BY <2>4, <3>1
      <4> QED BY <4>1 DEF LinesInv
    <3>2. CASE ~(i <= Len(heard))
      <4>1. i - Len(heard) \in 1..Len(r) /\ heard'[i] = r[i - Len(heard)]
        BY <2>4, <3>2
      <4> QED BY <2>3, <4>1
    <3> QED BY <3>1, <3>2
  <2>6. \A q : q = <<>> => 1..Len(q) = {}
    BY EmptySeq
  <2>7. 1..Len(steers') = {}
    BY <2>2, <2>6
  <2> QED BY <2>2, <2>5, <2>7 DEF LinesInv
<1>17. CASE Stopped \/ FinalReply \/ TurnRaises \/ ToolEnds \/ LastCall \/ Answered
  BY <1>5, <1>17
  DEF Stopped, FinalReply, TurnRaises, ToolEnds, LastCall, Answered, input, session, history
<1>18. ASSUME NEW tool \in Tools, CallTool(tool) PROVE LinesInv'
  BY <1>5, <1>18 DEF CallTool, session, history
<1>19. ASSUME NEW kind, AnsweredByInput(kind) PROVE LinesInv'
  BY <1>5, <1>19 DEF AnsweredByInput, session
<1> QED
  BY <1>6, <1>7, <1>8, <1>9, <1>10, <1>11, <1>12, <1>13, <1>14, <1>15, <1>16, <1>17, <1>18, <1>19
  DEF Next, Loop, Turn, User

(* The sizes of parts that share nothing add up to the size of the whole.  *)
LEMMA SizesAdd ==
  ASSUME NEW H, NEW Q, NEW U, NEW S, NEW D, NEW n \in Nat, Parted(H, Q, U, S, D, n)
  PROVE  Cardinality(H) + Cardinality(Q) + Cardinality(U) + Cardinality(S) + Cardinality(D) = n
<1>1. IsFiniteSet(1..n) /\ Cardinality(1..n) = n
  <2>1. 1 \in Int /\ n \in Int
    OBVIOUS
  <2>2. IsFiniteSet(1..n) /\ Cardinality(1..n) = IF 1 > n THEN 0 ELSE n - 1 + 1
    BY <2>1, FS_Interval
  <2> QED BY <2>2
<1>2. \A T \in SUBSET (1..n) : IsFiniteSet(T) /\ Cardinality(T) \in Nat
  BY <1>1, FS_Subset, FS_CardinalityType
<1>3. /\ H \in SUBSET (1..n) /\ Q \in SUBSET (1..n) /\ U \in SUBSET (1..n)
      /\ S \in SUBSET (1..n) /\ D \in SUBSET (1..n)
  BY DEF Parted
<1>4. ASSUME NEW A \in SUBSET (1..n), NEW B \in SUBSET (1..n), A \cap B = {}
      PROVE  Cardinality(A \cup B) = Cardinality(A) + Cardinality(B)
  <2>1. Cardinality(A \cup B) = Cardinality(A) + Cardinality(B) - Cardinality(A \cap B)
    BY <1>2, FS_Union
  <2>2. Cardinality(A \cap B) = 0
    BY <1>4, FS_EmptySet
  <2>3. Cardinality(A) \in Nat /\ Cardinality(B) \in Nat
    BY <1>2
  <2> QED BY <2>1, <2>2, <2>3
<1>5. Cardinality(H \cup Q) = Cardinality(H) + Cardinality(Q)
  BY <1>3, <1>4 DEF Parted
<1>6. Cardinality((H \cup Q) \cup U) = Cardinality(H \cup Q) + Cardinality(U)
  <2>1. (H \cup Q) \in SUBSET (1..n) /\ (H \cup Q) \cap U = {}
    BY <1>3 DEF Parted
  <2> QED BY <1>3, <1>4, <2>1
<1>7. Cardinality((H \cup Q \cup U) \cup S) = Cardinality(H \cup Q \cup U) + Cardinality(S)
  <2>1. (H \cup Q \cup U) \in SUBSET (1..n) /\ (H \cup Q \cup U) \cap S = {}
    BY <1>3 DEF Parted
  <2> QED BY <1>3, <1>4, <2>1
<1>8. Cardinality((H \cup Q \cup U \cup S) \cup D) = Cardinality(H \cup Q \cup U \cup S) + Cardinality(D)
  <2>1. (H \cup Q \cup U \cup S) \in SUBSET (1..n) /\ (H \cup Q \cup U \cup S) \cap D = {}
    BY <1>3 DEF Parted
  <2> QED BY <1>3, <1>4, <2>1
<1>9. H \cup Q \cup U \cup S \cup D = 1..n
  BY DEF Parted
<1>10. /\ Cardinality(H) \in Nat /\ Cardinality(Q) \in Nat /\ Cardinality(U) \in Nat
       /\ Cardinality(S) \in Nat /\ Cardinality(D) \in Nat
  BY <1>2, <1>3
<1> QED BY <1>1, <1>5, <1>6, <1>7, <1>8, <1>9, <1>10

(* A sequence without repetitions holds as many lines as it is long.       *)
LEMMA SizeOfLines ==
  ASSUME NEW T, NEW q \in Seq(T), Distinct(q)
  PROVE  Cardinality(LineIds(q)) = Len(q)
<1> DEFINE f == [i \in 1..Len(q) |-> q[i].id]
<1>1. Len(q) \in Nat
  BY LenProperties
<1>2. f \in [1..Len(q) -> LineIds(q)]
  BY DEF LineIds
<1>3. \A a, b \in 1..Len(q) : f[a] = f[b] => a = b
  BY DEF Distinct
<1>4. \A t \in LineIds(q) : \E i \in 1..Len(q) : f[i] = t
  BY DEF LineIds
<1> HIDE DEF f
<1>5. f \in Bijection(1..Len(q), LineIds(q))
  BY <1>2, <1>3, <1>4, Fun_IsBij
<1>6. ExistsBijection(1..Len(q), LineIds(q))
  BY <1>5 DEF ExistsBijection
<1>7. IsFiniteSet(1..Len(q)) /\ Cardinality(1..Len(q)) = Len(q)
  <2>1. 1 \in Int /\ Len(q) \in Int
    BY <1>1
  <2>2. /\ IsFiniteSet(1..Len(q))
        /\ Cardinality(1..Len(q)) = IF 1 > Len(q) THEN 0 ELSE Len(q) - 1 + 1
    BY <2>1, FS_Interval
  <2> QED BY <1>1, <2>2
<1> QED BY <1>6, <1>7, FS_Bijection

(* Each submitted line comes to exactly one end: it is a message, a steer  *)
(* that waits, spent on a command or an answer, unread, or lost with its   *)
(* turn or process; and no steer is heard before its turn (repl_loop,      *)
(* _handle_mid_turn_input, _run_turns).                                    *)
THEOREM LineAlwaysHasOneFate == Spec => []LineHasOneFate
<1>1. ReaderInv /\ LinesInv /\ FateInv => LineHasOneFate
  <2> SUFFICES ASSUME ReaderInv, LinesInv, FateInv PROVE LineHasOneFate
    OBVIOUS
  <2>1. /\ typed \in Nat
        /\ heard \in Seq([id : Nat, for : Nat, in : Nat])
        /\ steers \in Seq([id : Nat, for : Nat])
    BY DEF ReaderInv, TypeOK
  <2>2. Parted(LineIds(heard), LineIds(steers), Unread, spent, dropped, typed)
    BY DEF FateInv
  <2>3. /\ Cardinality(LineIds(heard)) = Len(heard)
        /\ Cardinality(LineIds(steers)) = Len(steers)
    BY <2>1, SizeOfLines DEF FateInv
  <2>4. Len(heard) + Len(steers) + Cardinality(Unread) + Cardinality(spent)
          + Cardinality(dropped) = typed
    <3>1. Cardinality(LineIds(heard)) + Cardinality(LineIds(steers)) + Cardinality(Unread)
            + Cardinality(spent) + Cardinality(dropped) = typed
      BY <2>1, <2>2, SizesAdd
    <3> QED BY <2>3, <3>1
  <2>5. LineIds(heard) \cup LineIds(steers) \cup Unread \cup spent \cup dropped = 1..typed
    BY <2>2 DEF Parted
  <2> QED BY <2>4, <2>5 DEF LineHasOneFate, LinesInv, LineIds, Unread
<1> QED BY <1>1, FateInit, FateStep, LinesStep, ReaderInvariant, PTL DEF Spec

-----------------------------------------------------------------------------
(***************************************************************************)
(* The text helpers.                                                       *)
(***************************************************************************)

(* The largest and the smallest number of a bounded set.                   *)
LEMMA LeastNat ==
  ASSUME NEW T \in SUBSET Nat, T # {}
  PROVE  \E x \in T : \A y \in T : x <= y
<1>1. PICK x \in T : \A y \in T : ~ (<<y, x>> \in OpToRel(<, Nat))
  BY NatLessThanWellFounded, WFMin
<1>2. \A y \in T : x <= y
  <2> TAKE y \in T
  <2>1. x \in Nat /\ y \in Nat
    OBVIOUS
  <2>2. ~(y < x)
    BY <1>1, <2>1 DEF OpToRel
  <2> QED BY <2>1, <2>2
<1> QED BY <1>2

LEMMA LargestOf ==
  ASSUME NEW m \in Nat, NEW T \in SUBSET (0..m), T # {}
  PROVE  Helpers!Max(T) \in T /\ \A y \in T : y <= Helpers!Max(T)
<1> DEFINE D == {d \in 0..m : m - d \in T}
<1>1. D \in SUBSET Nat /\ D # {}
  <2>1. PICK x \in T : TRUE
    OBVIOUS
  <2>2. x \in 0..m
    OBVIOUS
  <2>3. m - x \in 0..m /\ m - (m - x) = x
    BY <2>2
  <2> QED BY <2>1, <2>3
<1>2. PICK d \in D : \A y \in D : d <= y
  BY <1>1, LeastNat
<1>3. ASSUME NEW y \in T PROVE m - d >= y
  <2>1. y \in 0..m
    OBVIOUS
  <2>2. m - y \in 0..m /\ m - (m - y) = y
    BY <2>1
  <2>3. m - y \in D
    BY <2>2
  <2> QED BY <1>2, <2>1, <2>3
<1>4. \E x \in T : \A y \in T : x >= y
  BY <1>2, <1>3
<1>5. Helpers!Max(T) \in T /\ \A y \in T : Helpers!Max(T) >= y
  BY <1>4 DEF Helpers!Max
<1> QED BY <1>5

LEMMA SmallestOf ==
  ASSUME NEW T \in SUBSET Nat, T # {}
  PROVE  Helpers!Min(T) \in T /\ \A y \in T : Helpers!Min(T) <= y
BY LeastNat DEF Helpers!Min

Saved == [chars : Seq(1..TextSize), point : Nat]

TextTyped ==
  /\ chars \in Seq(1..TextSize) /\ point \in 0..Len(chars)
  /\ ring \in Seq(Seq(1..TextSize)) /\ \A i \in DOMAIN ring : ring[i] # <<>>
  /\ undo \in Seq(Saved) /\ \A i \in DOMAIN undo : undo[i].point <= Len(undo[i].chars)
  /\ before \in Seq(1..TextSize)

(* What the kills in a row cut out is the newest entry, at the cursor.     *)
KilledAtPoint ==
  killing =>
    /\ ring # <<>>
    /\ SubSeq(chars, 1, point) \o ring[Len(ring)] \o SubSeq(chars, point + 1, Len(chars)) = before

UndoneToOriginal ==
  IF undo = <<>> THEN chars = original ELSE undo[1].chars = original

TextInv == TextTyped /\ KilledAtPoint /\ UndoneToOriginal

(* find_word_backward: the word before is e's, the last that is not white, *)
(* and begins behind b.                                                    *)
LEMMA WordBackward ==
  ASSUME TextTyped, NEW c \in 0..Len(chars), NEW b, b = Helpers!FindWordBackward(c)
  PROVE  /\ b \in 0..c
         /\ c > 0 => b < c
         /\ \/ b = 0 /\ \A i \in 1..c : Helpers!K(i) \in Helpers!White
            \/ \E e \in 1..c :
                 /\ b < e /\ Helpers!K(e) \notin Helpers!White
                 /\ \A i \in (e + 1)..c : Helpers!K(i) \in Helpers!White
                 /\ \A i \in (b + 1)..(e - 1) : Helpers!SameSegment(i, e)
                 /\ b > 0 => ~Helpers!SameSegment(b, e)
<1>1. c \in Nat
  BY DEF TextTyped
<1> DEFINE W == {0} \cup {i \in 1..c : Helpers!K(i) \notin Helpers!White}
<1>2. PICK e : e = Helpers!Max(W)
  OBVIOUS
<1>3. e \in W /\ \A y \in W : y <= e
  <2>1. W \in SUBSET (0..c) /\ W # {}
    BY <1>1
  <2> HIDE DEF W
  <2> QED BY <1>1, <1>2, <2>1, LargestOf
<1>4. \A i \in (e + 1)..c : Helpers!K(i) \in Helpers!White
  <2> SUFFICES ASSUME NEW i \in (e + 1)..c, Helpers!K(i) \notin Helpers!White PROVE FALSE
    OBVIOUS
  <2>1. i \in 1..c
    BY <1>1, <1>3
  <2> QED BY <1>1, <1>3, <2>1
<1>5. b = IF e = 0 THEN 0 ELSE Helpers!Max({0} \cup {i \in 1..(e - 1) : ~Helpers!SameSegment(i, e)})
  BY <1>2 DEF Helpers!FindWordBackward
<1>6. CASE e = 0
  <2>1. e + 1 = 1 /\ b = 0
    BY <1>5, <1>6
  <2> HIDE DEF W
  <2> QED BY <1>1, <1>4, <2>1
<1>7. CASE e # 0
  <2>1. e \in 1..c /\ Helpers!K(e) \notin Helpers!White
    BY <1>3, <1>7
  <2> DEFINE S == {0} \cup {i \in 1..(e - 1) : ~Helpers!SameSegment(i, e)}
  <2>2. S \in SUBSET (0..(e - 1)) /\ S # {} /\ e - 1 \in Nat
    BY <1>1, <2>1
  <2>3. b \in S /\ \A y \in S : y <= b
    BY <1>5, <1>7, <2>2, LargestOf
  <2> HIDE DEF W
  <2>4. \A i \in (b + 1)..(e - 1) : Helpers!SameSegment(i, e)
    <3> SUFFICES ASSUME NEW i \in (b + 1)..(e - 1), ~Helpers!SameSegment(i, e) PROVE FALSE
      OBVIOUS
    <3>1. i \in 1..(e - 1)
      BY <1>1, <2>1, <2>2, <2>3
    <3> QED BY <2>1, <2>2, <2>3, <3>1
  <2>5. b < e /\ b \in 0..c /\ (b > 0 => ~Helpers!SameSegment(b, e))
    BY <1>1, <2>1, <2>2, <2>3
  <2> QED BY <1>1, <1>4, <2>1, <2>4, <2>5
<1> QED BY <1>6, <1>7

(* find_word_forward: the word ahead is f's, the first that is not white,  *)
(* and ends at r - 1.                                                      *)
LEMMA WordForward ==
  ASSUME TextTyped, NEW c \in 0..Len(chars), NEW n, n = Len(chars), NEW t, t = Helpers!FindWordForward(c)
  PROVE  /\ t \in c..n
         /\ c < n => t > c
         /\ \/ t = n /\ \A i \in (c + 1)..n : Helpers!K(i) \in Helpers!White
            \/ \E f \in (c + 1)..n :
                 /\ f <= t /\ Helpers!K(f) \notin Helpers!White
                 /\ \A i \in (c + 1)..(f - 1) : Helpers!K(i) \in Helpers!White
                 /\ t < n => ~Helpers!SameSegment(t + 1, f)
<1>1. c \in Nat /\ n \in Nat /\ c <= n
  BY DEF TextTyped
<1> DEFINE W == {n + 1} \cup {i \in (c + 1)..n : Helpers!K(i) \notin Helpers!White}
<1>2. PICK f : f = Helpers!Min(W)
  OBVIOUS
<1>3. f \in W /\ \A y \in W : f <= y
  <2>1. W \in SUBSET Nat /\ W # {}
    BY <1>1
  <2> QED BY <1>2, <2>1, SmallestOf
<1>4. \A i \in (c + 1)..(f - 1) : Helpers!K(i) \in Helpers!White
  <2> SUFFICES ASSUME NEW i \in (c + 1)..(f - 1), Helpers!K(i) \notin Helpers!White PROVE FALSE
    OBVIOUS
  <2>1. i \in (c + 1)..n
    BY <1>1, <1>3
  <2> QED BY <1>1, <1>3, <2>1
<1>5. t = IF f > n THEN n ELSE Helpers!Min({n + 1} \cup {i \in (f + 1)..n : ~Helpers!SameSegment(i, f)}) - 1
  BY <1>2 DEF Helpers!FindWordForward
<1>6. CASE f > n
  <2>1. f = n + 1
    BY <1>1, <1>3, <1>6
  <2>2. (f - 1) = n
    BY <1>1, <2>1
  <2> QED BY <1>1, <1>4, <1>5, <1>6, <2>2
<1>7. CASE ~(f > n)
  <2>1. f \in (c + 1)..n /\ Helpers!K(f) \notin Helpers!White
    BY <1>1, <1>3, <1>7
  <2> DEFINE S == {n + 1} \cup {i \in (f + 1)..n : ~Helpers!SameSegment(i, f)}
  <2>2. S \in SUBSET Nat /\ S # {}
    BY <1>1, <2>1
  <2>3. PICK r : r = Helpers!Min(S)
    OBVIOUS
  <2>4. r \in S /\ \A y \in S : r <= y
    BY <2>2, <2>3, SmallestOf
  <2>5. t = r - 1
    BY <1>5, <1>7, <2>3
  <2> HIDE DEF W
  <2>6. r \in (f + 1)..(n + 1)
    BY <1>1, <2>1, <2>4
  <2>7. t < n => ~Helpers!SameSegment(t + 1, f)
    <3>1. t + 1 = r
      BY <2>5, <2>6
    <3>2. t < n => r # n + 1
      BY <1>1, <2>5, <2>6
    <3> QED BY <2>4, <3>1, <3>2
  <2> HIDE DEF S
  <2>8. t \in c..n /\ t > c /\ f <= t
    BY <1>1, <2>1, <2>5, <2>6
  <2> QED BY <1>4, <2>1, <2>7, <2>8
<1> QED BY <1>6, <1>7

(* The parts of KillsComeBack that are about words.                        *)
LEMMA WordsWhole ==
  ASSUME TextTyped, NEW c \in 0..Len(chars),
         NEW b, b = Helpers!FindWordBackward(c)
  PROVE  /\ c > 0 => b < c
         /\ c < Len(chars) => Helpers!FindWordForward(c) > c
         /\ b > 0 => ~(Helpers!K(b) = "word" /\ Helpers!K(b + 1) = "word")
         /\ \A i \in (b + 1)..c : i > Helpers!FindWordForward(b) => Helpers!K(i) \in Helpers!White
<1>1. PICK n \in Nat : n = Len(chars)
  BY DEF TextTyped
<1>2. c \in Nat /\ c <= n
  BY <1>1
<1>3. b \in 0..c /\ (c > 0 => b < c)
  BY WordBackward
<1>4. c < Len(chars) => Helpers!FindWordForward(c) > c
  BY WordForward
<1>5. PICK t : t = Helpers!FindWordForward(b)
  OBVIOUS
<1>6. b \in 0..Len(chars)
  BY <1>1, <1>2, <1>3
<1>7. /\ t \in b..n
      /\ \/ t = n /\ \A i \in (b + 1)..n : Helpers!K(i) \in Helpers!White
         \/ \E f \in (b + 1)..n :
              /\ f <= t /\ Helpers!K(f) \notin Helpers!White
              /\ \A i \in (b + 1)..(f - 1) : Helpers!K(i) \in Helpers!White
              /\ t < n => ~Helpers!SameSegment(t + 1, f)
  BY <1>1, <1>5, <1>6, WordForward
<1>8. CASE b = 0 /\ \A i \in 1..c : Helpers!K(i) \in Helpers!White
  BY <1>2, <1>3, <1>4, <1>8
<1>9. CASE \E e \in 1..c :
             /\ b < e /\ Helpers!K(e) \notin Helpers!White
             /\ \A i \in (e + 1)..c : Helpers!K(i) \in Helpers!White
             /\ \A i \in (b + 1)..(e - 1) : Helpers!SameSegment(i, e)
             /\ b > 0 => ~Helpers!SameSegment(b, e)
  <2>1. PICK e \in 1..c :
          /\ b < e /\ Helpers!K(e) \notin Helpers!White
          /\ \A i \in (e + 1)..c : Helpers!K(i) \in Helpers!White
          /\ \A i \in (b + 1)..(e - 1) : Helpers!SameSegment(i, e)
          /\ b > 0 => ~Helpers!SameSegment(b, e)
    BY <1>9
  <2>2. \A i \in (b + 1)..e : Helpers!K(i) = Helpers!K(e)
    <3> SUFFICES ASSUME NEW i \in (b + 1)..e, i # e PROVE Helpers!K(i) = Helpers!K(e)
      OBVIOUS
    <3>1. i \in (b + 1)..(e - 1)
      BY <1>2, <1>3, <2>1
    <3> QED BY <2>1, <3>1 DEF Helpers!SameSegment
  <2>3. b + 1 < e => Helpers!K(e) \notin {"cjk", "cjk_space"}
    <3> SUFFICES ASSUME b + 1 < e PROVE Helpers!K(e) \notin {"cjk", "cjk_space"}
      OBVIOUS
    <3>1. b + 1 \in (b + 1)..(e - 1)
      BY <1>2, <1>3, <2>1
    <3> QED BY <2>1, <3>1 DEF Helpers!SameSegment
  <2>4. b > 0 => ~(Helpers!K(b) = "word" /\ Helpers!K(b + 1) = "word")
    <3> SUFFICES ASSUME b > 0, Helpers!K(b) = "word", Helpers!K(b + 1) = "word" PROVE FALSE
      OBVIOUS
    <3>1. Helpers!K(b + 1) = Helpers!K(e)
      BY <1>2, <1>3, <2>1, <2>2
    <3> QED BY <2>1, <3>1 DEF Helpers!SameSegment
  <2>5. ASSUME NEW i \in (b + 1)..c, i > t PROVE Helpers!K(i) \in Helpers!White
    <3>1. CASE i > e
      BY <1>2, <2>1, <3>1
    <3>2. CASE i <= e
      <4>1. t \in Int /\ t < n /\ t + 1 \in (b + 1)..e /\ e \in (b + 1)..n
        BY <1>2, <1>3, <1>7, <2>1, <2>5, <3>2
      <4>2. PICK f \in (b + 1)..n :
              /\ f <= t /\ Helpers!K(f) \notin Helpers!White
              /\ \A j \in (b + 1)..(f - 1) : Helpers!K(j) \in Helpers!White
              /\ t < n => ~Helpers!SameSegment(t + 1, f)
        BY <1>7, <4>1
      <4>3. f \in (b + 1)..e /\ b + 1 < e
        BY <1>1, <1>2, <1>3, <4>1, <4>2
      <4>4. Helpers!K(f) = Helpers!K(e) /\ Helpers!K(t + 1) = Helpers!K(e)
        BY <2>2, <4>1, <4>3
      <4>5. Helpers!SameSegment(t + 1, f)
        BY <2>3, <4>3, <4>4 DEF Helpers!SameSegment
      <4> QED BY <4>1, <4>2, <4>5
    <3> QED BY <1>2, <1>3, <2>1, <2>5, <3>1, <3>2
  <2> QED BY <1>3, <1>4, <1>5, <2>4, <2>5
<1>10. \/ b = 0 /\ \A i \in 1..c : Helpers!K(i) \in Helpers!White
       \/ \E e \in 1..c :
             /\ b < e /\ Helpers!K(e) \notin Helpers!White
             /\ \A i \in (e + 1)..c : Helpers!K(i) \in Helpers!White
             /\ \A i \in (b + 1)..(e - 1) : Helpers!SameSegment(i, e)
             /\ b > 0 => ~Helpers!SameSegment(b, e)
  BY WordBackward
<1> QED BY <1>8, <1>9, <1>10

LEMMA Regroup ==
  ASSUME NEW T, NEW s \in Seq(T), NEW t \in Seq(T), NEW u \in Seq(T), NEW v, v = s \o t
  PROVE  v \o u = s \o (t \o u)
BY ConcatAssociative

(* What is cut in two and put together again.                              *)
LEMMA CutInTwo ==
  ASSUME NEW T, NEW s \in Seq(T), NEW a \in 0..Len(s)
  PROVE  /\ SubSeq(s, 1, a) \in Seq(T) /\ SubSeq(s, a + 1, Len(s)) \in Seq(T)
         /\ Len(SubSeq(s, 1, a)) = a
         /\ SubSeq(s, 1, a) \o SubSeq(s, a + 1, Len(s)) = s
<1>1. PICK n \in Nat : n = Len(s) /\ DOMAIN s = 1..n
  BY LenProperties
<1>2. a \in Nat /\ a <= n
  BY <1>1
<1>3. (\A i \in 1..a : s[i] \in T) /\ (\A i \in (a + 1)..n : s[i] \in T)
  BY <1>1, <1>2, ElementOfSeq
<1>4. SubSeq(s, 1, a) \in Seq(T) /\ Len(SubSeq(s, 1, a)) = IF 1 <= a THEN a - 1 + 1 ELSE 0
  BY <1>2, <1>3, SubSeqProperties
<1>5. SubSeq(s, a + 1, n) \in Seq(T)
  BY <1>1, <1>2, <1>3, SubSeqProperties
<1>6. SubSeq(s, 1, a) \o SubSeq(s, a + 1, n) = SubSeq(s, 1, n)
  <2>1. 1 \in 1..(Len(s) + 1) /\ a \in (1 - 1)..Len(s) /\ n \in a..Len(s)
    BY <1>1, <1>2
  <2> QED BY <2>1, ConcatAdjacentSubSeq
<1>7. SubSeq(s, 1, n) = s
  BY <1>1, SubSeqFull
<1>8. Len(SubSeq(s, 1, a)) = a
  BY <1>2, <1>4
<1>9. n = Len(s)
  BY <1>1
<1> QED BY <1>4, <1>5, <1>6, <1>7, <1>8, <1>9

LEMMA CutBetween ==
  ASSUME NEW T, NEW s \in Seq(T), NEW t \in Seq(T)
  PROVE  SubSeq(s \o t, 1, Len(s)) = s /\ SubSeq(s \o t, Len(s) + 1, Len(s \o t)) = t
<1>1. PICK m \in Nat, n \in Nat : m = Len(s) /\ n = Len(t)
  BY LenProperties
<1>2. /\ s \o t \in Seq(T) /\ Len(s \o t) = m + n
      /\ \A i \in 1..(m + n) : (s \o t)[i] = IF i <= m THEN s[i] ELSE t[i - m]
  BY <1>1, ConcatProperties
<1>3. PICK w : w = s \o t
  OBVIOUS
<1>4. m \in 0..Len(w) /\ w \in Seq(T)
  BY <1>1, <1>2, <1>3
<1>5. /\ SubSeq(w, 1, m) \in Seq(T) /\ SubSeq(w, m + 1, Len(w)) \in Seq(T)
      /\ Len(SubSeq(w, 1, m)) = m
  BY <1>4, CutInTwo
<1>6. \A i \in 1..m : SubSeq(w, 1, m)[i] = s[i]
  <2>1. \A i \in 1..m : w[i] \in T
    BY <1>2, <1>3, <1>4, ElementOfSeq
  <2>2. \A i \in 1..(m - 1 + 1) : SubSeq(w, 1, m)[i] = w[1 + i - 1]
    BY <1>1, <2>1, SubSeqProperties
  <2>3. \A i \in 1..m : i \in 1..(m - 1 + 1) /\ 1 + i - 1 = i /\ i \in 1..(m + n) /\ i <= m
    BY <1>1
  <2> QED BY <1>2, <1>3, <2>2, <2>3
<1>7. SubSeq(w, 1, m) = s
  BY <1>1, <1>5, <1>6, SeqEqual
<1>8. SubSeq(w, m + 1, m + n) = t
  <2>1. \A i \in (m + 1)..(m + n) : w[i] \in T
    BY <1>2, <1>3, <1>4, ElementOfSeq
  <2>2. /\ SubSeq(w, m + 1, m + n) \in Seq(T)
        /\ Len(SubSeq(w, m + 1, m + n)) = IF m + 1 <= m + n THEN (m + n) - (m + 1) + 1 ELSE 0
        /\ \A i \in 1..((m + n) - (m + 1) + 1) : SubSeq(w, m + 1, m + n)[i] = w[(m + 1) + i - 1]
    BY <1>1, <2>1, SubSeqProperties
  <2>3. Len(SubSeq(w, m + 1, m + n)) = n
    BY <1>1, <2>2
  <2>4. \A i \in 1..n : /\ i \in 1..((m + n) - (m + 1) + 1) /\ (m + 1) + i - 1 = m + i
                        /\ m + i \in 1..(m + n) /\ ~(m + i <= m) /\ (m + i) - m = i
    BY <1>1
  <2>5. \A i \in 1..n : SubSeq(w, m + 1, m + n)[i] = t[i]
    BY <1>2, <1>3, <2>2, <2>4
  <2> QED BY <1>1, <2>2, <2>3, <2>5, SeqEqual
<1>9. m = Len(s) /\ Len(w) = m + n
  BY <1>1, <1>2, <1>3
<1> QED BY <1>3, <1>7, <1>8, <1>9

LEMMA UndoPushed ==
  ASSUME TextInv, Helpers!Edit, UNCHANGED original
  PROVE  /\ undo' \in Seq(Saved) /\ \A i \in DOMAIN undo' : undo'[i].point <= Len(undo'[i].chars)
         /\ UndoneToOriginal'
<1> DEFINE now == [chars |-> chars, point |-> point]
<1>1. undo' = Append(undo, now) /\ now \in Saved /\ now.point <= Len(now.chars)
  <2>1. Len(chars) \in Nat
    BY LenProperties DEF TextInv, TextTyped
  <2> QED BY <2>1 DEF TextInv, TextTyped, Helpers!Edit, Saved
<1>2. undo \in Seq(Saved) /\ now.chars = chars
  BY DEF TextInv, TextTyped
<1> HIDE DEF now
<1>3. /\ undo' \in Seq(Saved) /\ Len(undo') = Len(undo) + 1 /\ DOMAIN undo' = 1..(Len(undo) + 1)
      /\ undo'[Len(undo) + 1] = now
      /\ \A i \in 1..Len(undo) : undo'[i] = undo[i]
      /\ DOMAIN undo = 1..Len(undo) /\ Len(undo) \in Nat
  BY <1>1, <1>2
<1>4. \A i \in DOMAIN undo' : undo'[i].point <= Len(undo'[i].chars)
  <2> SUFFICES ASSUME NEW i \in DOMAIN undo' PROVE undo'[i].point <= Len(undo'[i].chars)
    OBVIOUS
  <2>1. CASE i = Len(undo) + 1
    BY <1>1, <1>3, <2>1
  <2>2. CASE i # Len(undo) + 1
    <3>1. i \in DOMAIN undo /\ undo'[i] = undo[i]
      BY <1>3, <2>2
    <3> QED BY <3>1 DEF TextInv, TextTyped
  <2> QED BY <2>1, <2>2
<1>5. undo' # <<>>
  BY <1>3
<1>6. undo'[1].chars = original
  <2>1. CASE undo = <<>>
    <3>1. Len(undo) + 1 = 1 /\ chars = original
      BY <2>1 DEF TextInv, UndoneToOriginal
    <3> QED BY <1>2, <1>3, <3>1
  <2>2. CASE undo # <<>>
    <3>1. 1 \in 1..Len(undo)
      BY <1>2, <1>3, <2>2
    <3>2. undo'[1] = undo[1]
      BY <1>3, <3>1
    <3> QED BY <2>2, <3>2 DEF TextInv, UndoneToOriginal
  <2> QED BY <2>1, <2>2
<1> QED BY <1>3, <1>4, <1>5, <1>6 DEF UndoneToOriginal

(* A kill, on whichever side of the cursor, makes the newest entry of the  *)
(* ring what was cut out since the kills began.                            *)
LEMMA KillKeeps ==
  ASSUME TextInv, NEW from \in 0..point, NEW to \in point..Len(chars), from < to,
         from = point \/ to = point, Helpers!Kill(from, to)
  PROVE  TextInv'
<1>0. PICK T : T = 1..TextSize
  OBVIOUS
<1>a. PICK left : left = SubSeq(chars, 1, from)
  OBVIOUS
<1>b. PICK gone : gone = SubSeq(chars, from + 1, to)
  OBVIOUS
<1>c. PICK right : right = SubSeq(chars, to + 1, Len(chars))
  OBVIOUS
<1>1. PICK n \in Nat : n = Len(chars) /\ DOMAIN chars = 1..n
  BY LenProperties DEF TextInv, TextTyped
<1>2. /\ chars \in Seq(T) /\ ring \in Seq(Seq(T)) /\ before \in Seq(T) /\ point \in Nat /\ point <= n
      /\ from \in Nat /\ to \in Nat /\ from <= point /\ point <= to /\ to <= n
  BY <1>0, <1>1 DEF TextInv, TextTyped
<1>3. left \in Seq(T) /\ Len(left) = from
  BY <1>1, <1>2, <1>a, CutInTwo
<1>4. right \in Seq(T) /\ SubSeq(chars, 1, to) \in Seq(T) /\ SubSeq(chars, 1, to) \o right = chars
  <2>1. to \in 0..Len(chars)
    BY <1>1, <1>2
  <2> QED BY <1>1, <1>2, <1>c, <2>1, CutInTwo
<1>5. gone \in Seq(T) /\ gone # <<>>
  <2>1. \A i \in (from + 1)..to : chars[i] \in T
    BY <1>1, <1>2, ElementOfSeq
  <2>2. gone \in Seq(T) /\ Len(gone) = IF from + 1 <= to THEN to - (from + 1) + 1 ELSE 0
    BY <1>2, <1>b, <2>1, SubSeqProperties
  <2>3. Len(gone) # 0
    BY <1>2, <2>2
  <2> QED BY <2>2, <2>3, EmptySeq
<1>6. left \o gone = SubSeq(chars, 1, to)
  <2>1. 1 \in 1..(Len(chars) + 1) /\ from \in (1 - 1)..Len(chars) /\ to \in from..Len(chars)
    BY <1>1, <1>2
  <2> QED BY <1>2, <1>a, <1>b, <2>1, ConcatAdjacentSubSeq
<1>7. gone \o right = SubSeq(chars, from + 1, Len(chars))
  <2>1. from + 1 \in 1..(Len(chars) + 1) /\ to \in ((from + 1) - 1)..Len(chars) /\ n \in to..Len(chars)
    BY <1>1, <1>2
  <2> QED BY <1>1, <1>2, <1>b, <1>c, <2>1, ConcatAdjacentSubSeq
<1>8. /\ chars' = left \o right /\ point' = from /\ killing' = TRUE
      /\ ring' = Helpers!Push(gone, from < point, killing)
      /\ before' = IF killing THEN before ELSE chars
      /\ Helpers!Edit /\ UNCHANGED original
  BY <1>a, <1>b, <1>c DEF Helpers!Kill
<1>9. /\ chars' \in Seq(T)
      /\ SubSeq(chars', 1, point') = left
      /\ SubSeq(chars', point' + 1, Len(chars')) = right
  BY <1>3, <1>4, <1>8, CutBetween, ConcatProperties
<1>10. point' \in 0..Len(chars')
  <2>1. Len(chars') = from + Len(right) /\ Len(right) \in Nat
    BY <1>3, <1>4, <1>8, ConcatProperties, LenProperties
  <2> QED BY <1>2, <1>8, <2>1
<1>11. PICK new \in Seq(T) :
         /\ new # <<>> /\ (left \o new) \o right = before'
         /\ ring' \in Seq(Seq(T)) /\ ring' # <<>> /\ ring'[Len(ring')] = new
         /\ \A i \in DOMAIN ring' : ring'[i] # <<>>
  <2>1. CASE killing
    <3> DEFINE last == ring[Len(ring)]
    <3>0. PICK new : new = IF from < point THEN gone \o last ELSE last \o gone
      OBVIOUS
    <3>1. ring # <<>> /\ (SubSeq(chars, 1, point) \o last) \o SubSeq(chars, point + 1, Len(chars)) = before
      BY <2>1 DEF TextInv, KilledAtPoint
    <3>2. PICK k \in Nat : k = Len(ring) /\ k > 0 /\ DOMAIN ring = 1..k
      BY <1>2, <3>1
    <3>3. last \in Seq(T)
      BY <1>2, <3>2
    <3> HIDE DEF last
    <3>4. new \in Seq(T) /\ new # <<>>
      <4>1. gone \o last \in Seq(T) /\ last \o gone \in Seq(T)
        BY <1>5, <3>3, ConcatProperties
      <4>2. gone \o last # <<>> /\ last \o gone # <<>>
        BY <1>5, <3>3, ConcatEqualIffEmpty
      <4> QED BY <3>0, <4>1, <4>2
    <3>5. (left \o new) \o right = before
      <4>1. CASE from < point
        <5>1. to = point
          BY <1>2, <4>1
        <5>2. left \o (gone \o last) = (left \o gone) \o last
          BY <1>3, <1>5, <3>3, Regroup
        <5>3. right = SubSeq(chars, point + 1, Len(chars))
          BY <1>c, <5>1
        <5>4. new = gone \o last
          BY <3>0, <4>1
        <5> QED BY <1>6, <3>1, <5>1, <5>2, <5>3, <5>4
      <4>2. CASE ~(from < point)
        <5>1. from = point
          BY <1>2, <4>2
        <5>2. PICK head \in Seq(T) : head = left \o last
          BY <1>3, <3>3, ConcatProperties
        <5>3. left \o (last \o gone) = (left \o last) \o gone
          BY <1>3, <1>5, <3>3, Regroup
        <5>4. (head \o gone) \o right = head \o (gone \o right)
          <6>1. PICK both : both = head \o gone
            OBVIOUS
          <6>2. both \o right = head \o (gone \o right)
            <7>1. right \in Seq(T) /\ gone \in Seq(T)
              BY <1>4, <1>5
            <7> QED BY <6>1, <7>1, Regroup
          <6> QED BY <6>1, <6>2
        <5>5. left = SubSeq(chars, 1, point)
          BY <1>a, <5>1
        <5>6. new = last \o gone
          BY <3>0, <4>2
        <5> QED BY <1>7, <3>1, <5>1, <5>2, <5>3, <5>4, <5>5, <5>6
      <4> QED BY <4>1, <4>2
    <3> DEFINE front == SubSeq(ring, 1, k - 1)
    <3>6. ring' = Append(front, new)
      <4>1. Helpers!Front(ring) = front
        BY <3>2 DEF Helpers!Front
      <4>2. Helpers!Last(ring) = last
        BY DEF Helpers!Last, last
      <4> HIDE DEF front
      <4> QED BY <1>5, <1>8, <2>1, <3>0, <3>1, <4>1, <4>2 DEF Helpers!Push
    <3>7. front \in Seq(Seq(T)) /\ Len(front) = k - 1 /\ \A i \in 1..(k - 1) : front[i] = ring[i]
      BY <1>2, <3>2
    <3> HIDE DEF front
    <3>8. /\ ring' \in Seq(Seq(T)) /\ Len(ring') = k /\ DOMAIN ring' = 1..k /\ ring'[k] = new
          /\ \A i \in 1..(k - 1) : ring'[i] = ring[i]
      <4>1. PICK R : R = Seq(T)
        OBVIOUS
      <4>2. front \in Seq(R) /\ new \in R /\ Len(front) = k - 1 /\ k \in Nat /\ k > 0
        BY <3>2, <3>4, <3>7, <4>1
      <4>3. /\ ring' \in Seq(R) /\ Len(ring') = k /\ DOMAIN ring' = 1..k /\ ring'[k] = new
            /\ \A i \in 1..(k - 1) : ring'[i] = front[i]
        BY <3>6, <4>2
      <4> QED BY <3>7, <4>1, <4>3
    <3>9. \A i \in DOMAIN ring' : ring'[i] # <<>>
      <4> SUFFICES ASSUME NEW i \in 1..k PROVE ring'[i] # <<>>
        BY <3>8
      <4>1. CASE i = k
        BY <3>4, <3>8, <4>1
      <4>2. CASE i # k
        <5>1. i \in 1..(k - 1) /\ i \in DOMAIN ring
          BY <3>2, <4>2
        <5> QED BY <3>8, <5>1 DEF TextInv, TextTyped
      <4> QED BY <4>1, <4>2
    <3>10. ring' # <<>>
      BY <3>2, <3>8
    <3> QED BY <1>8, <2>1, <3>4, <3>5, <3>8, <3>9, <3>10
  <2>2. CASE ~killing
    <3>1. ring' = Append(ring, gone)
      BY <1>5, <1>8, <2>2 DEF Helpers!Push
    <3>2. (left \o gone) \o right = before'
      BY <1>4, <1>6, <1>8, <2>2
    <3>3. PICK k \in Nat : k = Len(ring) /\ DOMAIN ring = 1..k
      BY <1>2
    <3>4. /\ ring' \in Seq(Seq(T)) /\ Len(ring') = k + 1 /\ DOMAIN ring' = 1..(k + 1) /\ ring'[k + 1] = gone
          /\ \A i \in 1..k : ring'[i] = ring[i]
      BY <1>2, <1>5, <3>1, <3>3
    <3>5. \A i \in DOMAIN ring' : ring'[i] # <<>>
      <4> SUFFICES ASSUME NEW i \in 1..(k + 1) PROVE ring'[i] # <<>>
        BY <3>4
      <4>1. CASE i = k + 1
        BY <1>5, <3>4, <4>1
      <4>2. CASE i # k + 1
        <5>1. i \in 1..k /\ i \in DOMAIN ring
          BY <3>3, <4>2
        <5> QED BY <3>4, <5>1 DEF TextInv, TextTyped
      <4> QED BY <4>1, <4>2
    <3>6. ring' # <<>>
      BY <3>3, <3>4
    <3> QED BY <1>5, <3>2, <3>4, <3>5, <3>6
  <2> QED BY <2>1, <2>2
<1>12. before' \in Seq(T)
  BY <1>2, <1>8
<1>13. TextTyped'
  <2>1. chars' \in Seq(1..TextSize) /\ ring' \in Seq(Seq(1..TextSize)) /\ before' \in Seq(1..TextSize)
    BY <1>0, <1>9, <1>11, <1>12
  <2>2. UNCHANGED TextSize
    OBVIOUS
  <2>3. undo' \in Seq(Saved) /\ \A i \in DOMAIN undo' : undo'[i].point <= Len(undo'[i].chars)
    BY <1>8, UndoPushed
  <2> QED BY <1>10, <1>11, <2>1, <2>3 DEF TextTyped, Saved
<1>14. KilledAtPoint'
  BY <1>9, <1>11 DEF KilledAtPoint
<1> QED BY <1>8, <1>13, <1>14, UndoPushed DEF TextInv

LEMMA TextInit == InitAll => TextInv
<1> SUFFICES ASSUME InitAll PROVE TextInv
  OBVIOUS
<1>1. TextSize \in Nat
  BY TerminalAssumption DEF Helpers!TextHelpersAssumption
<1>2. /\ chars = [i \in 1..TextSize |-> i] /\ point = TextSize /\ ring = <<>> /\ undo = <<>>
      /\ killing = FALSE /\ before = chars /\ original = chars
  BY DEF InitAll, Started, Helpers!Init
<1>3. chars \in Seq(1..TextSize) /\ Len(chars) = TextSize
  BY <1>1, <1>2
<1> QED BY <1>1, <1>2, <1>3 DEF TextInv, TextTyped, KilledAtPoint, UndoneToOriginal, Saved

LEMMA TextStutter ==
  ASSUME TextInv, UNCHANGED helperVars
  PROVE  TextInv'
BY DEF TextInv, TextTyped, KilledAtPoint, UndoneToOriginal, helperVars, Saved

LEMMA GoKeeps ==
  ASSUME TextInv, NEW to \in 0..Len(chars), Helpers!Go(to)
  PROVE  TextInv'
BY DEF TextInv, TextTyped, KilledAtPoint, UndoneToOriginal, Helpers!Go, Saved

LEMMA YankKeeps ==
  ASSUME TextInv, Helpers!Yank
  PROVE  TextInv'
<1>0. PICK T : T = 1..TextSize
  OBVIOUS
<1>1. PICK n \in Nat, k \in Nat :
        /\ n = Len(chars) /\ k = Len(ring) /\ k > 0 /\ DOMAIN ring = 1..k /\ point \in 0..n
        /\ chars \in Seq(T) /\ ring \in Seq(Seq(T)) /\ before \in Seq(T)
  <2>1. ring # <<>>
    BY DEF Helpers!Yank
  <2> QED BY <1>0, <2>1, LenProperties, EmptySeq DEF TextInv, TextTyped
<1>2. PICK new \in Seq(T) : new = ring[k]
  <2>1. ring[k] \in Seq(T)
    BY <1>1, ElementOfSeq
  <2> QED BY <2>1
<1>3. PICK left \in Seq(T) : left = SubSeq(chars, 1, point) /\ Len(left) = point
  BY <1>1, CutInTwo
<1>4. PICK right \in Seq(T) : right = SubSeq(chars, point + 1, Len(chars))
  BY <1>1, CutInTwo
<1>5. /\ chars' = (left \o new) \o right /\ point' = point + Len(new) /\ killing' = FALSE
      /\ Helpers!Edit /\ UNCHANGED <<ring, before, original>>
  BY <1>1, <1>2, <1>3, <1>4 DEF Helpers!Yank, Helpers!Last
<1>6. left \o new \in Seq(T) /\ Len(left \o new) = point + Len(new)
  BY <1>3, ConcatProperties
<1>7. chars' \in Seq(T) /\ Len(chars') = (point + Len(new)) + Len(right)
  BY <1>5, <1>6, ConcatProperties
<1>8. Len(new) \in Nat /\ Len(right) \in Nat
  BY LenProperties
<1>9. point' \in 0..Len(chars')
  BY <1>1, <1>5, <1>7, <1>8
<1>10. undo' \in Seq(Saved) /\ \A i \in DOMAIN undo' : undo'[i].point <= Len(undo'[i].chars)
  BY <1>5, UndoPushed
<1>11. chars' \in Seq(1..TextSize)
  BY <1>0, <1>7
<1>12. /\ ring' \in Seq(Seq(1..TextSize)) /\ before' \in Seq(1..TextSize)
       /\ \A i \in DOMAIN ring' : ring'[i] # <<>>
  BY <1>5 DEF TextInv, TextTyped
<1>13. TextTyped'
  BY <1>9, <1>10, <1>11, <1>12 DEF TextTyped, Saved
<1> QED BY <1>5, <1>13, UndoPushed DEF TextInv, KilledAtPoint

LEMMA RotateKeeps ==
  ASSUME TextInv, Helpers!Rotate
  PROVE  TextInv'
<1>0. PICK R : R = Seq(1..TextSize)
  OBVIOUS
<1>1. PICK k \in Nat : k = Len(ring) /\ DOMAIN ring = 1..k /\ ring \in Seq(R)
  BY <1>0, LenProperties DEF TextInv, TextTyped
<1>2. ring' \in Seq(R) /\ \A i \in DOMAIN ring' : \E j \in DOMAIN ring : ring'[i] = ring[j]
  <2>1. ring' = IF k > 1 THEN <<ring[k]>> \o SubSeq(ring, 1, k - 1) ELSE ring
    BY <1>1 DEF Helpers!Rotate, Helpers!Rotated, Helpers!Last, Helpers!Front
  <2>2. CASE k > 1
    <3>1. PICK first : first = <<ring[k]>>
      OBVIOUS
    <3>2. PICK front : front = SubSeq(ring, 1, k - 1)
      OBVIOUS
    <3>3. ring[k] \in R
      BY <1>1, <2>2, ElementOfSeq
    <3>4. first \in Seq(R) /\ Len(first) = 1 /\ first[1] = ring[k]
      BY <3>1, <3>3
    <3>5. front \in Seq(R) /\ Len(front) = k - 1 /\ \A i \in 1..(k - 1) : front[i] = ring[i]
      BY <1>1, <2>2, <3>2
    <3>6. /\ first \o front \in Seq(R) /\ Len(first \o front) = 1 + (k - 1)
          /\ \A i \in 1..(1 + (k - 1)) : (first \o front)[i] = IF i <= 1 THEN first[i] ELSE front[i - 1]
      BY <3>4, <3>5, ConcatProperties
    <3>7. ring' = first \o front
      BY <2>1, <2>2, <3>1, <3>2
    <3>8. DOMAIN ring' = 1..k
      BY <1>1, <3>6, <3>7
    <3>9. ASSUME NEW i \in 1..k PROVE \E j \in 1..k : ring'[i] = ring[j]
      <4>1. CASE i = 1
        BY <1>1, <2>2, <3>4, <3>6, <3>7, <4>1
      <4>2. CASE i # 1
        <5>1. i \in 1..(1 + (k - 1)) /\ ~(i <= 1) /\ i - 1 \in 1..(k - 1) /\ i - 1 \in 1..k
          BY <1>1, <4>2
        <5>2. ring'[i] = ring[i - 1]
          BY <3>5, <3>6, <3>7, <5>1
        <5> QED BY <5>1, <5>2
      <4> QED BY <4>1, <4>2
    <3> QED BY <1>1, <3>6, <3>7, <3>8, <3>9
  <2>3. CASE ~(k > 1)
    BY <1>1, <2>1, <2>3
  <2> QED BY <2>2, <2>3
<1>3. \A i \in DOMAIN ring' : ring'[i] # <<>>
  BY <1>2 DEF TextInv, TextTyped
<1>4. killing' = FALSE /\ UNCHANGED <<chars, point, undo, before, original>>
  BY DEF Helpers!Rotate
<1>5. ring' \in Seq(Seq(1..TextSize))
  BY <1>0, <1>2
<1>6. TextTyped'
  BY <1>3, <1>4, <1>5 DEF TextInv, TextTyped, Saved
<1> QED BY <1>4, <1>6 DEF TextInv, KilledAtPoint, UndoneToOriginal

LEMMA UndoKeeps ==
  ASSUME TextInv, Helpers!Undo
  PROVE  TextInv'
<1>1. PICK k \in Nat : k = Len(undo) /\ k > 0 /\ DOMAIN undo = 1..k /\ undo \in Seq(Saved)
  <2>1. undo # <<>>
    BY DEF Helpers!Undo
  <2> QED BY <2>1, LenProperties, EmptySeq DEF TextInv, TextTyped
<1>2. /\ chars' = undo[k].chars /\ point' = undo[k].point /\ undo' = SubSeq(undo, 1, k - 1)
      /\ killing' = FALSE /\ UNCHANGED <<ring, before, original>>
  BY <1>1 DEF Helpers!Undo, Helpers!Last, Helpers!Front
<1>3. undo[k] \in Saved /\ undo[k].point <= Len(undo[k].chars)
  BY <1>1, ElementOfSeq DEF TextInv, TextTyped
<1>4. /\ undo' \in Seq(Saved) /\ Len(undo') = k - 1 /\ DOMAIN undo' = 1..(k - 1)
      /\ \A i \in 1..(k - 1) : undo'[i] = undo[i]
  BY <1>1, <1>2
<1>5. \A i \in DOMAIN undo' : undo'[i].point <= Len(undo'[i].chars)
  <2> SUFFICES ASSUME NEW i \in 1..(k - 1) PROVE undo'[i].point <= Len(undo'[i].chars)
    BY <1>4
  <2>1. i \in DOMAIN undo /\ undo'[i] = undo[i]
    BY <1>1, <1>4
  <2> QED BY <2>1 DEF TextInv, TextTyped
<1>6. chars' \in Seq(1..TextSize) /\ point' \in 0..Len(chars')
  <2>1. undo[k].chars \in Seq(1..TextSize) /\ undo[k].point \in Nat
    BY <1>3 DEF Saved
  <2>2. Len(undo[k].chars) \in Nat
    BY <2>1, LenProperties
  <2> QED BY <1>2, <1>3, <2>1, <2>2
<1>7. UndoneToOriginal'
  <2>1. undo[1].chars = original
    BY <1>1 DEF TextInv, UndoneToOriginal
  <2>2. CASE k = 1
    <3>1. undo' = <<>> /\ chars' = original
      BY <1>2, <1>4, <2>1, <2>2
    <3> QED BY <1>2, <3>1 DEF UndoneToOriginal
  <2>3. CASE k # 1
    <3>1. undo'[1] = undo[1] /\ undo' # <<>>
      BY <1>1, <1>4, <2>3
    <3> QED BY <1>2, <2>1, <3>1 DEF UndoneToOriginal
  <2> QED BY <2>2, <2>3
<1>8. TextTyped'
  BY <1>2, <1>4, <1>5, <1>6 DEF TextInv, TextTyped, Saved
<1> QED BY <1>2, <1>7, <1>8 DEF TextInv, KilledAtPoint

LEMMA TextStep ==
  ASSUME TextInv, Helpers!Next
  PROVE  TextInv'
<1>1. PICK b : b = Helpers!FindWordBackward(point)
  OBVIOUS
<1>2. PICK f : f = Helpers!FindWordForward(point)
  OBVIOUS
<1>3. PICK n \in Nat : n = Len(chars) /\ point \in 0..n
  BY LenProperties DEF TextInv, TextTyped
<1>4. b \in 0..point
  BY <1>1, <1>3, WordBackward DEF TextInv
<1>5. f \in point..n
  BY <1>2, <1>3, WordForward DEF TextInv
<1>6. ASSUME Helpers!KillBackward PROVE TextInv'
  <2>1. b < point /\ Helpers!Kill(b, point) /\ point \in point..Len(chars)
    BY <1>1, <1>3, <1>6 DEF Helpers!KillBackward
  <2> QED BY <1>4, <2>1, KillKeeps
<1>7. ASSUME Helpers!KillForward PROVE TextInv'
  <2>1. point < f /\ Helpers!Kill(point, f) /\ point \in 0..point /\ f \in point..Len(chars)
    BY <1>2, <1>3, <1>5, <1>7 DEF Helpers!KillForward
  <2> QED BY <2>1, KillKeeps
<1>8. ASSUME Helpers!Go(b) PROVE TextInv'
  BY <1>3, <1>4, <1>8, GoKeeps
<1>9. ASSUME Helpers!Go(f) PROVE TextInv'
  BY <1>3, <1>5, <1>9, GoKeeps
<1> QED
  BY <1>1, <1>2, <1>6, <1>7, <1>8, <1>9, YankKeeps, RotateKeeps, UndoKeeps DEF Helpers!Next

LEMMA TextGives ==
  ASSUME TextInv
  PROVE  Helpers!KillsComeBack
<1>1. Helpers!TypeOK
  BY DEF TextInv, TextTyped, Helpers!TypeOK
<1>2. ASSUME NEW c \in 0..Len(chars)
      PROVE  LET b == Helpers!FindWordBackward(c)
                 f == Helpers!FindWordForward(c)
             IN  /\ c > 0 => b < c
                 /\ c < Len(chars) => f > c
                 /\ b > 0 => ~(Helpers!K(b) = "word" /\ Helpers!K(b + 1) = "word")
                 /\ \A i \in (b + 1)..c : i > Helpers!FindWordForward(b) => Helpers!K(i) \in Helpers!White
  BY WordsWhole DEF TextInv
<1>3. killing => (SubSeq(chars, 1, point) \o Helpers!Last(ring)) \o SubSeq(chars, point + 1, Len(chars)) = before
  BY DEF TextInv, KilledAtPoint, Helpers!Last
<1>4. undo # <<>> => undo[1].chars = original
  BY DEF TextInv, UndoneToOriginal
<1> QED BY <1>1, <1>2, <1>3, <1>4 DEF Helpers!KillsComeBack

(* word_navigation, KillRing and UndoStack: for a text of any size and any *)
(* number of edits, words are moved over as wholes, the kills in a row are *)
(* one entry that gives the text back, and undo ends at the first text.    *)
THEOREM KillsAlwaysComeBack == FairAll => []KillsComeBack
<1>1. InitAll => TextInv
  BY TextInit
<1>2. TextInv /\ [NextAll]_<<part, vars, helperVars>> => TextInv'
  BY TextStutter, TextStep DEF NextAll
<1>3. TextInv => KillsComeBack
  BY TextGives DEF KillsComeBack
<1> QED BY <1>1, <1>2, <1>3, PTL DEF FairAll
=============================================================================
