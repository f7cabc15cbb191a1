------------------------------- MODULE LiveBox -------------------------------
(***************************************************************************)
(* interactive_mode's live box: prompt, typed text, rule and footer, kept  *)
(* below the transcript by erasing it before each print and drawing it     *)
(* anew after.  The main thread prints; a reader thread redraws the box at *)
(* every key.  One lock makes an erase or a draw atomic, not a print.      *)
(*                                                                         *)
(* A cell is 0 (blank), one of the box, or the number of the print that    *)
(* wrote it.  A draw is in the lock, so it is one step; so is a print.     *)
(***************************************************************************)
EXTENDS Integers, Sequences, FiniteSets, SequencesExt

CONSTANTS
  Width,      \* columns of the terminal, which has rows enough for the box
  ShortLine,  \* cells of the state line, but
  LongLine,   \* while a tool runs: its name is in it
  MenuRows,   \* models in the picker, each of one row
  MaxText,    \* bound: characters typed in a line
  MaxPrints,  \* bound: prints that are not blank
  MaxLines,   \* bound: lines submitted
  LineKinds   \* bound: what lines are submitted

LiveBoxAssumption ==
  /\ Width \in Nat \ {0, 1} /\ ShortLine \in Nat \ {0} /\ LongLine \in Nat \ {0}
  /\ LineKinds \subseteq {"empty", "command", "ask", "pick", "prompt"}
  /\ MenuRows \in Nat \ {0} /\ MaxText \in Nat /\ MaxPrints \in Nat /\ MaxLines \in Nat

VARIABLES
  posix,   \* the reader's raw mode is tty.setraw: no output processing
  box,     \* the terminal, _live_shown, _live_cursor_row, _live_footer_rows; history: what a draw drew
  live,    \* _live_text (its length) and _live_cursor
  status,  \* _status
  buf,     \* the reader's own text and cursor
  reader,  \* "off", "reading", or how its line ended
  phase,   \* repl_loop: "start", "idle", "turn", "closing" (EOF in it), "leaving", "over"
  stream,  \* the open block of the answer, and whether text of it is held back
  todo,    \* what the main thread has yet to do
  prints, lines,
  paper,   \* history: the terminal, had there been no box
  clean,   \* history: no print met the box, no draw an unfinished line
  stale    \* history: the line ended without a draw, and none came since

boxVars == <<posix, box, live, status, buf, reader, phase, stream, todo, prints, lines, paper, clean, stale>>

-----------------------------------------------------------------------------
(* A terminal.  Column Width + 1: the row is full and the wrap is due.     *)

Biggest(i, j) == IF i < j THEN j ELSE i
Smallest(i, j) == IF i < j THEN i ELSE j
Cells(n, x) == [i \in 1..n |-> x]
EmptyScreen == [rows |-> << <<>> >>, row |-> 1, col |-> 1]

SetCell(rows, r, c, x) ==
  LET old == IF r <= Len(rows) THEN rows[r] ELSE <<>>
      new == [i \in 1..Biggest(Len(old), c) |-> IF i = c THEN x ELSE IF i <= Len(old) THEN old[i] ELSE 0]
  IN  [i \in 1..Biggest(Len(rows), r) |-> IF i = r THEN new ELSE rows[i]]
PutCell(s, x) ==
  LET r == IF s.col > Width THEN s.row + 1 ELSE s.row
      c == IF s.col > Width THEN 1 ELSE s.col
  IN  [rows |-> SetCell(s.rows, r, c, x), row |-> r, col |-> c + 1]
Write(s, cells) == FoldLeft(PutCell, s, cells)

Feed(s, c) ==
  [rows |-> IF s.row = Len(s.rows) THEN Append(s.rows, <<>>) ELSE s.rows, row |-> s.row + 1, col |-> c]
CrLf(s) == Feed(s, 1)
Lf(s) == Feed(s, Smallest(s.col, Width))
Up(s, n) == [s EXCEPT !.row = Biggest(1, @ - n), !.col = Smallest(@, Width)]
Down(s, n) == [s EXCEPT !.row = Smallest(Len(s.rows), @ + n), !.col = Smallest(@, Width)]
ToColumn(s, c) == [s EXCEPT !.col = c]
ClearBelow(s) == [rows |-> Append(SubSeq(s.rows, 1, s.row - 1), <<>>), row |-> s.row, col |-> 1]

-----------------------------------------------------------------------------
(* The box.                                                                *)

Prompt == Cells(2, -1)
Rule == Cells(Width, -3)
StateLine(st) == Cells(IF st = "running" THEN LongLine ELSE ShortLine, -4)
ModeLine == <<-5>>
FooterLines(st) == <<StateLine(st), ModeLine>>

\* Mutant: the state line is taken for one row.
OneRow(line) == 1

VisibleRowCount(line) == Biggest(1, (Biggest(Len(line), 1) + Width - 1) \div Width)

FooterRows(st) == 1 + FoldLeft(LAMBDA n, line : n + VisibleRowCount(line), 0, FooterLines(st))

(* _row_col_after: rows are counted from 0, columns from 1.                *)
RowAfter(n) == (n - 1) \div Width
ColAfter(n) == Smallest(((n - 1) % Width) + 2, Width)

\* Mutant: the erase moves up by the footer's rows.
ErasedByFooter(b) ==
  IF ~b.shown THEN b
  ELSE [b EXCEPT !.screen = ClearBelow(Up(b.screen, b.footerRows)), !.shown = FALSE]

EraseLiveBox(b) ==
  IF ~b.shown THEN b
  ELSE [b EXCEPT !.screen = ClearBelow(Up(b.screen, b.cursorRow)), !.shown = FALSE]

WithFooter(s, st) == FoldLeft(LAMBDA t, line : Write(CrLf(t), line), s, <<Rule>> \o FooterLines(st))

RenderLiveBox(b, l, st) ==
  LET drawn == WithFooter(Write(EraseLiveBox(b).screen, Prompt \o Cells(l.text, -2)), st)
      lastRow == RowAfter(2 + l.text) + FooterRows(st)
      row == RowAfter(2 + l.cursor)
  IN  [screen |-> ToColumn(Up(drawn, lastRow - row), ColAfter(2 + l.cursor)),
       shown |-> TRUE, cursorRow |-> row, footerRows |-> FooterRows(st), drawn |-> l]

(* A draw below a line that has not ended spoils it at the next erase.     *)
Draw(l) ==
  /\ box' = RenderLiveBox(box, l, status) /\ live' = l
  /\ clean' = (clean /\ (box.shown \/ paper.col = 1))

Empty == [text |-> 0, cursor |-> 0]

Init ==
  /\ posix \in BOOLEAN
  /\ box = [screen |-> EmptyScreen, shown |-> FALSE, cursorRow |-> 0, footerRows |-> 0, drawn |-> Empty]
  /\ live = Empty /\ status = "ready" /\ buf = Empty /\ reader = "off" /\ phase = "start"
  /\ stream = [open |-> "none", held |-> FALSE] /\ todo = <<>> /\ prints = 0 /\ lines = 0
  /\ paper = EmptyScreen /\ clean = TRUE /\ stale = FALSE

-----------------------------------------------------------------------------
(* What the main thread does, step by step.                                *)

Op(name, n, nl) == [op |-> name, n |-> n, nl |-> nl]
Before == Op("before", 0, FALSE)
After == Op("after", 0, FALSE)
Refresh == Op("refresh", 0, FALSE)

(* FooterAwareOutputSink, print: no draw after a fragment of a line.        *)
SinkPrint(n, nl) == <<Before, Op("put", n, nl)>> \o IF nl THEN <<After>> ELSE <<>>
Ask(n) == <<Before, Op("put", n, FALSE), Op("input", 0, FALSE), After>>

Doing(name) == todo # <<>> /\ Head(todo).op = name
Done == todo' = Tail(todo)
Raw == posix /\ reader = "reading"

BoxBeforeOutput ==
  /\ Doing("before") /\ Done /\ box' = EraseLiveBox(box)
  /\ UNCHANGED <<posix, live, status, buf, reader, phase, stream, prints, lines, paper, clean, stale>>

(* _box_after_output, _refresh_status_footer.                              *)
BoxAfterOutput ==
  /\ Doing("after") \/ Doing("refresh")
  /\ Done /\ Draw(live)
  /\ UNCHANGED <<posix, status, buf, reader, phase, stream, prints, lines, paper, stale>>

(* The console ends a line with "\n", which raw mode leaves as it is.      *)
Put ==
  LET cells == Cells(Head(todo).n, prints + 1)
      nl == Head(todo).nl
      written == Write(box.screen, cells)
      bare == Write(paper, cells)
  IN  /\ Doing("put") /\ Done /\ prints' = IF Head(todo).n = 0 THEN prints ELSE prints + 1
      /\ box' = [box EXCEPT !.screen = IF ~nl THEN written ELSE IF Raw THEN Lf(written) ELSE CrLf(written)]
      /\ paper' = IF nl THEN CrLf(bare) ELSE bare
      /\ clean' = (clean /\ ~box.shown /\ ~(nl /\ Raw /\ written.col # 1))
      /\ UNCHANGED <<posix, live, status, buf, reader, phase, stream, lines, stale>>

(* input(): the terminal echoes the answer and its Enter; an EOF has none. *)
Input(n, eof) ==
  LET cells == Cells(n, prints + 1)
      Echo(s) == IF eof THEN s ELSE CrLf(Write(s, cells))
  IN  /\ Doing("input") /\ Done /\ prints' = prints + 1 /\ (eof => n = 0)
      /\ box' = [box EXCEPT !.screen = Echo(@)] /\ paper' = Echo(paper)
      /\ UNCHANGED <<posix, live, status, buf, reader, phase, stream, lines, clean, stale>>

(* _select_model_interactive_repl: the rows, with one of them highlighted; *)
(* a move of the highlight goes up and draws them all again.               *)
Menu(s, index) ==
  FoldLeft(LAMBDA t, i : Write(IF i = 1 THEN t ELSE CrLf(t), <<IF i = index THEN -7 ELSE -6>>),
           s, [i \in 1..MenuRows |-> i])
MenuAgain(s, index) == Menu(ClearBelow(Up(s, MenuRows - 1)), index)
Highlight(index) ==
  /\ Doing("menu") /\ Head(todo).n # index
  /\ todo' = <<Op("menu", index, FALSE)>> \o Tail(todo)
  /\ box' = [box EXCEPT !.screen = IF Head(todo).n = 0 THEN Menu(ClearBelow(@), index) ELSE MenuAgain(@, index)]
  /\ paper' = Menu(IF Head(todo).n = 0 THEN paper
                   ELSE ClearBelow([paper EXCEPT !.row = Len(paper.rows) - MenuRows + 1]), index)
  /\ UNCHANGED <<posix, live, status, buf, reader, phase, stream, prints, lines, clean, stale>>
EndMenu ==
  /\ Doing("menu") /\ Head(todo).n # 0 /\ Done
  /\ box' = [box EXCEPT !.screen = CrLf(@)] /\ paper' = CrLf(paper)
  /\ UNCHANGED <<posix, live, status, buf, reader, phase, stream, prints, lines, clean, stale>>

-----------------------------------------------------------------------------
(* _handle_event: events of the answer, and of the tools between answers.  *)

Event(was, now, st, work) ==
  /\ phase \in {"turn", "closing"} /\ todo = <<>> /\ stream.open \in was
  /\ prints < MaxPrints \/ \A i \in DOMAIN work : work[i].n = 0
  /\ stream' = now /\ status' = st /\ todo' = work
  /\ UNCHANGED <<posix, box, live, buf, reader, phase, prints, lines, paper, clean, stale>>

Open(type) == [open |-> type, held |-> FALSE]
Closed == Open("none")
FlushTextBlock == IF stream.held THEN SinkPrint(Width, TRUE) ELSE <<>>

ThinkingStart == Event({"none"}, Open("thinking"), status, SinkPrint(1, TRUE) \o <<Refresh>>)
ThinkingDelta == Event({"thinking"}, stream, status, SinkPrint(1, FALSE))
ThinkingEnd == Event({"thinking"}, Closed, status, SinkPrint(0, TRUE) \o <<Refresh>>)
TextStart == Event({"none"}, Open("text"), status, <<Refresh>>)
TextDelta == Event({"text"}, [stream EXCEPT !.held = TRUE], status, <<>>) /\ ~stream.held
TextEnd == Event({"text"}, Closed, status, FlushTextBlock \o <<Refresh>>)
Notice == Event({"none"}, stream, status, SinkPrint(1, TRUE) \o <<Refresh>>)
ToolCallStart == Event({"none"}, stream, "running", SinkPrint(1, TRUE) \o <<Refresh>>) /\ status # "running"
ToolCallEnd == Event({"none"}, stream, "thinking", SinkPrint(1, TRUE) \o <<Refresh>>) /\ status = "running"
StreamDone == Event({"none", "text"}, Closed, "ready", FlushTextBlock \o <<Refresh>>) /\ status = "thinking"
StreamError ==
  Event({"none", "thinking", "text"}, Closed, "ready", FlushTextBlock \o SinkPrint(1, TRUE) \o <<Refresh>>)

(* _confirm_tool: the line reader brings the answer; with no reader left,  *)
(* input() does.                                                           *)
ConfirmTool == Event({"none"}, stream, status, IF phase = "turn" THEN SinkPrint(Width + 1, TRUE) ELSE Ask(1))

HandleEvent ==
  \/ ThinkingStart \/ ThinkingDelta \/ ThinkingEnd \/ TextStart \/ TextDelta \/ TextEnd \/ Notice
  \/ ToolCallStart \/ ToolCallEnd \/ StreamDone \/ StreamError \/ ConfirmTool

-----------------------------------------------------------------------------
(* repl_loop and _run_turn_accepting_mid_turn_input.                       *)

Begin ==
  /\ phase = "start" /\ phase' = "idle" /\ Draw(Empty)
  /\ UNCHANGED <<posix, status, buf, reader, stream, todo, prints, lines, paper, stale>>

ReadLiveLine ==
  /\ reader = "off" /\ phase \in {"idle", "turn"} /\ todo = <<>> /\ lines < MaxLines
  /\ reader' = "reading" /\ buf' = Empty
  /\ UNCHANGED <<posix, box, live, status, phase, stream, todo, prints, lines, paper, clean, stale>>

(* The reader thread, which runs whatever the main thread is doing.        *)
Key(l) ==
  /\ reader = "reading" /\ l # buf /\ l.text \in 0..MaxText
  /\ buf' = l /\ stale' = FALSE /\ Draw(l)
  /\ UNCHANGED <<posix, status, reader, phase, stream, todo, prints, lines, paper>>
TypeKey == Key([text |-> buf.text + 1, cursor |-> buf.cursor + 1])
Backspace == buf.cursor > 0 /\ Key([text |-> buf.text - 1, cursor |-> buf.cursor - 1])
Home == Key([buf EXCEPT !.cursor = 0])
End == Key([buf EXCEPT !.cursor = buf.text])

LineEnds(how) ==
  /\ reader = "reading" /\ (how = "eof" => buf.text = 0)
  /\ reader' = how
  /\ UNCHANGED <<posix, box, live, status, buf, phase, stream, todo, prints, lines, paper, clean, stale>>

(* The line is blank, a command that prints, asks or opens the picker, or a *)
(* prompt: the user's message is echoed and a turn begins.                 *)
Does(kind) ==
  CASE kind = "command" -> SinkPrint(1, TRUE)
    [] kind = "ask"     -> Ask(1)
    [] kind = "pick"    -> <<Before, Op("put", 1, TRUE), Op("menu", 0, FALSE), After>>
    [] kind = "prompt"  -> SinkPrint(0, TRUE) \o SinkPrint(Width, TRUE) \o SinkPrint(0, TRUE)
    [] OTHER            -> <<>>

Submitted(kind) ==
  /\ reader = "line" /\ todo = <<>> /\ prints < MaxPrints
  /\ buf.text = 0 => kind = "empty"
  /\ phase = "turn" => kind \in {"empty", "command"}
  /\ reader' = "off" /\ lines' = lines + 1 /\ live' = Empty /\ stale' = (kind = "empty" /\ buf.text > 0)
  /\ todo' = Does(kind)
  /\ phase' = IF kind = "prompt" THEN "turn" ELSE phase
  /\ status' = IF kind = "prompt" THEN "thinking" ELSE status
  /\ UNCHANGED <<posix, box, buf, stream, prints, paper, clean>>

(* Ctrl+C: _read_live_line returns before it takes the text off the box.   *)
Interrupted ==
  /\ reader = "interrupt" /\ todo = <<>>
  /\ reader' = "off" /\ lines' = lines + 1 /\ stale' = TRUE /\ todo' = SinkPrint(1, TRUE)
  /\ UNCHANGED <<posix, box, live, status, buf, phase, stream, prints, paper, clean>>

EndOfFile ==
  /\ reader = "eof" /\ todo = <<>> /\ phase \in {"idle", "turn"}
  /\ reader' = "off" /\ phase' = IF phase = "turn" THEN "closing" ELSE "leaving"
  /\ UNCHANGED <<posix, box, live, status, buf, stream, todo, prints, lines, paper, clean, stale>>

EndTurn ==
  /\ phase \in {"turn", "closing"} /\ todo = <<>> /\ stream = Closed
  /\ status' = "ready" /\ todo' = SinkPrint(0, TRUE)
  /\ phase' = IF phase = "turn" THEN "idle" ELSE "leaving"
  /\ UNCHANGED <<posix, box, live, buf, reader, stream, prints, lines, paper, clean, stale>>

FinalizeLiveBox ==
  LET lastRow == RowAfter(2 + live.text) + box.footerRows
  IN  /\ phase = "leaving" /\ todo = <<>> /\ phase' = "over"
      /\ box' = IF ~box.shown THEN box
                ELSE [box EXCEPT !.screen = CrLf(Down(@, lastRow - box.cursorRow)), !.shown = FALSE]
      /\ UNCHANGED <<posix, live, status, buf, reader, stream, todo, prints, lines, paper, clean, stale>>

Next ==
  \/ Begin \/ BoxBeforeOutput \/ BoxAfterOutput \/ Put \/ HandleEvent
  \/ \E n \in 0..1, eof \in BOOLEAN : Input(n, eof)
  \/ \E index \in 1..MenuRows : Highlight(index)
  \/ EndMenu \/ ReadLiveLine \/ TypeKey \/ Backspace \/ Home \/ End
  \/ \E how \in {"line", "interrupt", "eof"} : LineEnds(how)
  \/ \E kind \in LineKinds : Submitted(kind)
  \/ Interrupted \/ EndOfFile \/ EndTurn \/ FinalizeLiveBox

Spec == Init /\ [][Next]_boxVars

-----------------------------------------------------------------------------
(***************************************************************************)
(* Properties                                                              *)
(***************************************************************************)

TypeOK ==
  /\ posix \in BOOLEAN /\ clean \in BOOLEAN /\ stale \in BOOLEAN
  /\ status \in {"ready", "thinking", "running"}
  /\ reader \in {"off", "reading", "line", "interrupt", "eof"}
  /\ phase \in {"start", "idle", "turn", "closing", "leaving", "over"}
  /\ live.cursor \in 0..live.text /\ buf.cursor \in 0..buf.text
  /\ box.screen.row \in DOMAIN box.screen.rows /\ box.screen.col \in 1..Width + 1

(* What the box's rows must be: the transcript, then the box, once, with   *)
(* the cursor on the row of the character it stands at.                    *)
BoxFits ==
  \E st \in {"ready", "thinking", "running"} :
    /\ box.screen.rows = WithFooter(Write(paper, Prompt \o Cells(box.drawn.text, -2)), st).rows
    /\ LET at == Write(paper, Prompt \o Cells(box.drawn.cursor, -2))
       IN  box.screen.row = at.row /\ box.screen.col = Smallest(at.col, Width)

(* _render_live_box, _erase_live_box: as long as no print met the box and  *)
(* no line was unfinished, the box stands once below the transcript, an    *)
(* erase leaves the transcript as if there had never been a box, and at    *)
(* the end the shell's prompt comes below it.  It shows what the reader    *)
(* has, but after a line that was given up by Ctrl+C or was blank.         *)
BoxLeavesNoTrace ==
  /\ TypeOK
  /\ clean /\ box.shown => BoxFits
  /\ clean /\ ~box.shown /\ phase # "over" => box.screen = paper
  /\ clean /\ ~stale /\ phase = "over" =>
       box.screen.row = Len(box.screen.rows) /\ Last(box.screen.rows) = <<>> /\ box.screen.col = 1
  /\ reader = "reading" /\ ~stale /\ box.shown => box.drawn = buf

(* FooterAwareOutputSink, "visible for the whole turn": the box and the    *)
(* output "never end up interleaved or duplicated on the screen", so what  *)
(* was printed stays on it.                                                *)
CellsOf(s, n) == FoldLeft(LAMBDA k, row : k + Len(SelectSeq(row, LAMBDA x : x = n)), 0, s.rows)
OutputStays == \A n \in 1..prints : CellsOf(box.screen, n) = CellsOf(paper, n)
=============================================================================
