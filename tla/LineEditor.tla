----------------------------- MODULE LineEditor -----------------------------
(***************************************************************************)
(* raw_input: the line editor and the menu of the terminal, from the bytes *)
(* of the keyboard to the line they return.  A key with an escape sequence *)
(* is two bytes here, the escape and the rest, which is text, "[", when it *)
(* is read without the escape.                                             *)
(***************************************************************************)
EXTENDS Integers, Sequences, FiniteSets, FiniteSetsExt

CONSTANTS
  History,   \* prior lines, oldest first
  MenuSize,  \* the count of select_from_list
  MaxKeys    \* bound: keys pressed

Printable == {"a", " ", "["}

LineEditorAssumption == History \in Seq(Seq(Printable)) /\ MenuSize \in Nat \ {0} /\ MaxKeys \in Nat

VARIABLES
  posix,     \* whether the keys come through sys.stdin
  kernel,    \* bytes that the terminal has for the process
  ahead,     \* characters that sys.stdin has read already
  pressed,   \* keys pressed so far
  mode,      \* "edit", "menu", or how it ended
  line,      \* buf
  cursor,
  anchor,    \* the pinned end of a selection, or NoAnchor
  browsing,  \* history_index + 1, 0 when not browsing
  draft,
  shown,     \* what on_render was told last
  index,     \* the menu's highlighted item, from 0
  own        \* history: the line as it was last edited outside the history

editorVars == <<posix, kernel, ahead, pressed, mode, line, cursor, anchor,
                browsing, draft, shown, index, own>>

reader == <<posix, kernel, ahead, pressed>>

NoAnchor == -1
Plain == {"a", " "} \cup {"enter", "ctrl_c", "ctrl_d", "backspace", "tab", "escape"}
Sequence == {"shift_backspace", "ctrl_backspace", "delete", "shift_left", "shift_right", "ctrl_left",
             "ctrl_right", "left", "right", "home", "end", "backtab", "up", "down"}

Byte(ch) == [ch |-> ch, of |-> ""]
Bytes(key) ==
  IF key \in Sequence THEN <<Byte("escape"), [ch |-> "[", of |-> key]>> ELSE <<Byte(key)>>

Init ==
  /\ posix \in BOOLEAN /\ kernel = <<>> /\ ahead = <<>> /\ pressed = 0
  /\ mode \in {"edit", "menu"} /\ line = <<>> /\ cursor = 0 /\ anchor = NoAnchor
  /\ browsing = 0 /\ draft = <<>> /\ shown = [line |-> <<>>, cursor |-> 0, selected |-> <<>>]
  /\ index \in 0..(MenuSize - 1) /\ own = <<>>
  /\ mode = "edit" => index = 0

Press(key) ==
  /\ pressed < MaxKeys /\ Len(kernel \o ahead) < 3 /\ mode \in {"edit", "menu"}
  /\ pressed' = pressed + 1
  /\ kernel' = kernel \o Bytes(key)
  /\ UNCHANGED <<posix, ahead, mode, line, cursor, anchor, browsing, draft, shown, index, own>>

-----------------------------------------------------------------------------
(* _read_key.                                                              *)

(* The bytes that one read takes from the terminal: the console gives one  *)
(* character, sys.stdin reads all there is and keeps the rest.             *)
Filled == IF ahead # <<>> THEN ahead ELSE IF posix THEN kernel ELSE SubSeq(kernel, 1, 1)
Left == IF ahead # <<>> THEN kernel ELSE IF posix THEN <<>> ELSE Tail(kernel)

(* After an escape, more is read up to a final byte as long as the         *)
(* terminal has something to give, whatever sys.stdin has.                 *)
ReadKey ==
  LET rest == Tail(Filled)
      more == IF Head(Filled).ch # "escape" \/ Left = <<>> THEN <<>>
              ELSE IF posix THEN Append(rest, Head(Left)) ELSE Left
      n == Min({i \in DOMAIN more : more[i].ch \in {"a", "["}} \cup {Len(more)})
      refilled == posix /\ n > Len(rest)
  IN  [key   |-> IF more = <<>> THEN Head(Filled).ch
                 ELSE IF n = 1 /\ more[1].ch = "[" THEN more[1].of
                 ELSE IF n = 1 /\ more[1].ch = "backspace" THEN "ctrl_backspace" ELSE "unknown",
       ahead |-> IF more # <<>> /\ refilled THEN Tail(Left)
                 ELSE IF posix THEN SubSeq(rest, n + 1, Len(rest)) ELSE rest,
       left  |-> IF more = <<>> THEN Left ELSE IF refilled THEN <<>>
                 ELSE IF posix THEN Left ELSE SubSeq(Left, n + 1, Len(Left))]

Got(key) ==
  /\ kernel \o ahead # <<>> /\ ReadKey.key = key
  /\ kernel' = ReadKey.left /\ ahead' = ReadKey.ahead
  /\ UNCHANGED <<posix, pressed>>

-----------------------------------------------------------------------------
(* _edit_loop.                                                             *)

Selection(a, c) == IF a \in {NoAnchor, c} THEN <<>> ELSE IF a < c THEN <<a, c>> ELSE <<c, a>>

(* del buf[lo:hi].                                                         *)
Without(text, lo, hi) == SubSeq(text, 1, lo) \o SubSeq(text, hi + 1, Len(text))

(* _word_left, _word_right: over white space, then over a word.            *)
WordLeft(text, i) ==
  Max({0} \cup {j \in 0..(i - 1) : text[j + 1] # " " /\ (j = 0 \/ text[j] = " ")})

WordRight(text, i) ==
  Min({Len(text)} \cup {j \in (i + 1)..Len(text) : text[j] # " " /\ (j = Len(text) \/ text[j + 1] = " ")})

Editing(key) == mode = "edit" /\ Got(key) /\ UNCHANGED <<mode, index>>

Renders(text, c, selected) == shown' = [line |-> text, cursor |-> c, selected |-> selected]

Ignored == UNCHANGED <<line, cursor, anchor, browsing, draft, shown, own>>

(* An edit that leaves the anchor where it is.                             *)
Edits(text, c, a, selected) ==
  /\ line' = text /\ cursor' = c /\ anchor' = a
  /\ Renders(text, c, selected)
  /\ own' = IF browsing = 0 THEN text ELSE own
  /\ UNCHANGED <<browsing, draft>>

(* _delete_selection, or what the key deletes without a selection.         *)
Deletes(lo, hi) ==
  LET sel == Selection(anchor, cursor)
  IN  IF sel # <<>> THEN Edits(Without(line, sel[1], sel[2]), sel[1], NoAnchor, <<>>)
      ELSE IF lo = hi THEN Ignored
      ELSE Edits(Without(line, lo, hi), lo, anchor, Selection(anchor, lo))

ShiftBackspace == Editing("shift_backspace") /\ Deletes(0, cursor)
CtrlBackspace == Editing("ctrl_backspace") /\ Deletes(WordLeft(line, cursor), cursor)
Backspace == Editing("backspace") /\ Deletes(IF cursor = 0 THEN 0 ELSE cursor - 1, cursor)
Delete == Editing("delete") /\ Deletes(cursor, IF cursor = Len(line) THEN cursor ELSE cursor + 1)

Insert(ch) ==
  LET sel == Selection(anchor, cursor)
      text == IF sel = <<>> THEN line ELSE Without(line, sel[1], sel[2])
      at == IF sel = <<>> THEN cursor ELSE sel[1]
  IN  /\ Editing(ch)
      /\ Edits(SubSeq(text, 1, at) \o <<ch>> \o SubSeq(text, at + 1, Len(text)), at + 1,
               IF sel = <<>> THEN anchor ELSE NoAnchor, <<>>)

ShiftMove(key, c) ==
  /\ Editing(key)
  /\ IF c \notin 0..Len(line) THEN Ignored
     ELSE LET a == IF anchor = NoAnchor THEN cursor ELSE anchor
          IN  /\ anchor' = a /\ cursor' = c /\ Renders(line, c, Selection(a, c))
              /\ UNCHANGED <<line, browsing, draft, own>>

ShiftLeft == ShiftMove("shift_left", cursor - 1)
ShiftRight == ShiftMove("shift_right", cursor + 1)

(* A move without shift drops the anchor; nothing is drawn when the cursor *)
(* stays, unless the key minds the selection.                              *)
Move(key, c, minds) ==
  /\ Editing(key)
  /\ anchor' = NoAnchor /\ cursor' = c
  /\ IF c # cursor \/ (minds /\ anchor # NoAnchor) THEN Renders(line, c, <<>>) ELSE UNCHANGED shown
  /\ UNCHANGED <<line, browsing, draft, own>>

CtrlLeft == Move("ctrl_left", WordLeft(line, cursor), FALSE)
CtrlRight == Move("ctrl_right", WordRight(line, cursor), FALSE)
MoveLeft == Move("left", IF cursor = 0 THEN 0 ELSE cursor - 1, TRUE)
MoveRight == Move("right", IF cursor = Len(line) THEN cursor ELSE cursor + 1, TRUE)
Home == Move("home", 0, TRUE)
End == Move("end", Len(line), TRUE)

(* on_cycle changes the permission mode of the caller.                     *)
Backtab ==
  /\ Editing("backtab")
  /\ Renders(line, cursor, Selection(anchor, cursor))
  /\ UNCHANGED <<line, cursor, anchor, browsing, draft, own>>

Recalls(text) ==
  /\ line' = text /\ cursor' = Len(text) /\ anchor' = NoAnchor
  /\ Renders(text, Len(text), <<>>)
  /\ UNCHANGED own

\* Mutant: every step into the past saves the draft again.
UpSaving ==
  /\ Editing("up")
  /\ IF History = <<>> \/ browsing = 1 THEN Ignored
     ELSE LET to == IF browsing = 0 THEN Len(History) ELSE browsing - 1
          IN  browsing' = to /\ draft' = line /\ Recalls(History[to])

Up ==
  /\ Editing("up")
  /\ IF History = <<>> \/ browsing = 1 THEN Ignored
     ELSE LET to == IF browsing = 0 THEN Len(History) ELSE browsing - 1
          IN  /\ browsing' = to /\ draft' = IF browsing = 0 THEN line ELSE draft
              /\ Recalls(History[to])

Down ==
  /\ Editing("down")
  /\ IF browsing = 0 THEN Ignored
     ELSE /\ browsing' = IF browsing < Len(History) THEN browsing + 1 ELSE 0
          /\ Recalls(IF browsing < Len(History) THEN History[browsing + 1] ELSE draft)
          /\ UNCHANGED draft

Ends(key, as) ==
  /\ mode = "edit" /\ Got(key) /\ mode' = as
  /\ UNCHANGED <<line, cursor, anchor, browsing, draft, shown, index, own>>

Enter == Ends("enter", "returned")
CtrlC == Ends("ctrl_c", "interrupted")
CtrlD == IF line = <<>> THEN Ends("ctrl_d", "eof") ELSE Editing("ctrl_d") /\ Ignored
Swallowed == \E key \in {"tab", "escape", "unknown"} : Editing(key) /\ Ignored

-----------------------------------------------------------------------------
(* _select_loop.                                                           *)

InMenu(key) == mode = "menu" /\ Got(key) /\ UNCHANGED <<line, cursor, anchor, browsing, draft, shown, own>>

MenuUp == InMenu("up") /\ index' = (IF index > 0 THEN index - 1 ELSE 0) /\ UNCHANGED mode
MenuDown == InMenu("down") /\ index' = (IF index < MenuSize - 1 THEN index + 1 ELSE index) /\ UNCHANGED mode
MenuEnter == InMenu("enter") /\ mode' = "picked" /\ UNCHANGED index
MenuCancel == \E key \in {"escape", "ctrl_c", "ctrl_d"} : InMenu(key) /\ mode' = "cancelled" /\ UNCHANGED index
MenuOther == \E key \in (Plain \cup Sequence \cup {"unknown"})
                          \ {"up", "down", "enter", "escape", "ctrl_c", "ctrl_d"} :
               InMenu(key) /\ UNCHANGED <<mode, index>>

(* What the loop does with the key that it has read.                       *)
Handles(key) ==
  \/ key = "shift_backspace" /\ ShiftBackspace
  \/ key = "ctrl_backspace" /\ CtrlBackspace
  \/ key = "backspace" /\ Backspace
  \/ key = "delete" /\ Delete
  \/ key = "shift_left" /\ ShiftLeft
  \/ key = "shift_right" /\ ShiftRight
  \/ key = "ctrl_left" /\ CtrlLeft
  \/ key = "ctrl_right" /\ CtrlRight
  \/ key = "left" /\ MoveLeft
  \/ key = "right" /\ MoveRight
  \/ key = "home" /\ Home
  \/ key = "end" /\ End
  \/ key = "backtab" /\ Backtab
  \/ key = "up" /\ Up
  \/ key = "down" /\ Down
  \/ key = "enter" /\ Enter
  \/ key = "ctrl_c" /\ CtrlC
  \/ key = "ctrl_d" /\ CtrlD
  \/ key \in {"tab", "escape", "unknown"} /\ Swallowed
  \/ \E ch \in Printable : key = ch /\ Insert(ch)

Next ==
  \/ \E key \in Plain \cup Sequence : Press(key)
  \/ mode = "edit" /\ kernel \o ahead # <<>> /\ \E key \in {ReadKey.key} : Handles(key)
  \/ MenuUp \/ MenuDown \/ MenuEnter \/ MenuCancel \/ MenuOther

Spec == Init /\ [][Next]_editorVars
-----------------------------------------------------------------------------
(***************************************************************************)
(* Properties                                                              *)
(***************************************************************************)

TypeOK ==
  /\ line \in Seq(Printable) /\ draft \in Seq(Printable) /\ own \in Seq(Printable)
  /\ cursor \in 0..Len(line) /\ browsing \in 0..Len(History) /\ index \in 0..(MenuSize - 1)
  /\ mode \in {"edit", "menu", "returned", "interrupted", "eof", "picked", "cancelled"}

(* _edit_loop: whatever keys are pressed, and however their bytes are cut, *)
(* the line that Enter returns is the one that was drawn last, with the    *)
(* cursor where it is, and outside the history the line is the user's own  *)
(* as it was before Up.                                                    *)
LineIsShown ==
  /\ TypeOK
  /\ shown.line = line /\ shown.cursor = cursor
  /\ browsing = 0 => line = own
=============================================================================
