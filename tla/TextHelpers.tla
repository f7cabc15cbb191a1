----------------------------- MODULE TextHelpers -----------------------------
(***************************************************************************)
(* word_navigation, kill_ring and undo_stack, and an editor that uses them *)
(* (no caller is in the repository): the kinds of its characters matter,   *)
(* and each character of the text is known by its number.                  *)
(***************************************************************************)
EXTENDS Integers, Sequences, FiniteSets, SequencesExt

CONSTANTS
  TextSize,  \* characters of the text
  MaxEdits   \* bound: kills, yanks and undos

TextHelpersAssumption == TextSize \in Nat /\ MaxEdits \in Nat

VARIABLES
  kind,      \* of a character
  chars,     \* the text
  point,     \* the cursor
  ring,      \* KillRing._ring
  undo,      \* UndoStack._stack
  killing,   \* the last command was a kill
  edits,
  before,    \* history: the text when the kills in a row began
  original   \* history: the text at first

helperVars == <<kind, chars, point, ring, undo, killing, edits, before, original>>

(* A part of a word, white space, other, a CJK character, and the CJK      *)
(* space, which is white space and a word of its own.                      *)
Kinds == {"word", "space", "other", "cjk", "cjk_space"}
White == {"space", "cjk_space"}
K(i) == kind[chars[i]]

Init ==
  /\ kind \in [1..TextSize -> Kinds]
  /\ chars = [i \in 1..TextSize |-> i] /\ point = TextSize
  /\ ring = <<>> /\ undo = <<>> /\ killing = FALSE /\ edits = 0
  /\ before = chars /\ original = chars

-----------------------------------------------------------------------------
(* The segments of segment_text are runs of one kind; a CJK character is   *)
(* one of its own.                                                         *)
SameSegment(i, j) == K(i) = K(j) /\ K(i) \notin {"cjk", "cjk_space"}

FindWordBackward(c) ==
  LET e == Max({0} \cup {i \in 1..c : K(i) \notin White})
  IN  IF e = 0 THEN 0 ELSE Max({0} \cup {i \in 1..(e - 1) : ~SameSegment(i, e)})

FindWordForward(c) ==
  LET n == Len(chars)
      f == Min({n + 1} \cup {i \in (c + 1)..n : K(i) \notin White})
  IN  IF f > n THEN n ELSE Min({n + 1} \cup {i \in (f + 1)..n : ~SameSegment(i, f)}) - 1

\* Mutant: what is killed backwards goes behind.
PushSwapped(text, prepend, accumulate) ==
  IF text = <<>> THEN ring
  ELSE IF accumulate /\ ring # <<>>
       THEN Append(Front(ring), IF prepend THEN Last(ring) \o text ELSE text \o Last(ring))
       ELSE Append(ring, text)

(* KillRing.push.                                                          *)
Push(text, prepend, accumulate) ==
  IF text = <<>> THEN ring
  ELSE IF accumulate /\ ring # <<>>
       THEN Append(Front(ring), IF prepend THEN text \o Last(ring) ELSE Last(ring) \o text)
       ELSE Append(ring, text)

(* KillRing.rotate.                                                        *)
Rotated == IF Len(ring) > 1 THEN <<Last(ring)>> \o Front(ring) ELSE ring

-----------------------------------------------------------------------------
(* The editor.                                                             *)

Edit == edits < MaxEdits /\ edits' = edits + 1 /\ undo' = Append(undo, [chars |-> chars, point |-> point])

Kill(from, to) ==
  /\ Edit
  /\ ring' = Push(SubSeq(chars, from + 1, to), from < point, killing)
  /\ chars' = SubSeq(chars, 1, from) \o SubSeq(chars, to + 1, Len(chars))
  /\ point' = from /\ killing' = TRUE
  /\ before' = IF killing THEN before ELSE chars
  /\ UNCHANGED <<kind, original>>

KillBackward == FindWordBackward(point) < point /\ Kill(FindWordBackward(point), point)
KillForward == FindWordForward(point) > point /\ Kill(point, FindWordForward(point))

Go(to) ==
  /\ to # point /\ point' = to /\ killing' = FALSE
  /\ UNCHANGED <<kind, chars, ring, undo, edits, before, original>>

Yank ==
  /\ ring # <<>> /\ Edit
  /\ chars' = SubSeq(chars, 1, point) \o Last(ring) \o SubSeq(chars, point + 1, Len(chars))
  /\ point' = point + Len(Last(ring)) /\ killing' = FALSE
  /\ UNCHANGED <<kind, ring, before, original>>

Rotate ==
  /\ ring' = Rotated /\ ring' # ring /\ killing' = FALSE
  /\ UNCHANGED <<kind, chars, point, undo, edits, before, original>>

(* UndoStack.pop.                                                          *)
Undo ==
  /\ undo # <<>>
  /\ chars' = Last(undo).chars /\ point' = Last(undo).point /\ undo' = Front(undo)
  /\ killing' = FALSE
  /\ UNCHANGED <<kind, ring, edits, before, original>>

Next ==
  \/ KillBackward \/ KillForward \/ Yank \/ Rotate \/ Undo
  \/ Go(FindWordBackward(point)) \/ Go(FindWordForward(point))

Spec == Init /\ [][Next]_helperVars

-----------------------------------------------------------------------------
(***************************************************************************)
(* Properties                                                              *)
(***************************************************************************)

TypeOK ==
  /\ chars \in Seq(1..TextSize) /\ point \in 0..Len(chars)
  /\ ring \in Seq(Seq(1..TextSize)) /\ \A i \in DOMAIN ring : ring[i] # <<>>

(* find_word_backward, find_word_forward: every move but the last makes    *)
(* progress, never stops inside a word, and a word skipped backwards is    *)
(* skipped as a whole by the move forward.                                 *)
(* KillRing.push: what the kills in a row cut out, whichever way each went,*)
(* is the newest entry, in the order of the text: yanking it undoes them.  *)
(* UndoStack: its bottom is the text before the first edit.                *)
KillsComeBack ==
  /\ TypeOK
  /\ \A c \in 0..Len(chars) :
       LET b == FindWordBackward(c)
           f == FindWordForward(c)
       IN  /\ c > 0 => b < c
           /\ c < Len(chars) => f > c
           /\ b > 0 => ~(K(b) = "word" /\ K(b + 1) = "word")
           /\ \A i \in (b + 1)..c : i > FindWordForward(b) => K(i) \in White
  /\ killing => SubSeq(chars, 1, point) \o Last(ring) \o SubSeq(chars, point + 1, Len(chars)) = before
  /\ undo # <<>> => undo[1].chars = original
=============================================================================
