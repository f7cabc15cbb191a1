------------------------------ MODULE ToolBox ------------------------------
(***************************************************************************)
(* The coding tools at work on one file, and the execution backends: an    *)
(* edit is a read and a write with other processes in between; read_file   *)
(* pages through the lines; a backend reports how a command ended.  A text *)
(* is a sequence of letters, line feeds, carriage returns and "lone", a    *)
(* surrogate that UTF-8 cannot encode.                                     *)
(***************************************************************************)
EXTENDS Integers, Sequences, Functions

CONSTANTS
  Texts,     \* contents of files
  Needles,   \* old_string and new_string
  PageSize,  \* limit of read_file
  ExitCodes,
  MaxOps     \* bound: calls of tools, writes of others

Letters == {"a", "b", "lf", "cr", "lone"}

ToolBoxAssumption ==
  /\ Texts \subseteq Seq(Letters) /\ Needles \subseteq Seq(Letters)
  /\ PageSize \in Nat \ {0} /\ MaxOps \in Nat /\ {0, 1} \subseteq ExitCodes /\ ExitCodes \subseteq Int

VARIABLES
  file,     \* kind, and text as it is on disk
  edit,     \* edit_file between its read and its write
  reader,   \* pages read so far: next offset, lines, done
  outcome,  \* the last ToolResult or CommandResult
  ops,
  was,      \* history: the file when the tool began
  meddled   \* history: what another process has written since, <<text>> or <<>>

toolBoxVars == <<file, edit, reader, outcome, ops, was, meddled>>

NoEdit == [at |-> "idle", old |-> <<>>, new |-> <<>>, all |-> FALSE, text |-> <<>>, count |-> 0]
NoOutcome == [op |-> "none", ok |-> TRUE, count |-> 0, code |-> 0, timedOut |-> FALSE, ended |-> "none",
              opened |-> FALSE] \* history: the file was opened to write it
Outcome(op, ok) == [NoOutcome EXCEPT !.op = op, !.ok = ok]
AtStart == [next |-> 0, lines |-> <<>>, done |-> FALSE]

Encodable == {t \in Texts : "lone" \notin Range(t)}

Init ==
  /\ file \in [kind : {"text"}, text : Encodable] \cup [kind : {"absent", "binary"}, text : {<<>>}]
  /\ edit = NoEdit /\ reader = AtStart /\ outcome = NoOutcome /\ ops = 0
  /\ was = file /\ meddled = <<>>

Op == ops < MaxOps /\ ops' = ops + 1

\* A tool is called; the histories start with it.
Begin == edit.at = "idle" /\ Op /\ was' = file /\ meddled' = <<>>

-----------------------------------------------------------------------------
(* Text.                                                                   *)

\* read_text: a carriage return, with or without a line feed, is a line feed.
Translated(s) ==
  LET upto[i \in 0..Len(s)] ==
        IF i = 0 THEN <<>>
        ELSE IF s[i] = "lf" /\ i > 1 /\ s[i - 1] = "cr" THEN upto[i - 1]
        ELSE Append(upto[i - 1], IF s[i] = "cr" THEN "lf" ELSE s[i])
  IN  upto[Len(s)]

StartsAt(s, i, old) ==
  i + Len(old) - 1 <= Len(s) /\ SubSeq(s, i, i + Len(old) - 1) = old

\* Where str.count finds `old': from the left, without overlap.
Found(s, old) ==
  LET upto[i \in 0..Len(s)] ==
        IF i = 0 THEN <<>>
        ELSE LET at == upto[i - 1]
             IN  IF StartsAt(s, i, old) /\ (at = <<>> \/ i >= at[Len(at)] + Len(old))
                 THEN Append(at, i) ELSE at
  IN  IF old = <<>> THEN [i \in 1..(Len(s) + 1) |-> i] ELSE upto[Len(s)]

\* str.replace of the places `at'.
Replaced(s, at, old, new) ==
  LET upto[i \in 0..Len(at)] ==
        IF i = 0 THEN SubSeq(s, 1, at[1] - 1)
        ELSE upto[i - 1] \o new
             \o SubSeq(s, at[i] + Len(old), IF i = Len(at) THEN Len(s) ELSE at[i + 1] - 1)
  IN  upto[Len(at)]

Places(s, old, all) ==
  IF all THEN Found(s, old) ELSE SubSeq(Found(s, old), 1, 1)

\* str.splitlines: the lines, and no empty one after the last line feed.
Lines(s) ==
  LET upto[i \in 0..Len(s)] ==
        IF i = 0 THEN [lines |-> <<>>, last |-> <<>>]
        ELSE LET read == upto[i - 1]
             IN  IF s[i] = "lf" THEN [lines |-> Append(read.lines, read.last), last |-> <<>>]
                 ELSE [read EXCEPT !.last = Append(@, s[i])]
      all == upto[Len(s)]
  IN  IF all.last = <<>> THEN all.lines ELSE Append(all.lines, all.last)

-----------------------------------------------------------------------------
(* edit_file and write_file.                                               *)

\* Mutant: nothing is ambiguous, the first place is taken.
NeverAmbiguous(count, all) == FALSE

Ambiguous(count, all) == count > 1 /\ ~all

Refuse(op) == outcome' = Outcome(op, FALSE) /\ edit' = NoEdit /\ UNCHANGED file

\* What an edit makes of the text it reads.
Edits(old, new, all) ==
  LET text == Translated(file.text)
      count == Len(Found(text, old))
  IN  \/ file.kind # "text" /\ Refuse("edit")
      \/ file.kind = "text" /\ (count = 0 \/ Ambiguous(count, all)) /\ Refuse("edit")
      \/ /\ file.kind = "text" /\ count > 0 /\ ~Ambiguous(count, all)
         /\ edit' = [at |-> "write", old |-> old, new |-> new, all |-> all, count |-> count,
                     text |-> Replaced(text, Places(text, old, all), old, new)]
         /\ UNCHANGED <<file, outcome>>

EditRead ==
  /\ Begin /\ UNCHANGED reader
  /\ \E old, new \in Needles, all \in BOOLEAN : Edits(old, new, all)

\* write_text: the file is truncated when it is opened, before the text is
\* encoded.  It may be that it cannot be opened, or that the disk takes a
\* part of the text and then refuses.
WriteText(op, text, count) ==
  \/ /\ "lone" \notin Range(text) /\ file' = [kind |-> "text", text |-> text]
     /\ outcome' = [Outcome(op, TRUE) EXCEPT !.count = count, !.opened = TRUE]
  \/ /\ \E n \in 0..Len(text) :
          /\ "lone" \in Range(text) => n = 0
          /\ file' = [kind |-> "text", text |-> SubSeq(text, 1, n)]
     /\ outcome' = [Outcome(op, FALSE) EXCEPT !.opened = TRUE]
  \/ outcome' = Outcome(op, FALSE) /\ UNCHANGED file

EditWrite ==
  /\ edit.at = "write" /\ edit' = [edit EXCEPT !.at = "idle"]
  /\ WriteText("edit", edit.text, edit.count)
  /\ reader' = AtStart /\ UNCHANGED <<ops, was, meddled>>

WriteFile ==
  /\ Begin /\ reader' = AtStart
  /\ \E text \in Texts :
        WriteText("write", text, 0) /\ edit' = [NoEdit EXCEPT !.text = text]

\* Another process, a subagent say, writes the file: what the last tool said
\* of it is past.
Meddle(text) ==
  /\ Op /\ file' = [kind |-> "text", text |-> text]
  /\ meddled' = <<text>> /\ reader' = AtStart /\ outcome' = NoOutcome
  /\ UNCHANGED <<edit, was>>

-----------------------------------------------------------------------------
(* read_file, page after page.                                             *)

ReadFile ==
  /\ Begin /\ ~reader.done
  /\ LET lines == Lines(Translated(file.text))
         total == Len(lines)
         end   == IF reader.next + PageSize < total THEN reader.next + PageSize ELSE total
     IN  IF file.kind = "absent" \/ (reader.next > 0 /\ reader.next >= total)
         THEN outcome' = Outcome("read", FALSE) /\ reader' = [reader EXCEPT !.done = TRUE]
         ELSE /\ outcome' = Outcome("read", TRUE)
              /\ reader' = [next  |-> end, done |-> end = total,
                            lines |-> reader.lines \o SubSeq(lines, reader.next + 1, end)]
  /\ edit' = NoEdit /\ UNCHANGED file

-----------------------------------------------------------------------------
(* The backends.  A command exits, is stopped by the timeout, or cannot be *)
(* run; what it says may look like a timeout.                              *)

Command(how, code, says) ==
  [Outcome("run", FALSE) EXCEPT !.ended = how, !.code = code, !.timedOut = says]

\* execute_bash, and LocalExecutionBackend.run of its result.
LocalRun(how, code, says) ==
  IF how = "exits" /\ code = 0 THEN [Command(how, 0, FALSE) EXCEPT !.ok = TRUE]
  ELSE IF how = "timeout" \/ says THEN Command(how, -1, TRUE)
  ELSE IF how = "exits" THEN Command(how, code, FALSE)
  ELSE Command(how, 1, FALSE)

\* _shell_out, for docker and ssh; without the binary nothing is run.
ShellRun(how, code, says) ==
  CASE how = "exits" -> [Command(how, code, FALSE) EXCEPT !.ok = code = 0]
    [] how = "timeout" -> Command(how, -1, TRUE)
    [] how = "missing" -> Command(how, 127, FALSE)
    [] OTHER -> Command(how, 1, FALSE)

RunCommand ==
  /\ Begin
  /\ \/ outcome' \in {LocalRun(how, code, says) :
                         how \in {"exits", "timeout", "raises"}, code \in ExitCodes, says \in BOOLEAN}
     \/ outcome' \in {ShellRun(how, code, says) :
                         how \in {"exits", "timeout", "raises", "missing"}, code \in ExitCodes, says \in BOOLEAN}
  /\ edit' = NoEdit /\ UNCHANGED <<file, reader>>

Next ==
  \/ EditRead \/ EditWrite \/ WriteFile \/ ReadFile \/ RunCommand
  \/ \E text \in Encodable : Meddle(text)

-----------------------------------------------------------------------------
TypeOK ==
  /\ file.kind \in {"text", "absent", "binary"} /\ file.text \in Seq(Letters)
  /\ edit.at \in {"idle", "write"} /\ ops \in 0..MaxOps

\* `made' is `text' with `new' for `old' at the places `at', and the pieces
\* before, between and behind them as they were, moved along.
ReplacedAt(made, text, at, old, new) ==
  LET by == Len(new) - Len(old)
      from(k) == IF k = 0 THEN 1 ELSE at[k] + Len(old)
      to(k)   == IF k = Len(at) THEN Len(text) ELSE at[k + 1] - 1
  IN  /\ Len(made) = Len(text) + Len(at) * by
      /\ \A k \in 1..Len(at) :
            StartsAt(text, at[k], old) /\ StartsAt(made, at[k] + (k - 1) * by, new)
      /\ \A k \in 0..Len(at) :
            StartsAt(made, from(k) + k * by, SubSeq(text, from(k), to(k)))

\* An edit that succeeds leaves the text that it read, as read_text gave it,
\* with the only place of the old string replaced, or all of them, and the
\* rest as it was; whatever others wrote meanwhile is gone.
EditExact ==
  outcome.op = "edit" /\ outcome.ok /\ edit.at = "idle" =>
    LET text == Translated(was.text)
        at   == Found(text, edit.old)
    IN  /\ ReplacedAt(file.text, text, at, edit.old, edit.new)
        /\ outcome.count = Len(at) /\ (~edit.all => Len(at) = 1)

\* A tool that failed before it opened the file left it as it was, or as the
\* other process made it; one that failed later left the start of its text,
\* and nothing of one that cannot be encoded.
FailureKnown ==
  outcome.op \in {"edit", "write"} /\ ~outcome.ok /\ edit.at = "idle" =>
    IF outcome.opened
    THEN /\ file.kind = "text"
         /\ \E n \in 0..Len(edit.text) : file.text = SubSeq(edit.text, 1, n)
         /\ "lone" \in Range(edit.text) => file.text = <<>>
    ELSE file = IF meddled = <<>> THEN was ELSE [kind |-> "text", text |-> meddled[1]]

\* The pages of a file that nobody changes are its lines, each once.
PagesWhole ==
  reader.done /\ file.kind # "absent" => reader.lines = Lines(Translated(file.text))

\* A command is fine if it exited with 0 and not otherwise; one that timed out
\* is said to have, and no failure has the code 0.
RunHonest ==
  outcome.op = "run" =>
    /\ outcome.ok <=> outcome.ended = "exits" /\ outcome.code = 0
    /\ outcome.ended = "timeout" => outcome.timedOut
    /\ outcome.timedOut => ~outcome.ok

ToolsHonest == TypeOK /\ EditExact /\ FailureKnown /\ PagesWhole /\ RunHonest
=============================================================================
