---------------------------- MODULE SessionFiles ----------------------------
(***************************************************************************)
(* SessionManager and RuntimeSessionStore: one JSONL file per session, a   *)
(* header and then one line per entry, that several processes create, list,*)
(* append to, fork and delete with no lock.  A process that dies leaves    *)
(* the line it was writing without its end, and the next append joins it.  *)
(***************************************************************************)
EXTENDS Integers, Sequences, FiniteSets, SequencesExt

CONSTANTS
  Writers,     \* processes
  SessionIds,
  GroupOf,     \* of a session id: the prefix it shares with others
  MaxEntries,  \* bound: entries made by the writers
  MaxCuts      \* bound: writes cut by a crash, and deletions

SessionFilesAssumption ==
  /\ "none" \notin Writers \cup SessionIds
  /\ DOMAIN GroupOf = SessionIds /\ MaxEntries \in Nat /\ MaxCuts \in Nat

VARIABLES
  present,  \* sessions whose file exists
  used,     \* session ids taken so far: uuid4 never gives one twice
  text,     \* of a session: the lines of its file
  active,   \* of a writer: the session it appends to, or "none"
  next,     \* of a writer: sequence number of its next entry
  copy,     \* of a writer: the fork it is making
  made,     \* entries made so far
  cuts,     \* writes cut, and deletions, so far
  log,      \* history, of a session: the entries appended to it
  hurt,     \* history, of a session: entries that cuts and deletions may cost
  snapshot, \* history, of a session: what its fork or branch was to copy
  authors   \* history, of a session: whose entries it has

fileVars == <<present, used, text, active, next, copy, made, cuts, log, hurt, snapshot, authors>>

NoCopy == [from |-> "none", to |-> "none", left |-> <<>>]
Header(time) == [kind |-> "session_info", seq |-> time, n |-> 0, end |-> TRUE]
Entry(kind, seq, n) == [kind |-> kind, seq |-> seq, n |-> n, end |-> TRUE]
Broken(end) == [kind |-> "broken", seq |-> 0, n |-> 0, end |-> end]
Cut(line) == [line EXCEPT !.end = FALSE]

Init ==
  /\ present = {} /\ used = {} /\ text = [s \in SessionIds |-> <<>>]
  /\ active = [w \in Writers |-> "none"] /\ next = [w \in Writers |-> 0]
  /\ copy = [w \in Writers |-> NoCopy] /\ made = 0 /\ cuts = 0
  /\ log = [s \in SessionIds |-> <<>>] /\ hurt = [s \in SessionIds |-> 0]
  /\ snapshot = [s \in SessionIds |-> <<>>] /\ authors = [s \in SessionIds |-> {}]

-----------------------------------------------------------------------------
(* Reading.                                                                *)

(* open_session: "raises" when the header is no JSON.                      *)
Opened(s) ==
  IF s \notin present \/ text[s] = <<>> THEN "none"
  ELSE IF text[s][1].kind = "broken" THEN "raises"
  ELSE IF text[s][1].kind # "session_info" THEN "none" ELSE "open"

(* list_sessions: one file that raises is enough.                          *)
Listed == {s \in SessionIds : Opened(s) = "open"}
ListRaises == \E s \in SessionIds : Opened(s) = "raises"

(* get_entries skips the first line and every line that does not parse.    *)
GetEntries(s) ==
  IF s \notin present \/ text[s] = <<>> THEN <<>>
  ELSE SelectSeq(Tail(text[s]), LAMBDA e : e.kind # "broken")

(* resolve_session_ref: the id itself, or the prefix of one session.       *)
Resolved(ref) ==
  IF ref \in SessionIds THEN IF Opened(ref) = "open" THEN {ref} ELSE {}
  ELSE LET matches == {s \in Listed : GroupOf[s] = ref}
       IN  IF Cardinality(matches) = 1 THEN matches ELSE {}

(* continue_recent: updated_at is written by create_session only.          *)
Recent == {s \in Listed : \A t \in Listed : text[t][1].seq <= text[s][1].seq}

\* Mutant: the first state that the loop meets is returned.
LoadFirstState(s) ==
  LET states == SelectSeq(GetEntries(s), LAMBDA e : e.kind = "runtime_state")
  IN  {states[i].n : i \in DOMAIN states \cap {1}}

(* load_latest_state: the first of the largest sequence number.            *)
LoadLatestState(s) ==
  LET states == SelectSeq(GetEntries(s), LAMBDA e : e.kind = "runtime_state")
      best == {i \in DOMAIN states : \A j \in DOMAIN states :
                 states[j].seq <= states[i].seq /\ (states[j].seq = states[i].seq => i <= j)}
  IN  {states[i].n : i \in best}

-----------------------------------------------------------------------------
(* Writing.                                                                *)

(* What an append makes of a file: a line without its end takes it.        *)
Appended(lines, line) ==
  IF lines # <<>> /\ ~Last(lines).end THEN Append(Front(lines), Broken(line.end))
  ELSE Append(lines, line)

Free(w) == copy[w] = NoCopy

Created(s) ==
  /\ s \notin used
  /\ used' = used \cup {s} /\ present' = present \cup {s}
  /\ text' = [text EXCEPT ![s] = <<Header(Cardinality(used))>>]

CreateSession(w, s) ==
  /\ Free(w) /\ active[w] = "none" /\ Created(s)
  /\ active' = [active EXCEPT ![w] = s] /\ next' = [next EXCEPT ![w] = 0]
  /\ UNCHANGED <<copy, made, cuts, log, hurt, snapshot, authors>>

(* open("a") makes the file anew when it was deleted.                      *)
AppendEntry(w, s, line) ==
  /\ present' = present \cup {s}
  /\ text' = [text EXCEPT ![s] = Appended(@, line)]
  /\ log' = [log EXCEPT ![s] = Append(@, line)]
  /\ authors' = [authors EXCEPT ![s] = @ \cup {w}]

(* _persist_message, save_state.                                           *)
Persist(w, kind) ==
  /\ Free(w) /\ active[w] # "none" /\ made < MaxEntries
  /\ AppendEntry(w, active[w], Entry(kind, next[w], made + 1))
  /\ made' = made + 1 /\ next' = [next EXCEPT ![w] = @ + 1]
  /\ UNCHANGED <<used, active, copy, cuts, hurt, snapshot>>

(* The caller numbers its entries from the largest that it read.           *)
NextSeq(s) ==
  LET seqs == {e.seq : e \in Range(GetEntries(s))}
  IN  IF seqs = {} THEN 0 ELSE Max(seqs) + 1

Activate(w, s) ==
  /\ active' = [active EXCEPT ![w] = s] /\ next' = [next EXCEPT ![w] = NextSeq(s)]
  /\ UNCHANGED <<present, used, text, copy, made, cuts, log, hurt, snapshot, authors>>

Resume(w, ref) ==
  /\ Free(w)
  /\ ref \notin SessionIds => ~ListRaises
  /\ \E s \in Resolved(ref) : s # active[w] /\ Activate(w, s)

ContinueRecent(w) ==
  /\ Free(w) /\ active[w] = "none" /\ ~ListRaises
  /\ \E s \in Recent : Activate(w, s)

DeleteSession(w, s) ==
  /\ Free(w) /\ s \in present /\ cuts < MaxCuts
  /\ cuts' = cuts + 1
  /\ present' = present \ {s}
  /\ text' = [text EXCEPT ![s] = <<>>] /\ log' = [log EXCEPT ![s] = <<>>]
  /\ hurt' = [hurt EXCEPT ![s] = @ + 1]
  /\ UNCHANGED <<used, active, next, copy, made, snapshot, authors>>

\* Mutant: the entry at the branching point is left out.
SelectedBefore(s, last) == SelectSeq(GetEntries(s), LAMBDA e : e.seq < last)

(* branch: the entries up to a sequence number.                            *)
Selected(s, last) == SelectSeq(GetEntries(s), LAMBDA e : e.seq <= last)

(* fork_session, branch: a new file, then the entries one append at a time.*)
StartCopy(w, s, to, last) ==
  LET all == GetEntries(s)
  IN  /\ Free(w) /\ Opened(s) = "open" /\ s # to
      /\ Created(to)
      /\ copy' = [copy EXCEPT ![w] = [from |-> s, to |-> to, left |-> Selected(s, last)]]
      /\ snapshot' = [snapshot EXCEPT ![to] = SelectSeq(all, LAMBDA e : e.seq \in 0..last)]
      /\ authors' = [authors EXCEPT ![to] = authors[s]]
      /\ UNCHANGED <<active, next, made, cuts, log, hurt>>

CopyEntry(w) ==
  /\ copy[w].left # <<>>
  /\ AppendEntry(w, copy[w].to, [Head(copy[w].left) EXCEPT !.end = TRUE])
  /\ copy' = [copy EXCEPT ![w].left = Tail(@)]
  /\ UNCHANGED <<used, active, next, made, cuts, hurt, snapshot>>

EndCopy(w) ==
  /\ copy[w] # NoCopy /\ copy[w].left = <<>>
  /\ copy' = [copy EXCEPT ![w] = NoCopy]
  /\ UNCHANGED <<present, used, text, active, next, made, cuts, log, hurt, snapshot, authors>>

(* The process dies in the write of a line: nothing of it is in the file,  *)
(* a part, or all but its end.                                             *)
Dies(w) ==
  /\ active' = [active EXCEPT ![w] = "none"] /\ next' = [next EXCEPT ![w] = 0]
  /\ copy' = [copy EXCEPT ![w] = NoCopy]
  /\ snapshot' = IF Free(w) THEN snapshot ELSE [snapshot EXCEPT ![copy[w].to] = <<>>]

CutAppend(w, whole) ==
  LET s == IF copy[w].left # <<>> THEN copy[w].to ELSE active[w]
      line == IF copy[w].left # <<>> THEN [Head(copy[w].left) EXCEPT !.end = TRUE]
              ELSE Entry("message", next[w], made + 1)
  IN  /\ s # "none" /\ (Free(w) \/ copy[w].left # <<>>)
      /\ made < MaxEntries /\ cuts < MaxCuts /\ cuts' = cuts + 1
      /\ present' = present \cup {s}
      /\ text' = [text EXCEPT ![s] = Appended(@, IF whole THEN Cut(line) ELSE Broken(FALSE))]
      /\ log' = IF whole THEN [log EXCEPT ![s] = Append(@, line)] ELSE log
      /\ hurt' = [hurt EXCEPT ![s] = @ + 2]
      /\ made' = made + 1
      /\ authors' = [authors EXCEPT ![s] = @ \cup {w}]
      /\ Dies(w)
      /\ UNCHANGED used

CutCreate(w, s, left) ==
  /\ Free(w) /\ active[w] = "none" /\ s \notin used /\ cuts < MaxCuts
  /\ cuts' = cuts + 1
  /\ used' = used \cup {s} /\ present' = present \cup {s}
  /\ text' = [text EXCEPT ![s] = left]
  /\ hurt' = [hurt EXCEPT ![s] = @ + 2]
  /\ Dies(w)
  /\ UNCHANGED <<made, log, authors>>

Exit(w) ==
  /\ active[w] # "none" \/ ~Free(w)
  /\ Dies(w)
  /\ UNCHANGED <<present, used, text, made, cuts, log, hurt, authors>>

Next ==
  \E w \in Writers :
    \/ \E s \in SessionIds : CreateSession(w, s) \/ DeleteSession(w, s)
    \/ \E kind \in {"message", "runtime_state"} : Persist(w, kind)
    \/ \E ref \in SessionIds \cup Range(GroupOf) : Resume(w, ref)
    \/ ContinueRecent(w)
    \/ \E s, to \in SessionIds, last \in {0, MaxEntries} : StartCopy(w, s, to, last)
    \/ CopyEntry(w) \/ EndCopy(w) \/ Exit(w)
    \/ \E whole \in BOOLEAN : CutAppend(w, whole)
    \/ \E s \in SessionIds, left \in {<<>>, <<Broken(FALSE)>>, <<Cut(Header(Cardinality(used)))>>} :
         CutCreate(w, s, left)

Spec == Init /\ [][Next]_fileVars

-----------------------------------------------------------------------------
(***************************************************************************)
(* Properties                                                              *)
(***************************************************************************)

Lines == [kind : {"session_info", "message", "runtime_state", "broken"}, seq : Nat, n : Nat, end : BOOLEAN]

TypeOK ==
  /\ present \subseteq used /\ used \subseteq SessionIds
  /\ \A s \in SessionIds : text[s] \in Seq(Lines)
  /\ active \in [Writers -> SessionIds \cup {"none"}] /\ next \in [Writers -> Nat]
  /\ hurt \in [SessionIds -> Nat]

Numbers(entries) == [i \in DOMAIN entries |-> entries[i].n]

(* append_entry, get_entries: a session reads back as the entries that     *)
(* were appended to it, in their order and nothing else, and what is       *)
(* missing is what a cut write or a deletion damaged: the line itself, the *)
(* next one that joined it, or the one that took the header's place.       *)
(* load_latest_state: a session that one process wrote resumes in the      *)
(* last state that it reads back.                                          *)
EntriesHonest ==
  /\ TypeOK
  /\ \A s \in SessionIds :
       LET got == Numbers(GetEntries(s))
           all == Numbers(log[s])
       IN  /\ got = SelectSeq(all, LAMBDA n : n \in Range(got))
           /\ Len(all) - Len(got) <= hurt[s]
  /\ \A s \in SessionIds : Cardinality(authors[s]) <= 1 =>
       LET states == SelectSeq(GetEntries(s), LAMBDA e : e.kind = "runtime_state")
       IN  LoadLatestState(s) = IF states = <<>> THEN {} ELSE {Last(states).n}

(* fork_session, branch: when they return, the new session has every entry *)
(* that the old one had up to the point, in order, whatever the other      *)
(* processes did to the two files meanwhile, unless a write was cut or the *)
(* file deleted.                                                           *)
ForkWhole ==
  \A s \in used : hurt[s] = 0 /\ (\A w \in Writers : copy[w].to # s) =>
    LET got == Numbers(GetEntries(s))
        wanted == Numbers(snapshot[s])
    IN  SelectSeq(got, LAMBDA n : n \in Range(wanted)) = wanted
=============================================================================
