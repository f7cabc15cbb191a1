----------------------------- MODULE SessionTree -----------------------------
(***************************************************************************)
(* The conversation tree of pi_agent_core and its two repositories.  A     *)
(* session is a log of entries; an entry names its parent, so the log is a *)
(* tree, and a compaction or a move of the leaf is an entry like the       *)
(* others.  Handles append to sessions: in memory they share the log, over *)
(* JSONL files each loads a copy of its own, and each has a leaf of its    *)
(* own.  Entries never change and a fork copies them with their ids, so    *)
(* the model keeps them in one sequence, and logs hold numbers.            *)
(***************************************************************************)
EXTENDS Integers, Sequences, FiniteSets

CONSTANTS
  Sessions,   \* session ids
  Handles,    \* open sessions
  MaxAlone,   \* bound: entries that a handle alone appends
  MaxShared,  \* bound: entries that several handles append
  MaxLost     \* bound: sessions deleted or torn

ASSUME SessionTreeAssumption ==
  /\ "none" \notin Sessions \cup Handles
  /\ MaxAlone \in Nat /\ MaxShared \in Nat /\ MaxLost \in Nat

VARIABLES
  backing,  \* "memory" or "jsonl"
  users,    \* the handles of this run
  entries,  \* every entry appended: kind, parent_id, and target_id or
            \* first_kept_entry_id
  log,      \* of a session: numbers of its entries
  status,   \* of a session: "new", "live" or "lost" (deleted, or with a line
            \* that is cut, which no load gets past)
  on,       \* session of a handle
  view,     \* JSONL: the log as the handle's index has it
  leaf,     \* _leaf_id of a handle
  lastBy    \* history: the handle that appended last to a session

handleVars == <<on, view, leaf>>
vars == <<backing, users, entries, log, status, handleVars, lastBy>>

None == 0    \* no entry
RetainedTail == -1  \* a compaction that carries its retained tail

(* "message" stands for every entry that only grows its branch.            *)
Kinds == {"message", "compaction", "leaf"}

Ids(s) == {s[i] : i \in 1..Len(s)}

Init ==
  /\ backing \in {"memory", "jsonl"}
  /\ users \in SUBSET Handles \ {{}}
  /\ entries = <<>>
  /\ log = [s \in Sessions |-> <<>>] /\ status = [s \in Sessions |-> "new"]
  /\ on = [h \in Handles |-> "none"] /\ view = [h \in Handles |-> <<>>]
  /\ leaf = [h \in Handles |-> None]
  /\ lastBy = [s \in Sessions |-> "none"]

-----------------------------------------------------------------------------
(* ArraySessionIndex: what a log says.                                     *)

\* Mutant: a move is not replayed.
ReplayedLeafUnmoved(s) == IF s = <<>> THEN None ELSE s[Len(s)]

ReplayedLeaf(s) ==
  IF s = <<>> THEN None
  ELSE LET e == s[Len(s)] IN IF entries[e].kind = "leaf" THEN entries[e].ref ELSE e

(* read_head finds the leaf.                                               *)
Loads(s) == ReplayedLeaf(s) \in Ids(s) \cup {None}

\* Mutant: the walk ends before the entry that is kept first.
StopsBefore(e, stop) == stop # None /\ entries[e].parent = stop

StopsAt(e, stop) == e = stop

(* read_path_to_root_or_compaction from an entry, looking for the one that *)
(* a compaction kept first; None in front is an entry that is not in the   *)
(* log, for which it raises.                                               *)
Walk(known) ==
  LET walk[e \in known] ==
        [stop \in 0..Len(entries) |->
           LET up == entries[e].parent
               to == IF entries[e].kind = "compaction" THEN entries[e].ref ELSE stop
           IN  IF StopsAt(e, stop) \/ to = RetainedTail \/ up = None THEN <<e>>
               ELSE IF up \in known THEN Append(walk[up][to], e)
               ELSE <<None, e>>]
  IN  walk

Path(known, from) ==
  IF from = None THEN <<>>
  ELSE IF from \in known THEN Walk(known)[from][None]
  ELSE <<None>>

Broken(path) == path # <<>> /\ path[1] = None

(* default_context_entry_transform: the last compaction, what it keeps,    *)
(* and what follows it.                                                    *)
ContextEntries(path) ==
  LET compactions == {i \in 1..Len(path) : entries[path[i]].kind = "compaction"}
      last == CHOOSE i \in compactions : \A j \in compactions : j <= i
      kept == {i \in 1..(last - 1) : path[i] = entries[path[last]].ref}
  IN  IF compactions = {}
      THEN path
      ELSE <<path[last]>>
             \o (IF kept = {} THEN <<>> ELSE SubSeq(path, CHOOSE i \in kept : TRUE, last - 1))
             \o SubSeq(path, last + 1, Len(path))

-----------------------------------------------------------------------------
(* Handles.                                                                *)

Seen(h) == IF backing = "memory" THEN log[on[h]] ELSE view[h]

Branch(h) == Path(Ids(Seen(h)), leaf[h])

Attach(h, s, entriesOf, at) ==
  /\ on' = [on EXCEPT ![h] = s]
  /\ view' = [view EXCEPT ![h] = IF backing = "memory" THEN <<>> ELSE entriesOf]
  /\ leaf' = [leaf EXCEPT ![h] = at]

Create(h, s) ==
  /\ on[h] = "none" /\ status[s] = "new"
  /\ status' = [status EXCEPT ![s] = "live"]
  /\ Attach(h, s, <<>>, None)
  /\ UNCHANGED <<backing, users, entries, log, lastBy>>

Open(h, s) ==
  /\ on[h] = "none"
  /\ status[s] = "live" /\ Loads(log[s])
  /\ Attach(h, s, log[s], ReplayedLeaf(log[s]))
  /\ UNCHANGED <<backing, users, entries, log, status, lastBy>>

Forget(h) ==
  /\ on' = [on EXCEPT ![h] = "none"]
  /\ view' = [view EXCEPT ![h] = <<>>]
  /\ leaf' = [leaf EXCEPT ![h] = None]

(* Handles go on with a session that is lost, each with what it has seen.  *)
Lose(s) ==
  /\ Cardinality({t \in Sessions : status[t] = "lost"}) < MaxLost
  /\ status' = [status EXCEPT ![s] = "lost"]
  /\ log' = IF backing = "memory" THEN log ELSE [log EXCEPT ![s] = <<>>]

Close(h) ==
  /\ on[h] # "none"
  /\ Forget(h)
  /\ lastBy' = [s \in Sessions |-> IF lastBy[s] = h THEN "none" ELSE lastBy[s]]
  /\ UNCHANGED <<backing, users, entries, log, status>>

(* The process of a handle dies while it appends: the next line of the     *)
(* file, whoever writes it, joins what it wrote.                           *)
Crash(h) ==
  /\ backing = "jsonl" /\ on[h] # "none"
  /\ Forget(h)
  /\ Lose(on[h])
  /\ lastBy' = [s \in Sessions |-> IF s = on[h] \/ lastBy[s] = h THEN "none" ELSE lastBy[s]]
  /\ UNCHANGED <<backing, users, entries>>

(* append_entry, then _leaf_id.  The file of a deleted session comes back  *)
(* without its header, and does not load.                                  *)
Add(h, kind, ref) ==
  LET e == Len(entries) + 1
  IN  /\ Len(entries) < IF users = {h} THEN MaxAlone ELSE MaxShared
      /\ entries' = Append(entries, [kind |-> kind, parent |-> leaf[h], ref |-> ref])
      /\ IF backing = "jsonl" /\ status[on[h]] = "lost"
         THEN UNCHANGED <<log, lastBy>>
         ELSE /\ log' = [log EXCEPT ![on[h]] = Append(@, e)]
              /\ lastBy' = [lastBy EXCEPT ![on[h]] = h]
      /\ view' = IF backing = "memory" THEN view ELSE [view EXCEPT ![h] = Append(@, e)]
      /\ leaf' = [leaf EXCEPT ![h] = IF kind = "leaf" THEN ref ELSE e]
      /\ UNCHANGED <<backing, users, status, on>>

(* append_message and the other entries that only grow the branch.         *)
AppendMessage(h) ==
  /\ on[h] # "none"
  /\ Add(h, "message", None)

(* A caller keeps entries of the context that it summarises, a retained    *)
(* tail, or nothing.                                                       *)
Keepable(h) == {None, RetainedTail} \cup Ids(ContextEntries(Branch(h)))

AppendCompaction(h, kept) ==
  /\ on[h] # "none"
  /\ ~Broken(Branch(h)) /\ kept \in Keepable(h)
  /\ Add(h, "compaction", kept)

\* Mutant: the target is not looked up.
TargetsAnywhere(h) == {None} \cup 1..Len(entries)

Targets(h) == {None} \cup Ids(Seen(h))

\* Mutant: a move to a compaction goes to the entry that it keeps first.
MoveToKept(h, target) ==
  /\ on[h] # "none"
  /\ target \in Targets(h)
  /\ LET compacted == target # None /\ entries[target].kind = "compaction"
     IN  Add(h, "leaf", IF compacted THEN entries[target].ref ELSE target)

(* The summary of the branch that is left is the handle's next entry.      *)
MoveTo(h, target) ==
  /\ on[h] # "none"
  /\ target \in Targets(h)
  /\ Add(h, "leaf", target)

-----------------------------------------------------------------------------
(* Repositories.                                                           *)

Delete(s) ==
  /\ status[s] = "live"
  /\ Lose(s)
  /\ lastBy' = [lastBy EXCEPT ![s] = "none"]
  /\ UNCHANGED <<backing, users, entries, handleVars>>

\* Mutant: the path is not turned round.
ForkedBackwards(s, e, before) ==
  LET path == Path(Ids(s), IF before THEN entries[e].parent ELSE e)
  IN  IF e = None THEN s ELSE [i \in 1..Len(path) |-> path[Len(path) + 1 - i]]

(* read_session_entries_for_fork: all of a log, or the path to an entry or *)
(* to the one before it.                                                   *)
Forked(s, e, before) ==
  IF e = None THEN s ELSE Path(Ids(s), IF before THEN entries[e].parent ELSE e)

(* Messages that were read from a file are dictionaries, which have no     *)
(* role: a fork before one of them is always refused.                      *)
Forkable(s, e, before) ==
  /\ status[s] = "live"
  /\ e \in Ids(log[s]) \cup {None}
  /\ before => e # None /\ backing = "memory" /\ entries[e].kind = "message"
  /\ ~Broken(Forked(log[s], e, before))

(* The fork exists also when it cannot be opened.                          *)
Fork(h, s, d, e, before) ==
  LET forked == Forked(log[s], e, before)
  IN  /\ on[h] = "none" /\ status[d] = "new"
      /\ Forkable(s, e, before)
      /\ log' = [log EXCEPT ![d] = forked]
      /\ status' = [status EXCEPT ![d] = "live"]
      /\ IF Loads(forked)
         THEN Attach(h, d, forked, ReplayedLeaf(forked))
         ELSE UNCHANGED <<on, view, leaf>>
      /\ UNCHANGED <<backing, users, entries, lastBy>>

(* Over JSONL a fork is written entry by entry, and may be cut short.      *)
ForkCut(s, d, e, before, n) ==
  /\ backing = "jsonl" /\ status[d] = "new"
  /\ Forkable(s, e, before)
  /\ n < Len(Forked(log[s], e, before))
  /\ log' = [log EXCEPT ![d] = SubSeq(Forked(log[s], e, before), 1, n)]
  /\ status' = [status EXCEPT ![d] = "live"]
  /\ UNCHANGED <<backing, users, entries, handleVars, lastBy>>

Next ==
  \/ \E h \in users :
       \/ \E s \in Sessions : Create(h, s) \/ Open(h, s)
       \/ Close(h)
       \/ Crash(h)
       \/ AppendMessage(h)
       \/ \E kept \in {None, RetainedTail} \cup 1..Len(entries) : AppendCompaction(h, kept)
       \/ \E target \in 0..Len(entries) : MoveTo(h, target)
  \/ \E s \in Sessions : Delete(s)
  \/ \E s, d \in Sessions, e \in 0..Len(entries), before \in BOOLEAN :
       \/ \E h \in users : Fork(h, s, d, e, before)
       \/ \E n \in 0..Len(entries) : ForkCut(s, d, e, before, n)

Spec == Init /\ [][Next]_vars

-----------------------------------------------------------------------------
(***************************************************************************)
(* Properties                                                              *)
(***************************************************************************)

TypeOK ==
  /\ backing \in {"memory", "jsonl"}
  /\ users \subseteq Handles
  /\ entries \in Seq([kind : Kinds, parent : Nat, ref : Nat \cup {RetainedTail}])
  /\ log \in [Sessions -> Seq(Nat)]
  /\ status \in [Sessions -> {"new", "live", "lost"}]
  /\ on \in [Handles -> Sessions \cup {"none"}]
  /\ view \in [Handles -> Seq(Nat)]
  /\ leaf \in [Handles -> Nat]
  /\ lastBy \in [Sessions -> Handles \cup {"none"}]

(* The entries from the root to an entry, in whichever sessions they are.  *)
Lineages ==
  LET up[e \in 0..Len(entries)] == IF e = None THEN {} ELSE up[entries[e].parent] \cup {e}
  IN  up

Lineage(from) == Lineages[from]

(* What is shown of the branch to an entry: all of it, or what follows the *)
(* entry that the last compaction kept first, or follows the compaction.   *)
Cuts(from) == {e \in Lineage(from) : entries[e].kind = "compaction"}

Cut(from) == CHOOSE e \in Cuts(from) : \A f \in Cuts(from) : f <= e

ShownFrom(from) ==
  IF Cuts(from) = {} THEN None
  ELSE IF entries[Cut(from)].ref \in Lineage(from) THEN entries[Cut(from)].ref
  ELSE Cut(from)

Shown(from) == {e \in Lineage(from) : e >= ShownFrom(from)}

(* The context a model is shown is made of the whole branch, although the  *)
(* walk stops early and a fork may have lost the entries behind: the last  *)
(* compaction of the branch first, then all entries since it and, in       *)
(* order, all it promised to keep; through nested compactions, moves,      *)
(* forks of forks and reloads (read_path_to_root_or_compaction,            *)
(* default_context_entry_transform).                                       *)
ContextFaithful ==
  \A h \in Handles : on[h] # "none" /\ ~Broken(Branch(h)) =>
    LET context == ContextEntries(Branch(h))
        cuts    == Cuts(leaf[h])
    IN  /\ Ids(context) = Shown(leaf[h])
        /\ Len(context) = Cardinality(Shown(leaf[h]))
        /\ cuts # {} => context[1] = Cut(leaf[h])
        /\ \A i, j \in (IF cuts = {} THEN 1 ELSE 2)..Len(context) : i < j => context[i] < context[j]

(* A session that is neither deleted nor torn can be opened and its        *)
(* branches read, whoever appended what, but for two things the code lets  *)
(* happen: a fork at a move of the leaf, which loses the target, and a     *)
(* leaf moved, in a fork cut at a compaction, behind that compaction.      *)
OnlyKnownDamage ==
  /\ \A s \in Sessions : status[s] = "live" /\ ~Loads(log[s]) =>
       entries[log[s][Len(log[s])]].kind = "leaf" /\ lastBy[s] = "none"
  /\ \A h \in Handles : on[h] # "none" /\ Broken(Branch(h)) =>
       LET first == Seen(h)[1]
       IN  entries[first].parent # None /\ Branch(h)[2] = first

(* In a log a parent stands before its children; only the first entry of a *)
(* fork may have lost its parent.                                          *)
ParentsEarlier ==
  \A s \in Sessions : status[s] = "live" =>
    \A i \in 2..Len(log[s]) :
      entries[log[s][i]].parent \in {None} \cup Ids(SubSeq(log[s], 1, i - 1))

(* Who opens a session goes on where the handle that wrote last stands.    *)
ResumeWhereLeft ==
  \A s \in Sessions : status[s] = "live" /\ lastBy[s] # "none" =>
    ReplayedLeaf(log[s]) = leaf[lastBy[s]]

(* All of the above.                                                       *)
TreeSound ==
  TypeOK /\ ContextFaithful /\ OnlyKnownDamage /\ ParentsEarlier /\ ResumeWhereLeft
=============================================================================
