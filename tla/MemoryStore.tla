---------------------------- MODULE MemoryStore -----------------------------
(***************************************************************************)
(* MemoryStore, its tools and /soul: the memories, their vectors and the   *)
(* type "soul", in one SQLite connection that two threads use: the worker  *)
(* that runs the remember tool, which an interrupted turn leaves behind,   *)
(* and the event loop, which runs the /soul commands.  A statement is one  *)
(* step, and both threads are in the one transaction of the connection.    *)
(***************************************************************************)
EXTENDS Integers, Sequences, FiniteSets

CONSTANTS
  MaxIds,      \* bound: memories
  MaxTexts,    \* bound: texts written
  MaxRestarts, \* bound: ends of the process
  Interactive  \* create_memory_tools(interactive)

MemoryAssumption ==
  /\ MaxIds \in Nat /\ MaxTexts \in Nat /\ MaxRestarts \in Nat /\ Interactive \in BOOLEAN
  /\ MaxIds >= 2 /\ MaxTexts >= 2  \* a database may have two memories at first

VARIABLES
  disk,       \* the tables, as committed
  work,       \* the tables in the open transaction, or NoWork
  backup,     \* the file that the migration copied
  script,     \* of a thread: the calls it is to make, or is in
  phase,      \* of a thread: "idle" or its place in a call
  rebuilt,    \* memories_new
  soulKnown,  \* _soul_supported
  vecEnabled, \* _vec_enabled
  texts,      \* texts written so far
  restarts,
  kept,       \* history: the memories, had every call been one step
  owner,      \* history, of a text: the memory that it was written to
  raced       \* history: a call of the other thread met the migration

memVars == <<disk, work, backup, script, phase, rebuilt, soulKnown, vecEnabled, texts, restarts,
             kept, owner, raced>>

Threads == {"tool", "main"}
Ids == 1..MaxIds
Types == {"decision", "soul"}
Memory == [type : Types, text : 1..MaxTexts, cwd : {"any", "here", "there"}]
NoMemory == [type |-> "none", text |-> 0, cwd |-> "any"]
NoWork == [next |-> 0]
Current == IF work = NoWork THEN disk ELSE work
Stored(tables) == {i \in Ids : tables.mem[i] # NoMemory}
Other(t) == CHOOSE u \in Threads : u # t
Now(t) == Head(script[t])
Quiet == work = NoWork /\ \A t \in Threads : phase[t] = "idle" /\ script[t] = <<>>

(* A database from before "soul" with one memory, or a newer one with two. *)
Init ==
  /\ \E souls \in {0, 2} :
       disk = [next |-> IF souls = 0 THEN 2 ELSE 3, soul |-> souls # 0, vec |-> [i \in Ids |-> 0],
               mem |-> [i \in Ids |->
                 IF i <= souls THEN [type |-> "soul", text |-> i, cwd |-> "any"]
                 ELSE IF i = 1 THEN [type |-> "decision", text |-> 1, cwd |-> "any"] ELSE NoMemory]]
  /\ work = NoWork /\ backup = disk /\ rebuilt = disk.mem
  /\ script = [t \in Threads |-> <<>>] /\ phase = [t \in Threads |-> "idle"]
  /\ soulKnown = FALSE /\ vecEnabled \in BOOLEAN
  /\ texts = 2 /\ restarts = 0
  /\ kept = disk.mem /\ owner = [n \in 1..MaxTexts |-> IF n <= 2 THEN n ELSE 0]
  /\ raced = FALSE

-----------------------------------------------------------------------------
(* write, update and delete, statement by statement.                       *)

Goes(t, to) == phase' = [phase EXCEPT ![t] = to]
Ends(t) == Goes(t, "idle") /\ script' = [script EXCEPT ![t] = Tail(@)]
Fails(t) == Goes(t, "idle") /\ script' = [script EXCEPT ![t] = <<>>]

Migrating(t) == phase[t] \in {"saved", "backed", "rebuilding", "swapped"}

StartCall(t) ==
  /\ phase[t] = "idle" /\ script[t] # <<>>
  /\ Goes(t, IF Now(t).op # "write" THEN "check" ELSE IF Now(t).type = "soul" THEN "ensure" ELSE "row")
  /\ raced' = (raced \/ Migrating(Other(t)))
  /\ UNCHANGED <<disk, work, backup, script, rebuilt, soulKnown, vecEnabled, texts, restarts, kept, owner>>

(* _ensure_soul_type_supported: the migration first commits.               *)
Ensure(t) ==
  /\ phase[t] = "ensure"
  /\ IF soulKnown \/ Current.soul
     THEN Goes(t, "row") /\ soulKnown' = TRUE /\ UNCHANGED <<disk, work, raced>>
     ELSE /\ disk' = Current /\ work' = NoWork /\ Goes(t, "saved")
          /\ raced' = (raced \/ phase[Other(t)] # "idle")
          /\ UNCHANGED soulKnown
  /\ UNCHANGED <<backup, script, rebuilt, vecEnabled, texts, restarts, kept, owner>>

CopyFile(t) ==
  /\ phase[t] = "saved"
  /\ backup' = disk /\ Goes(t, "backed")
  /\ UNCHANGED <<disk, work, script, rebuilt, soulKnown, vecEnabled, texts, restarts, kept, owner, raced>>

(* BEGIN IMMEDIATE raises in a transaction, which is rolled back, and the  *)
(* file is copied back.                                                    *)
BeginMigration(t) ==
  /\ phase[t] = "backed"
  /\ IF work = NoWork
     THEN work' = disk /\ rebuilt' = disk.mem /\ Goes(t, "rebuilding") /\ UNCHANGED <<disk, script>>
     ELSE work' = NoWork /\ disk' = backup /\ Fails(t) /\ UNCHANGED rebuilt
  /\ UNCHANGED <<backup, soulKnown, vecEnabled, texts, restarts, kept, owner, raced>>

(* DROP TABLE and RENAME, in a transaction or, when the other thread ended *)
(* it, without; then the validation.                                       *)
Swap(t) ==
  LET tables == [Current EXCEPT !.mem = rebuilt, !.soul = TRUE]
  IN  /\ phase[t] = "rebuilding"
      /\ IF work = NoWork THEN disk' = tables /\ UNCHANGED work ELSE work' = tables /\ UNCHANGED disk
      /\ Goes(t, "swapped")
      /\ UNCHANGED <<backup, script, rebuilt, soulKnown, vecEnabled, texts, restarts, kept, owner, raced>>

EndMigration(t) ==
  /\ phase[t] = "swapped"
  /\ IF work = NoWork THEN Fails(t) /\ UNCHANGED <<disk, work, soulKnown>>
     ELSE disk' = work /\ work' = NoWork /\ soulKnown' = TRUE /\ Goes(t, "row") /\ UNCHANGED script
  /\ UNCHANGED <<backup, rebuilt, vecEnabled, texts, restarts, kept, owner, raced>>

(* update and delete of a memory that is not there return at once.         *)
Check(t) ==
  /\ phase[t] = "check"
  /\ IF Now(t).id \in Stored(Current) THEN Goes(t, "row") /\ UNCHANGED script ELSE Ends(t)
  /\ UNCHANGED <<disk, work, backup, rebuilt, soulKnown, vecEnabled, texts, restarts, kept, owner, raced>>

(* The row; FTS5 follows by its triggers.                                  *)
Row(t) ==
  LET call == Now(t)
      id == IF call.op = "write" THEN Current.next ELSE call.id
      gone == id \notin Stored(Current)
      new == CASE call.op = "delete" -> NoMemory
               [] call.op = "write" -> [type |-> call.type, text |-> call.text, cwd |-> call.cwd]
               [] OTHER -> IF gone THEN NoMemory ELSE [Current.mem[id] EXCEPT !.text = call.text]
  IN  /\ phase[t] = "row" /\ id \in Ids
      /\ work' = [Current EXCEPT !.mem[id] = new, !.next = IF call.op = "write" THEN @ + 1 ELSE @]
      /\ kept' = [kept EXCEPT ![id] = new]
      /\ owner' = IF call.op = "delete" THEN owner ELSE [owner EXCEPT ![call.text] = id]
      /\ script' = [script EXCEPT ![t][1].id = id]
      /\ Goes(t, "vector")
      /\ UNCHANGED <<disk, backup, rebuilt, soulKnown, vecEnabled, texts, restarts, raced>>

\* Mutant: the vector of the memory that was written last.
EmbedLast(t, available) ==
  LET call == Now(t)
      id == Current.next - 1
  IN  /\ phase[t] = "vector"
      /\ work' = IF call.op # "delete" /\ vecEnabled /\ available
                 THEN [Current EXCEPT !.vec[id] = call.text] ELSE work
      /\ Goes(t, "commit")
      /\ UNCHANGED <<disk, backup, script, rebuilt, soulKnown, vecEnabled, texts, restarts, kept, owner, raced>>

(* The vector, when sqlite-vec and the model are there; what fails is      *)
(* passed over, and an old vector then stays.                              *)
Embed(t, available) ==
  LET call == Now(t)
      does == vecEnabled /\ (call.op = "delete" \/ available)
      taken == call.op = "write" /\ Current.vec[call.id] # 0
  IN  /\ phase[t] = "vector"
      /\ work' = IF ~does \/ taken THEN work
                 ELSE [Current EXCEPT !.vec[call.id] = IF call.op = "delete" THEN 0 ELSE call.text]
      /\ Goes(t, "commit")
      /\ UNCHANGED <<disk, backup, script, rebuilt, soulKnown, vecEnabled, texts, restarts, kept, owner, raced>>

Commit(t) ==
  /\ phase[t] = "commit"
  /\ disk' = Current /\ work' = NoWork
  /\ Ends(t)
  /\ UNCHANGED <<backup, rebuilt, soulKnown, vecEnabled, texts, restarts, kept, owner, raced>>

-----------------------------------------------------------------------------
(* The callers.                                                            *)

Call(op, type, id, cwd) ==
  [op |-> op, type |-> type, id |-> id, cwd |-> cwd, text |-> texts + 1]

Calls(t, calls) ==
  /\ phase[t] = "idle" /\ script[t] = <<>>
  /\ texts < MaxTexts /\ Current.next <= MaxIds
  /\ script' = [script EXCEPT ![t] = calls]
  /\ texts' = texts + 1
  /\ UNCHANGED <<disk, work, backup, phase, rebuilt, soulKnown, vecEnabled, restarts, kept, owner, raced>>

(* find_similar: the memory of the nearest vector, if it is near.          *)
FindSimilar == IF vecEnabled THEN {i \in Stored(Current) : Current.vec[i] # 0} ELSE {}

(* The remember tool: soul needs somebody to ask, a merge goes to whatever *)
(* memory its id names, a likely duplicate is reported and not saved.      *)
Remember(type) ==
  /\ type = "soul" => Interactive
  /\ Calls("tool", <<Call("write", type, 0, "any")>>)

RememberMerge(type, id) ==
  /\ type = "soul" => Interactive
  /\ Calls("tool", <<Call("update", type, id, "any")>>)

(* write_with_policy: confident enough, and no duplicate in its project.   *)
WriteWithPolicy(cwd, duplicate) ==
  /\ duplicate = 0 \/ (duplicate \in FindSimilar /\ Current.mem[duplicate].cwd \notin {"any", cwd})
  /\ Calls("tool", <<Call("write", "decision", 0, cwd)>>)

Souls == {i \in Stored(Current) : Current.mem[i].type = "soul"}

(* /soul add, also after an overlap: keep both, or replace or merge.       *)
SoulAdd == Calls("main", <<Call("write", "soul", 0, "any")>>)
SoulReplace(id) == id \in Souls /\ Calls("main", <<Call("update", "soul", id, "any")>>)

(* /soul edit and remove name any memory.                                  *)
SoulEdit(id) == Calls("main", <<Call("update", "soul", id, "any")>>)
SoulRemove(id) == Calls("main", <<Call("delete", "soul", id, "any")>>)

NewestFirst(ids) ==
  [k \in 1..Cardinality(ids) |-> CHOOSE i \in ids : Cardinality({j \in ids : j > i}) = k - 1]

SoulClear ==
  /\ Souls # {}
  /\ Calls("main", [i \in 1..Cardinality(Souls) |-> Call("delete", "soul", NewestFirst(Souls)[i], "any")])

(* /soul audit: a pair is merged into one and the other deleted.           *)
SoulAudit(first, other) ==
  /\ {first, other} \subseteq Souls /\ first # other
  /\ Calls("main", <<Call("update", "soul", first, "any"), Call("delete", "soul", other, "any")>>)

(* The end of the process; the next one may find sqlite-vec or not.        *)
Restart(vec) ==
  /\ restarts < MaxRestarts /\ restarts' = restarts + 1
  /\ work' = NoWork /\ kept' = disk.mem
  /\ script' = [t \in Threads |-> <<>>] /\ phase' = [t \in Threads |-> "idle"]
  /\ soulKnown' = FALSE /\ vecEnabled' = vec
  /\ UNCHANGED <<disk, backup, rebuilt, texts, owner, raced>>

Next ==
  \/ \E t \in Threads :
       \/ StartCall(t) \/ Ensure(t) \/ CopyFile(t) \/ BeginMigration(t) \/ Swap(t) \/ EndMigration(t)
       \/ Check(t) \/ Row(t) \/ Commit(t)
       \/ \E available \in BOOLEAN : Embed(t, available)
  \/ \E type \in Types : Remember(type) \/ \E id \in Ids : RememberMerge(type, id)
  \/ \E cwd \in {"here", "there"}, duplicate \in Ids \cup {0} : WriteWithPolicy(cwd, duplicate)
  \/ SoulAdd \/ SoulClear
  \/ \E id \in Ids : SoulReplace(id) \/ SoulEdit(id) \/ SoulRemove(id)
  \/ \E first, other \in Ids : SoulAudit(first, other)
  \/ \E vec \in BOOLEAN : Restart(vec)

Spec == Init /\ [][Next]_memVars

-----------------------------------------------------------------------------
(***************************************************************************)
(* Properties                                                              *)
(***************************************************************************)

Tables == [next : 1..(MaxIds + 1), soul : BOOLEAN, vec : [Ids -> 0..MaxTexts], mem : [Ids -> Memory \cup {NoMemory}]]

TypeOK ==
  /\ disk \in Tables /\ (work = NoWork \/ work \in Tables)
  /\ phase \in [Threads -> {"idle", "ensure", "saved", "backed", "rebuilding", "swapped",
                            "check", "row", "vector", "commit"}]
  /\ \A t \in Threads : phase[t] # "idle" => script[t] # <<>>

(* write, update, delete: whatever the two threads interleave, also with   *)
(* each other's commits, failed embeddings and restarts, the store ends    *)
(* with every change that a call made, and a vector is of a text of its    *)
(* own memory; the migration alone may lose what the other thread does.    *)
MemoriesKept ==
  /\ TypeOK
  /\ Quiet /\ ~raced => disk.mem = kept
  /\ ~raced => \A i \in Ids : Current.vec[i] # 0 => owner[Current.vec[i]] = i
=============================================================================
