------------------------------ MODULE Settings ------------------------------
(***************************************************************************)
(* SettingsManager over FileSettingsStorage: the settings of the user and  *)
(* of a project, each a JSON file that several processes load, change and  *)
(* save.  A process keeps what it loaded, marks what it changed, and a     *)
(* save merges the marked settings into the file under a lock file, one    *)
(* step of whose protocol is one step of the model.                        *)
(***************************************************************************)
EXTENDS Integers, Sequences, FiniteSets

CONSTANTS
  Processes,
  MaxCalls,    \* bound: calls that change, reload or trust
  MaxFaults    \* bound: crashes and timeouts

SettingsAssumption ==
  /\ {"none", "free"} \cap Processes = {}
  /\ MaxCalls \in Nat /\ MaxFaults \in Nat

VARIABLES
  stored,   \* content of the file of a scope
  lockFile, \* at the path of a scope's lock file: "none", "free" or who has it locked
  todo,     \* of a process: the with_lock calls it is to make, or is in
  at,       \* of a process: "closed", "idle" or its place in with_lock
  existed,  \* file_exists of with_lock
  current,  \* content read under the lock; Torn also after an exception
  held,     \* _global_settings and _project_settings
  dirty,    \* _modified_fields and _modified_project_fields, by nested key
  failed,   \* scopes with a load error
  merged,   \* _settings
  trusted,  \* _project_trusted
  calls,    \* such calls so far, and the number of the next change
  faults,   \* crashes and timeouts so far
  ideal,    \* history: the files, had every save been one step
  written,  \* history: the changes that a save wrote
  damaged   \* history: scopes where two locks overlapped or a save was cut

lockVars == <<lockFile, todo, at, existed, current>>
memory   == <<held, dirty, failed, merged, trusted>>
vars == <<stored, lockVars, memory, calls, faults, ideal, written, damaged>>

Scopes == {"global", "project"}

(* Two settings of their own and two keys of a nested one; "old" is the    *)
(* name of "provider" in older files.                                      *)
Keys == {"provider", "model", "x", "y"}
Doc == [Keys \cup {"old"} -> Nat]
Empty == [k \in Keys \cup {"old"} |-> 0]

NoFile == <<"absent">>
Blank == <<"blank">>    \* truncated, not written yet
Torn == <<"torn">>      \* a part of the JSON text

(* deep_merge_settings: nested dictionaries merge key by key.              *)
Merge(base, overrides) ==
  [k \in DOMAIN base |-> IF overrides[k] # 0 THEN overrides[k] ELSE base[k]]

(* migrate_settings, for a renamed key.                                    *)
Migrated(doc) ==
  IF doc["old"] # 0 /\ doc["provider"] = 0
  THEN [doc EXCEPT !["provider"] = doc["old"], !["old"] = 0]
  ELSE doc

Parsed(c) == IF c \in {NoFile, Blank} THEN Empty ELSE Migrated(c)

Init ==
  /\ stored = [s \in Scopes |-> IF s = "global" THEN [Empty EXCEPT !["old"] = 1] ELSE NoFile]
  /\ lockFile = [s \in Scopes |-> "none"]
  /\ todo = [p \in Processes |-> <<>>] /\ at = [p \in Processes |-> "closed"]
  /\ existed = [p \in Processes |-> FALSE]
  /\ current = [p \in Processes |-> NoFile]
  /\ held = [p \in Processes |-> [s \in Scopes |-> Empty]]
  /\ dirty = [p \in Processes |-> [s \in Scopes |-> {}]]
  /\ failed = [p \in Processes |-> {}]
  /\ merged = [p \in Processes |-> Empty]
  /\ trusted = [p \in Processes |-> TRUE]
  /\ calls = 1 /\ faults = 0
  /\ ideal = [s \in Scopes |-> Parsed(stored[s])]
  /\ written = {1} /\ damaged = {}

-----------------------------------------------------------------------------
(* with_lock.                                                              *)

Call(op, scope) == [op |-> op, scope |-> scope]
Now(p) == Head(todo[p])
Inside(p, s) == at[p] \in {"entered", "truncated"} /\ Now(p).scope = s

(* The file is looked for before the lock is asked for.                    *)
CheckExists(p) ==
  /\ at[p] = "idle" /\ todo[p] # <<>>
  /\ existed' = [existed EXCEPT ![p] = stored[Now(p).scope] # NoFile]
  /\ at' = [at EXCEPT ![p] = "waiting"]
  /\ UNCHANGED <<stored, lockFile, todo, current, memory, calls, faults, ideal, written, damaged>>

(* FileLock opens the lock file at the path, or creates it, and locks it;  *)
(* then the settings are read.  A process whose lock file was unlinked     *)
(* meanwhile still has the lock of a file that nobody finds.               *)
Enter(p) ==
  LET s == Now(p).scope
      late == Now(p).op = "save" /\ ~existed[p] /\ stored[s] # NoFile
  IN  /\ at[p] = "waiting" /\ lockFile[s] \in {"none", "free"}
      /\ lockFile' = [lockFile EXCEPT ![s] = p]
      /\ current' = [current EXCEPT ![p] = IF existed[p] THEN stored[s] ELSE NoFile]
      /\ at' = [at EXCEPT ![p] = "entered"]
      /\ damaged' = IF late \/ \E q \in Processes : Inside(q, s) THEN damaged \cup {s} ELSE damaged
      /\ UNCHANGED <<stored, todo, existed, memory, calls, faults, ideal, written>>

(* Ten seconds without the lock.                                           *)
TimeOut(p) ==
  /\ at[p] = "waiting" /\ faults < MaxFaults
  /\ current' = [current EXCEPT ![p] = Torn]
  /\ at' = [at EXCEPT ![p] = "released"]
  /\ faults' = faults + 1
  /\ UNCHANGED <<stored, lockFile, todo, existed, memory, calls, ideal, written, damaged>>

Truncate(p) ==
  /\ at[p] = "entered" /\ Now(p).op = "save" /\ current[p] # Torn
  /\ stored' = [stored EXCEPT ![Now(p).scope] = Blank]
  /\ at' = [at EXCEPT ![p] = "truncated"]
  /\ UNCHANGED <<lockFile, todo, existed, current, memory, calls, faults, ideal, written, damaged>>

Unlocked(p) ==
  /\ lockFile' = [lockFile EXCEPT ![Now(p).scope] = IF @ = p THEN "free" ELSE @]
  /\ at' = [at EXCEPT ![p] = "released"]

(* Nothing is written: a load, or the content does not parse.              *)
Release(p) ==
  /\ at[p] = "entered"
  /\ Now(p).op = "save" => current[p] = Torn
  /\ Unlocked(p)
  /\ UNCHANGED <<stored, todo, existed, current, memory, calls, faults, ideal, written, damaged>>

\* Mutant: a nested setting is saved as a whole.
PersistedWhole(doc, mine, changed) ==
  LET fields == IF changed \cap {"x", "y"} = {} THEN changed ELSE changed \cup {"x", "y"}
  IN  [k \in DOMAIN doc |-> IF k \in fields THEN mine[k] ELSE doc[k]]

(* _persist_scoped_settings.transform: what is marked replaces what the    *)
(* file has.                                                               *)
Persisted(doc, mine, changed) ==
  [k \in DOMAIN doc |-> IF k \in changed THEN mine[k] ELSE doc[k]]

Write(p) ==
  LET s == Now(p).scope
  IN  /\ at[p] = "truncated"
      /\ stored' = [stored EXCEPT ![s] = Persisted(Parsed(current[p]), held[p][s], dirty[p][s])]
      /\ ideal' = [ideal EXCEPT ![s] = [k \in DOMAIN Empty |->
                      IF k \in dirty[p][s] THEN held[p][s][k] ELSE ideal[s][k]]]
      /\ written' = written \cup {held[p][s][k] : k \in dirty[p][s]}
      /\ Unlocked(p)
      /\ UNCHANGED <<todo, existed, current, memory, calls, faults, damaged>>

(* What the manager does when with_lock returns or raises.                 *)
Returned(p) ==
  LET s == Now(p).scope
      broken == current[p] = Torn
      loaded == IF ~broken THEN Parsed(current[p])
                ELSE IF Now(p).op = "reload" THEN held[p][s] ELSE Empty
      all == [held[p] EXCEPT ![s] = loaded]
  IN  IF Now(p).op = "save"
      THEN /\ dirty' = [dirty EXCEPT ![p][s] = IF broken THEN @ ELSE {}]
           /\ UNCHANGED <<held, failed, merged, trusted>>
      ELSE /\ held' = [held EXCEPT ![p] = all]
           /\ failed' = [failed EXCEPT ![p] = IF broken THEN @ \cup {s} ELSE @ \ {s}]
           /\ merged' = [merged EXCEPT ![p] = Merge(all["global"], all["project"])]
           /\ UNCHANGED <<dirty, trusted>>

(* The lock file is removed, whosever it is by now.                        *)
Unlink(p) ==
  /\ at[p] = "released"
  /\ lockFile' = [lockFile EXCEPT ![Now(p).scope] = "none"]
  /\ Returned(p)
  /\ todo' = [todo EXCEPT ![p] = Tail(@)]
  /\ at' = [at EXCEPT ![p] = "idle"]
  /\ existed' = [existed EXCEPT ![p] = FALSE]
  /\ current' = [current EXCEPT ![p] = NoFile]
  /\ UNCHANGED <<stored, calls, faults, ideal, written, damaged>>

-----------------------------------------------------------------------------
(* SettingsManager.                                                        *)

Ready(p) == at[p] = "idle" /\ todo[p] = <<>>

(* The getters, each with its default.                                     *)
Effective(p, k, default) == IF merged[p][k] # 0 THEN merged[p][k] ELSE default

Counted == calls < MaxCalls + 1 /\ calls' = calls + 1

Frame == <<stored, lockFile, existed, current, faults, ideal, written, damaged>>

Open(p, trust) ==
  /\ at[p] = "closed"
  /\ at' = [at EXCEPT ![p] = "idle"]
  /\ trusted' = [trusted EXCEPT ![p] = trust]
  /\ todo' = [todo EXCEPT ![p] = IF trust THEN <<Call("load", "global"), Call("load", "project")>>
                                 ELSE <<Call("load", "global")>>]
  /\ UNCHANGED <<Frame, held, dirty, failed, merged, calls>>

(* What is marked is forgotten; a load that fails keeps what was there.    *)
Reload(p) ==
  /\ Ready(p) /\ Counted
  /\ dirty' = [dirty EXCEPT ![p] = [s \in Scopes |-> {}]]
  /\ todo' = [todo EXCEPT ![p] = IF trusted[p] THEN <<Call("reload", "global"), Call("reload", "project")>>
                                 ELSE <<Call("reload", "global")>>]
  /\ UNCHANGED <<Frame, at, held, failed, merged, trusted>>

\* Mutant: distrust leaves the project's settings in effect.
SetProjectTrustedOnly(p) ==
  /\ Ready(p) /\ Counted
  /\ trusted' = [trusted EXCEPT ![p] = ~@]
  /\ UNCHANGED <<Frame, todo, dirty, held, failed, merged, at>>

SetProjectTrusted(p) ==
  /\ Ready(p) /\ Counted
  /\ trusted' = [trusted EXCEPT ![p] = ~@]
  /\ dirty' = [dirty EXCEPT ![p]["project"] = {}]
  /\ IF trusted[p]
     THEN /\ held' = [held EXCEPT ![p]["project"] = Empty]
          /\ failed' = [failed EXCEPT ![p] = @ \ {"project"}]
          /\ merged' = [merged EXCEPT ![p] = held[p]["global"]]
          /\ UNCHANGED todo
     ELSE /\ todo' = [todo EXCEPT ![p] = <<Call("load", "project")>>]
          /\ UNCHANGED <<held, failed, merged>>
  /\ UNCHANGED <<Frame, at>>

(* Change, mark, merge, and save unless the file did not load.             *)
Change(p, s, keys) ==
  LET mine == [held[p] EXCEPT ![s] = [k \in DOMAIN @ |-> IF k \in keys THEN calls + 1 ELSE @[k]]]
  IN  /\ Ready(p) /\ Counted
      /\ held' = [held EXCEPT ![p] = mine]
      /\ dirty' = [dirty EXCEPT ![p][s] = @ \cup keys]
      /\ merged' = [merged EXCEPT ![p] = Merge(mine["global"], mine["project"])]
      /\ todo' = [todo EXCEPT ![p] = IF s \in failed[p] THEN <<>> ELSE <<Call("save", s)>>]
      /\ UNCHANGED <<Frame, at, failed, trusted>>

SetPlain(p) == Change(p, "global", {"model"})

SetModelAndProvider(p) == Change(p, "global", {"provider", "model"})

SetNested(p, k) == Change(p, "global", {k})

(* _update_project_settings: refused without trust.                        *)
SetProject(p) == trusted[p] /\ Change(p, "project", {"model"})

(* A process dies: its lock is free, its lock file stays, and a save is    *)
(* cut before or in the write.                                             *)
Crash(p, content) ==
  LET cut == at[p] = "truncated"
      s == Now(p).scope
  IN  /\ at[p] # "closed" /\ faults < MaxFaults
      /\ ~cut => content = Blank
      /\ stored' = IF cut THEN [stored EXCEPT ![s] = content] ELSE stored
      /\ damaged' = IF cut THEN damaged \cup {s} ELSE damaged
      /\ lockFile' = [t \in Scopes |-> IF lockFile[t] = p THEN "free" ELSE lockFile[t]]
      /\ at' = [at EXCEPT ![p] = "closed"] /\ todo' = [todo EXCEPT ![p] = <<>>]
      /\ existed' = [existed EXCEPT ![p] = FALSE]
      /\ current' = [current EXCEPT ![p] = NoFile]
      /\ held' = [held EXCEPT ![p] = [t \in Scopes |-> Empty]]
      /\ dirty' = [dirty EXCEPT ![p] = [t \in Scopes |-> {}]]
      /\ failed' = [failed EXCEPT ![p] = {}] /\ merged' = [merged EXCEPT ![p] = Empty]
      /\ trusted' = [trusted EXCEPT ![p] = TRUE]
      /\ faults' = faults + 1
      /\ UNCHANGED <<calls, ideal, written>>

Next ==
  \E p \in Processes :
    \/ CheckExists(p) \/ Enter(p) \/ TimeOut(p) \/ Truncate(p) \/ Release(p) \/ Write(p) \/ Unlink(p)
    \/ \E trust \in BOOLEAN : Open(p, trust)
    \/ Reload(p) \/ SetProjectTrusted(p)
    \/ SetPlain(p) \/ SetModelAndProvider(p) \/ SetProject(p)
    \/ \E k \in {"x", "y"} : SetNested(p, k)
    \/ \E content \in {Blank, Torn} : Crash(p, content)

Spec == Init /\ [][Next]_vars

-----------------------------------------------------------------------------
(***************************************************************************)
(* Properties                                                              *)
(***************************************************************************)

TypeOK ==
  /\ \A s \in Scopes : stored[s] \in Doc \/ stored[s] \in {NoFile, Blank, Torn}
  /\ lockFile \in [Scopes -> Processes \cup {"none", "free"}]
  /\ at \in [Processes -> {"closed", "idle", "waiting", "entered", "truncated", "released"}]
  /\ \A p \in Processes : todo[p] \in Seq([op : {"load", "reload", "save"}, scope : Scopes])
  /\ held \in [Processes -> [Scopes -> Doc]] /\ merged \in [Processes -> Doc]
  /\ dirty \in [Processes -> [Scopes -> SUBSET Keys]]
  /\ failed \in [Processes -> SUBSET Scopes] /\ damaged \subseteq Scopes

(* deep_merge_settings, set_project_trusted: what a process has in effect  *)
(* is the project's setting while the project is trusted, else the user's, *)
(* through failed loads, reloads, changes and changes of mind.             *)
TrustDecides ==
  /\ TypeOK
  /\ \A p \in Processes, k \in Keys : Ready(p) =>
       Effective(p, k, 0) = IF trusted[p] /\ held[p]["project"][k] # 0
                            THEN held[p]["project"][k] ELSE held[p]["global"][k]
  /\ \A p \in Processes : Ready(p) /\ ~trusted[p] => dirty[p]["project"] = {}

(* _persist_scoped_settings: a save changes in the file what its process   *)
(* changed and keeps all that others saved, unless the code let two locks  *)
(* overlap, missed a new file, or was cut while it wrote.                  *)
(* _mark_modified, _clear_modified_scope: a change in effect that no save  *)
(* has written is still marked, so that the next save writes it, also      *)
(* after a lock that timed out; only a file that does not load loses it.   *)
SavesMerge ==
  /\ \A s \in Scopes \ damaged : stored[s] \in Doc => Migrated(stored[s]) = ideal[s]
  /\ \A p \in Processes, s \in Scopes, k \in Keys :
       Ready(p) /\ s \notin failed[p] /\ held[p][s][k] \notin written \cup {0} => k \in dirty[p][s]
=============================================================================
