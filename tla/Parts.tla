------------------------------- MODULE Parts --------------------------------
(***************************************************************************)
(* Components that share no state, side by side: a behaviour chooses one   *)
(* of them and keeps to it.  What one of them promises is a property of    *)
(* this module, so that a model checker and a proof speak of the same      *)
(* specification; the components that are only model-checked are added     *)
(* beside them by MCParts.                                                 *)
(***************************************************************************)
EXTENDS Integers, Sequences, FiniteSets

CONSTANTS
  Processes, MaxCalls, MaxFaults,                           \* Settings
  Connections, Sessions, MaxAppends, MaxCrashes,            \* SqliteSessions
  MaxIds, MaxTexts, MaxRestarts, Interactive,               \* MemoryStore
  SkillNames, TopK, MaxScore, MaxCandidates, MaxUses,       \* Skills
  Typed, SuggestionsFor, ModelCount, MaxSubmissions, MaxShortcuts, MaxEdit, \* TuiApp
  History, MenuSize, MaxKeys,                               \* LineEditor
  Texts, Needles, PageSize, ExitCodes, MaxOps               \* ToolBox

VARIABLE part  \* the component that this behaviour is about

VARIABLES
  stored, lockFile, todo, at, existed, inEffect, held, dirty, failed, merged,
  trusted, calls, faults, ideal, written, damaged,
  db, tx, pending, stage, target, seq, reserved, appends, crashes, acked,
  disk, work, backup, script, phase, rebuilt, soulKnown, vecEnabled, texts,
  restarts, kept, owner, raced,
  candidates, reviews, history, records, reports, applied, restored,
  inbox, worker, dying, inTurn, future, panel, dialogs, steer, stop, open,
  submitted, shortcuts, edits, fate, prompt, changed, popup,
  posix, kernel, ahead, pressed, editing, buf, cursor,
  anchor, browsing, draft, shown, index, own,
  file, edit, reader, outcome, ops, was, meddled

S == INSTANCE Settings WITH current <- inEffect
Q == INSTANCE SqliteSessions WITH taken <- reserved
E == INSTANCE MemoryStore
K == INSTANCE Skills
U == INSTANCE TuiApp
L == INSTANCE LineEditor WITH mode <- editing, line <- buf
B == INSTANCE ToolBox

ASSUME PartsAssumption ==
  /\ S!SettingsAssumption /\ Q!SqliteAssumption /\ E!MemoryAssumption
  /\ K!SkillsAssumption /\ U!TuiAssumption /\ L!LineEditorAssumption
  /\ B!ToolBoxAssumption

settingsVars ==
  <<stored, lockFile, todo, at, existed, inEffect, held, dirty, failed,
    merged, trusted, calls, faults, ideal, written, damaged>>
sqliteVars ==
  <<db, tx, pending, stage, target, seq, reserved, appends, crashes, acked>>
memoryVars ==
  <<disk, work, backup, script, phase, rebuilt, soulKnown, vecEnabled, texts,
    restarts, kept, owner, raced>>
skillsVars == <<candidates, reviews, history, records, reports, applied, restored>>
tuiVars ==
  <<inbox, worker, dying, inTurn, future, panel, dialogs, steer, stop, open,
    submitted, shortcuts, edits, fate, prompt, changed, popup>>
editorVars ==
  <<posix, kernel, ahead, pressed, editing, buf, cursor,
    anchor, browsing, draft, shown, index, own>>
toolBoxVars == <<file, edit, reader, outcome, ops, was, meddled>>

vars ==
  <<part, settingsVars, sqliteVars, memoryVars, skillsVars, tuiVars, editorVars,
    toolBoxVars>>

-----------------------------------------------------------------------------
(* The components that are not chosen stand still in one initial state.    *)
Started ==
  /\ part # "memory" => vecEnabled = TRUE
  /\ part # "editor" => posix = FALSE /\ editing = "edit"
  /\ part # "tools" => file = [kind |-> "absent", text |-> <<>>]
  /\ S!Init /\ Q!Init /\ E!Init /\ K!Init /\ U!Init /\ L!Init /\ B!Init
  /\ part # "memory" => disk.soul

Init ==
  /\ part \in {"settings", "sqlite", "memory", "skills", "tui", "editor", "tools"}
  /\ Started

(* A step of one component leaves the others alone.                        *)
StandStill(name, vs) == part # name => UNCHANGED vs

Alone ==
  /\ UNCHANGED part
  /\ StandStill("settings", settingsVars) /\ StandStill("sqlite", sqliteVars)
  /\ StandStill("memory", memoryVars) /\ StandStill("skills", skillsVars)
  /\ StandStill("tui", tuiVars) /\ StandStill("editor", editorVars)
  /\ StandStill("tools", toolBoxVars)

Next ==
  \/ part = "settings" /\ S!Next /\ Alone
  \/ part = "sqlite" /\ Q!Next /\ Alone
  \/ part = "memory" /\ E!Next /\ Alone
  \/ part = "skills" /\ K!Next /\ Alone
  \/ part = "tui" /\ U!Next /\ Alone
  \/ part = "editor" /\ L!Next /\ Alone
  \/ part = "tools" /\ B!Next /\ Alone

Spec == Init /\ [][Next]_vars

-----------------------------------------------------------------------------
(***************************************************************************)
(* Properties                                                              *)
(***************************************************************************)

(* Settings: what is in effect follows the trust of the project.           *)
TrustDecides == part = "settings" => S!TrustDecides

(* Settings: a save keeps what others saved and forgets no change.         *)
SavesMerge == part = "settings" => S!SavesMerge

(* SqliteSessions: stored entries are numbered without a hole.             *)
EntriesDense == part = "sqlite" => Q!EntriesDense

(* MemoryStore: no change of a memory is lost, no vector is another's.     *)
MemoriesKept == part = "memory" => E!MemoriesKept

(* Skills: what is applied was approved, and a rollback restores it.       *)
SkillsAudited == part = "skills" => K!SkillsAudited

(* TuiApp: one turn at a time, the picker cleared, queued steers kept.     *)
TuiSound == part = "tui" => U!TuiSound

(* LineEditor: the screen shows the line, and what Enter takes is it.      *)
LineIsShown == part = "editor" => L!LineIsShown

(* ToolBox: edits are exact, failures say what is left, runs are honest.   *)
ToolsHonest == part = "tools" => B!ToolsHonest
=============================================================================
