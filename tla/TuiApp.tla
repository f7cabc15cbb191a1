------------------------------- MODULE TuiApp -------------------------------
(***************************************************************************)
(* The fullscreen app: what the user submits is handled by the app's       *)
(* message pump, in workers of one exclusive group, which a new submission *)
(* or a shortcut cancels; the model picker waits in a worker; dialogs ask; *)
(* and the popup of suggestions follows the text of the prompt.            *)
(* A submission is known by its number.                                    *)
(***************************************************************************)
EXTENDS Naturals, Sequences, FiniteSets, Functions

CONSTANTS
  Typed,           \* what the user may have in the prompt
  SuggestionsFor,  \* command_suggestions, by text
  ModelCount,      \* models of all providers
  MaxSubmissions,  \* bound
  MaxShortcuts,    \* bound: presses of an extension's key
  MaxEdit          \* bound: changes of the prompt's text, popup keys included

Slash == Typed \ {"", "hello"}

TuiAssumption ==
  /\ ModelCount \in Nat /\ MaxSubmissions \in Nat /\ MaxShortcuts \in Nat /\ MaxEdit \in Nat
  /\ {"", "hello", "/stop", "/steer", "/model", "/quit"} \subseteq Typed
  /\ "shortcut" \notin Typed  \* it stands for the message of a key
  /\ \A t \in Typed : SuggestionsFor[t] \in Seq(Typed)

VARIABLES
  inbox,      \* messages for the app: submissions and shortcuts
  worker,     \* the worker that is not cancelled
  dying,      \* cancelled workers that are still unwinding
  inTurn,     \* _turn_in_progress
  future,     \* _transient_selection_future: who waits for it, or 0
  panel,      \* the model list is displayed
  dialogs,    \* dialogs on the screen: <<who waits, ...>>, 0 for nobody
  steer, stop,  \* the session's queue of steer messages, and its stop flag
  open,       \* the app has not exited
  submitted, shortcuts, edits,
  fate,       \* history: what became of each submission
  prompt,     \* text of the prompt editor
  changed,    \* Changed messages on their way
  popup       \* suggestions: displayed, items, highlighted

tuiVars ==
  <<inbox, worker, dying, inTurn, future, panel, dialogs, steer, stop, open,
    submitted, shortcuts, edits, fate, prompt, changed, popup>>

workerVars == <<worker, dying, inTurn, future, panel, dialogs>>
editorPart == <<prompt, changed, popup, edits>>

Picking == {"picking", "picked"}
Nobody == [id |-> 0, text |-> "", at |-> "none"]

Init ==
  /\ inbox = <<>> /\ worker = Nobody /\ dying = {} /\ inTurn = FALSE
  /\ future = 0 /\ panel = FALSE /\ dialogs = <<>> /\ steer = <<>> /\ stop = FALSE
  /\ open = TRUE /\ submitted = 0 /\ shortcuts = 0 /\ edits = 0
  /\ fate = <<>>
  /\ prompt = "" /\ changed = 0 /\ popup = [shown |-> FALSE, items |-> <<>>, at |-> 0]

-----------------------------------------------------------------------------
(* The prompt and its popup.                                               *)

Edit(t) == prompt' = t /\ changed' = changed + 1

Type(t) ==
  /\ open /\ dialogs = <<>> /\ edits < MaxEdit /\ edits' = edits + 1 /\ t # prompt /\ Edit(t)
  /\ UNCHANGED <<inbox, workerVars, steer, stop, open, submitted, shortcuts, fate, popup>>

\* on_text_area_changed: the popup is made again from the text of now.
TextChanged ==
  /\ changed > 0 /\ changed' = changed - 1
  /\ LET matches == SuggestionsFor[prompt] IN
       popup' = IF matches = <<>> THEN [popup EXCEPT !.shown = FALSE]
                ELSE [shown |-> TRUE, items |-> matches, at |-> 1]
  /\ UNCHANGED <<inbox, workerVars, steer, stop, open, submitted, shortcuts, edits, fate, prompt>>

\* The keys of the popup; escape goes to the model list first.
PopupKey ==
  /\ open /\ dialogs = <<>> /\ popup.shown /\ edits < MaxEdit /\ edits' = edits + 1
  /\ \/ Edit(popup.items[popup.at]) /\ popup' = [popup EXCEPT !.shown = FALSE]
     \/ ~panel /\ popup' = [popup EXCEPT !.shown = FALSE] /\ UNCHANGED <<prompt, changed>>
     \/ /\ \E step \in {1, Len(popup.items) - 1} :
              popup' = [popup EXCEPT !.at = ((@ - 1 + step) % Len(popup.items)) + 1]
        /\ UNCHANGED <<prompt, changed>>
  /\ UNCHANGED <<inbox, workerVars, steer, stop, open, submitted, shortcuts, fate>>

\* Enter: the widget posts Submitted with its text.
Enter ==
  /\ open /\ dialogs = <<>> /\ submitted < MaxSubmissions /\ submitted' = submitted + 1
  /\ inbox' = Append(inbox, [id |-> submitted + 1, text |-> prompt])
  /\ fate' = Append(fate, "posted")
  /\ UNCHANGED <<workerVars, steer, stop, open, shortcuts, editorPart>>

PressShortcut ==
  /\ open /\ shortcuts < MaxShortcuts /\ shortcuts' = shortcuts + 1
  /\ inbox' = Append(inbox, [id |-> MaxSubmissions + shortcuts + 1, text |-> "shortcut"])
  /\ UNCHANGED <<workerVars, steer, stop, open, submitted, fate, editorPart>>

-----------------------------------------------------------------------------
(* The app's handlers.                                                     *)

Decided(id, what) ==
  fate' = IF id \in DOMAIN fate THEN [fate EXCEPT ![id] = what] ELSE fate

\* A worker of the exclusive group: the one before is cancelled.  One that has
\* not begun never does, the other unwinds.
StartWorker(m) ==
  /\ worker' = [id |-> m.id, text |-> m.text, at |-> "pending"]
  /\ dying' = IF worker.at \in {"none", "pending"} THEN dying ELSE dying \cup {worker}
  /\ fate' = [i \in DOMAIN fate |->
                IF i = worker.id THEN (IF worker.at = "pending" THEN "dropped" ELSE "cancelled")
                ELSE IF i = m.id THEN "started" ELSE fate[i]]

\* _handle_mid_turn_submission.
MidTurn(m) ==
  /\ CASE m.text = "/stop" -> stop' = TRUE /\ UNCHANGED steer /\ Decided(m.id, "stop")
       [] m.text = "/steer" -> UNCHANGED <<steer, stop>> /\ Decided(m.id, "usage")
       [] OTHER -> steer' = Append(steer, m.id) /\ UNCHANGED stop /\ Decided(m.id, "queued")
  /\ UNCHANGED <<worker, dying>>

\* on_prompt_text_area_submitted and _dispatch_shortcut.
HandleMessage ==
  /\ open /\ inbox # <<>> /\ inbox' = Tail(inbox)
  /\ LET m == Head(inbox) IN
       \/ /\ m.text = "shortcut"
          /\ StartWorker(m) /\ UNCHANGED <<steer, stop, prompt, changed>>
       \/ /\ m.text # "shortcut"
          /\ prompt' = "" /\ changed' = changed + (IF prompt = "" THEN 0 ELSE 1)
          /\ \/ m.text = "" /\ Decided(m.id, "empty") /\ UNCHANGED <<worker, dying, steer, stop>>
             \/ m.text # "" /\ inTurn /\ MidTurn(m)
             \/ m.text # "" /\ ~inTurn /\ StartWorker(m) /\ UNCHANGED <<steer, stop>>
  /\ UNCHANGED <<inTurn, future, panel, dialogs, open, submitted, shortcuts, edits, popup>>

-----------------------------------------------------------------------------
(* The workers.                                                            *)

Kept == UNCHANGED <<inbox, open, submitted, shortcuts, editorPart>>

\* The first step of a worker.  A picker that was cancelled has let go by then:
\* it waits for its future directly, and was woken first.
Begin ==
  /\ worker.at = "pending" /\ (\A w \in dying : w.at \notin Picking)
  /\ CASE worker.text = "shortcut" \/ worker.text \in Slash \ {"/model"} ->
            /\ worker' = [worker EXCEPT !.at = "command"]
            /\ UNCHANGED <<inTurn, future, panel>>
       [] worker.text = "/model" ->
            IF ModelCount <= 1
            THEN worker' = Nobody /\ UNCHANGED <<inTurn, future, panel>>
            ELSE /\ worker' = [worker EXCEPT !.at = "picking"]
                 /\ future' = worker.id /\ panel' = TRUE /\ UNCHANGED inTurn
       [] OTHER ->
            /\ worker' = [worker EXCEPT !.at = "turn"] /\ inTurn' = TRUE
            /\ UNCHANGED <<future, panel>>
  /\ UNCHANGED <<dying, dialogs, steer, stop, fate>> /\ Kept

\* push_screen_wait, from a tool's confirmation or an extension's handler.
AskUser ==
  /\ worker.at \in {"turn", "command"} /\ worker.id \notin Range(dialogs) /\ Len(dialogs) < 2
  /\ dialogs' = Append(dialogs, worker.id)
  /\ UNCHANGED <<worker, dying, inTurn, future, panel, steer, stop, fate>> /\ Kept

\* The dialog on top is answered or dismissed.
AnswerDialog ==
  /\ dialogs # <<>> /\ dialogs' = SubSeq(dialogs, 1, Len(dialogs) - 1)
  /\ UNCHANGED <<worker, dying, inTurn, future, panel, steer, stop, fate>> /\ Kept

Asking(w) == w.id \in Range(dialogs)

\* The turn is at a boundary: stop, or what was queued goes to the model.
Boundary ==
  /\ worker.at = "turn" /\ ~Asking(worker)
  /\ \/ /\ stop /\ stop' = FALSE /\ worker' = Nobody /\ inTurn' = FALSE
        /\ Decided(worker.id, "done") /\ UNCHANGED steer
     \/ /\ ~stop /\ steer # <<>> /\ steer' = <<>>
        /\ fate' = [i \in DOMAIN fate |-> IF i \in Range(steer) THEN "delivered" ELSE fate[i]]
        /\ UNCHANGED <<worker, inTurn, stop>>
  /\ UNCHANGED <<dying, future, panel, dialogs>> /\ Kept

\* The turn, the command or the shortcut's handler ends.
End ==
  /\ worker.at \in {"turn", "command"} /\ ~Asking(worker)
  /\ worker' = Nobody /\ Decided(worker.id, "done")
  /\ inTurn' = IF worker.at = "turn" THEN FALSE ELSE inTurn
  /\ open' = (open /\ worker.text # "/quit")
  /\ UNCHANGED <<dying, future, panel, dialogs, steer, stop, inbox, submitted, shortcuts, editorPart>>

\* A model is picked, or Escape: the future is resolved, and then the worker
\* goes on.
Pick ==
  /\ worker.at = "picking" /\ future = worker.id
  /\ worker' = [worker EXCEPT !.at = "picked"]
  /\ UNCHANGED <<dying, inTurn, future, panel, dialogs, steer, stop, fate>> /\ Kept

Picked ==
  /\ worker.at = "picked"
  /\ worker' = Nobody /\ future' = 0 /\ panel' = FALSE /\ Decided(worker.id, "done")
  /\ UNCHANGED <<dying, inTurn, dialogs, steer, stop>> /\ Kept

\* Mutant: the panel is hidden after the await, not in a finally block.
NotCleared(w) == FALSE

Cleared(w) == w.at \in Picking

\* The finally blocks of a cancelled worker.  Those of a turn await the
\* extensions' handlers, so that it may take its time.  Its dialog stays.
Unwound(w) ==
  /\ w \in dying /\ dying' = dying \ {w}
  /\ inTurn' = IF w.at = "turn" THEN FALSE ELSE inTurn
  /\ future' = IF Cleared(w) THEN 0 ELSE future
  /\ panel' = IF Cleared(w) THEN FALSE ELSE panel
  /\ dialogs' = [i \in DOMAIN dialogs |-> IF dialogs[i] = w.id THEN 0 ELSE dialogs[i]]
  /\ UNCHANGED <<worker, steer, stop, fate>> /\ Kept

Next ==
  \/ \E t \in Typed : Type(t)
  \/ TextChanged \/ PopupKey \/ Enter \/ PressShortcut \/ HandleMessage
  \/ Begin \/ AskUser \/ AnswerDialog \/ Boundary \/ End \/ Pick \/ Picked
  \/ \E w \in dying : Unwound(w)

-----------------------------------------------------------------------------
Workers == dying \cup {worker}

TypeOK ==
  /\ worker.at \in {"none", "pending", "command", "turn"} \cup Picking
  /\ \A w \in dying : w.at \in {"command", "turn"} \cup Picking
  /\ Len(fate) = submitted /\ changed \in Nat

\* Never are two turns in progress, and the flag is set while one is.
OneTurn ==
  /\ Cardinality({w \in Workers : w.at = "turn"}) <= 1
  /\ inTurn <=> \E w \in Workers : w.at = "turn"

\* The model list is displayed while its worker waits for a choice, and no
\* longer, however the worker ends.
PickerCleared ==
  /\ panel <=> \E w \in Workers : w.at \in Picking
  /\ \A w \in Workers : w.at \in Picking => future = w.id

\* Once the editor is at rest the popup is that of its text or was dismissed,
\* and a suggestion is highlighted.
PopupFits ==
  /\ popup.shown => popup.at \in DOMAIN popup.items
  /\ popup.shown /\ changed = 0 => popup.items = SuggestionsFor[prompt]

\* What was queued is delivered or still waits; nothing is queued twice.
QueuedKept ==
  /\ Cardinality(Range(steer)) = Len(steer)
  /\ \A i \in DOMAIN fate : fate[i] = "queued" <=> i \in Range(steer)

TuiSound == TypeOK /\ OneTurn /\ PickerCleared /\ PopupFits /\ QueuedKept
=============================================================================
