------------------------ MODULE AgentSessionHistory ------------------------
(***************************************************************************)
(* The agent session with history variables: what its documentation says   *)
(* about stopping speaks of earlier moments that the session itself does   *)
(* not keep.                                                               *)
(***************************************************************************)
EXTENDS AgentSession

VARIABLES
  askedIn,     \* prompts in flight when the pending stop was requested
  abortedBy,   \* what askedIn was when the current prompt was aborted
  rounds       \* model calls since the pending stop was first requested

history == <<askedIn, abortedBy, rounds>>

InFlight == pc # "idle"

InitH ==
  /\ Init
  /\ askedIn = {}
  /\ abortedBy = {}
  /\ rounds = 0

(* 0 stands for a stop requested between two prompts.                      *)
StopH ==
  /\ RequestStop
  /\ askedIn' = askedIn \cup {IF InFlight THEN prompts ELSE 0}
  /\ rounds' = IF stopRequested THEN rounds ELSE 0
  /\ UNCHANGED abortedBy

StopAtHeadH ==
  /\ StopAtHead
  /\ askedIn' = {}
  /\ abortedBy' = askedIn
  /\ rounds' = 0

StartStreamH ==
  /\ StartStream
  /\ rounds' = rounds + (IF stopRequested THEN 1 ELSE 0)
  /\ UNCHANGED <<askedIn, abortedBy>>

ReturnH ==
  /\ Return
  /\ abortedBy' = {}
  /\ UNCHANGED <<askedIn, rounds>>

OtherH ==
  /\ \/ Prompt
     \/ QueueSteerMessage
     \/ Advance /\ ~StopAtHead /\ ~StartStream /\ ~Return
     \/ \E m \in Models : SetModel(m)
  /\ UNCHANGED history

NextH == StopH \/ StopAtHeadH \/ StartStreamH \/ ReturnH \/ OtherH

SpecH == InitH /\ [][NextH]_<<vars, history>>

FairSpecH == SpecH /\ WF_vars(Advance)

-----------------------------------------------------------------------------
(* Once a stop has been requested the model is called at most once more    *)
(* before the stop takes effect, in this prompt or a later one             *)
(* (request_stop, head of _run_turns).                                     *)
StopWithinOneRound == stopRequested => rounds <= 1

(* Docstring of request_stop: it asks "the in-flight prompt() call to      *)
(* stop".  A prompt that is being aborted is one of those that were in     *)
(* flight when the stop was requested, unless it was requested between     *)
(* prompts.                                                                *)
StopAbortsThePromptInFlight ==
  pc = "ending" /\ result = "aborted" => prompts \in abortedBy \/ 0 \in abortedBy
=============================================================================
