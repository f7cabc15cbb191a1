------------------------------ MODULE Subagent ------------------------------
(***************************************************************************)
(* One call of the subagent tool in parallel or chain mode: the child      *)
(* processes it spawns, the task that drives each of them (_drive), and    *)
(* callers that stop children while the tool waits (stop).  All tasks run  *)
(* on one event loop; an action is what a task does between two awaits.    *)
(***************************************************************************)
EXTENDS SubagentState

vars == subagentVars

Init ==
  /\ mode \in {"parallel", "chain"}
  /\ slot = [i \in Tasks |-> IF Queued(i) THEN "queued" ELSE "skipped"]
  /\ permits = Limit
  /\ child = [i \in Tasks |-> "none"]
  /\ ending = [i \in Tasks |-> "none"]
  /\ out = [i \in Tasks |-> <<>>]
  /\ told = [i \in Tasks |-> FALSE]
  /\ drive = [i \in Tasks |-> "none"]
  /\ verdict = [i \in Tasks |-> "done"]
  /\ texts = [i \in Tasks |-> 0]
  /\ status = [i \in Tasks |-> "running"]
  /\ result = [i \in Tasks |-> NoResult]
  /\ stopper = [s \in Stoppers |-> [at |-> "away", task |-> 0]]
  /\ answer = "open"

-----------------------------------------------------------------------------
(* The tool call.                                                          *)

(* asyncio.Semaphore hands out permits in order; a chain does one step     *)
(* after the other, which is a semaphore with one permit.                  *)
Acquire(i) ==
  /\ answer = "open"
  /\ slot[i] = "queued"
  /\ \A k \in Tasks : k < i => slot[k] # "queued"
  /\ permits > 0
  /\ permits' = permits - 1
  /\ slot' = [slot EXCEPT ![i] = "starting"]
  /\ UNCHANGED <<mode, answer, process, driving, handle, stopper>>

(* spawn_subagent: the child runs and the handle is registered before the  *)
(* tool goes on.                                                           *)
Spawn(i) ==
  /\ slot[i] = "starting"
  /\ slot' = [slot EXCEPT ![i] = "waiting"]
  /\ child' = [child EXCEPT ![i] = "alive"]
  /\ drive' = [drive EXCEPT ![i] = "pumping"]
  /\ UNCHANGED <<mode, permits, answer, ending, out, told, verdict, texts, handle, stopper>>

\* Mutant: an exception of the spawn gives the permit back twice.
SpawnFailsTwice(i) ==
  /\ slot[i] = "starting"
  /\ slot' = [slot EXCEPT ![i] = "failed"]
  /\ permits' = permits + 2
  /\ answer' = IF mode = "chain" THEN "raised" ELSE answer
  /\ UNCHANGED <<mode, process, driving, handle, stopper>>

\* Mutant: an exception of the spawn keeps the permit.
SpawnFailsKeepsPermit(i) ==
  /\ slot[i] = "starting"
  /\ slot' = [slot EXCEPT ![i] = "failed"]
  /\ answer' = IF mode = "chain" THEN "raised" ELSE answer
  /\ UNCHANGED <<mode, permits, process, driving, handle, stopper>>

(* create_subprocess_exec raises: gather keeps the exception of this task, *)
(* a chain ends with it.                                                   *)
SpawnFails(i) ==
  /\ slot[i] = "starting"
  /\ slot' = [slot EXCEPT ![i] = "failed"]
  /\ permits' = permits + 1
  /\ answer' = IF mode = "chain" THEN "raised" ELSE answer
  /\ UNCHANGED <<mode, process, driving, handle, stopper>>

(* A chain skips a step that names an unknown agent.                       *)
SkipStep(i) ==
  /\ mode = "chain"
  /\ answer = "open"
  /\ slot[i] = "queued"
  /\ \A k \in Tasks : k < i => slot[k] \in {"collected", "skipped"}
  /\ slot' = [slot EXCEPT ![i] = "skipped"]
  /\ UNCHANGED <<mode, permits, answer, process, driving, handle, stopper>>

\* Mutant: the permit is given back as soon as the child has been spawned.
CollectEarly(i) ==
  /\ slot[i] = "waiting"
  /\ slot' = [slot EXCEPT ![i] = "collected"]
  /\ permits' = permits + 1
  /\ UNCHANGED <<mode, answer, process, driving, handle, stopper>>

(* handle.wait() returns; leaving the block gives the permit back.         *)
Collect(i) ==
  /\ slot[i] = "waiting"
  /\ result[i] # NoResult
  /\ slot' = [slot EXCEPT ![i] = "collected"]
  /\ permits' = permits + 1
  /\ UNCHANGED <<mode, answer, process, driving, handle, stopper>>

Return ==
  /\ answer = "open"
  /\ \A i \in Tasks : slot[i] \in {"collected", "failed", "skipped"}
  /\ answer' = "returned"
  /\ UNCHANGED <<mode, slot, permits, process, driving, handle, stopper>>

-----------------------------------------------------------------------------
(* The child: print mode rpc.                                              *)

(* "bad" is a line that _pump_stdout cannot digest: longer than the        *)
(* reader's limit, JSON that is no object, a progress callback that raises *)
(* on it.                                                                  *)
WriteLine(i, e) ==
  /\ child[i] = "alive"
  /\ Len(out[i]) + texts[i] < MaxOutput
  /\ out' = [out EXCEPT ![i] = Append(@, e)]
  /\ UNCHANGED <<call, child, ending, told, driving, handle, stopper>>

(* The prompt has returned: its last line tells how.                       *)
Conclude(i, e) ==
  /\ child[i] = "alive"
  /\ e = "aborted" => told[i]
  /\ out' = [out EXCEPT ![i] = Append(@, e)]
  /\ child' = [child EXCEPT ![i] = "closing"]
  /\ ending' = [ending EXCEPT ![i] = e]
  /\ UNCHANGED <<call, told, driving, handle, stopper>>

(* The child dies of an exception, without a last line and with a non-zero *)
(* exit code.                                                              *)
Crash(i) ==
  /\ child[i] = "alive"
  /\ child' = [child EXCEPT ![i] = "gone"]
  /\ ending' = [ending EXCEPT ![i] = "crashed"]
  /\ UNCHANGED <<call, out, told, driving, handle, stopper>>

(* The process exits, by itself or by SIGKILL, and its pipes close.        *)
Exit(i) ==
  /\ child[i] \in {"closing", "dying"}
  /\ child' = [child EXCEPT ![i] = "gone"]
  /\ ending' = [ending EXCEPT ![i] = IF child[i] = "dying" THEN "sigkill" ELSE @]
  /\ UNCHANGED <<call, out, told, driving, handle, stopper>>

ExitCodeZero(i) == ending[i] \in {"done", "aborted"}

-----------------------------------------------------------------------------
(* handle.mark_done: the first result stays.                               *)

\* Mutant: the last result stays.
MarkDoneAgain(i, r) ==
  /\ status' = [status EXCEPT ![i] = r.status]
  /\ result' = [result EXCEPT ![i] = r]

MarkDone(i, r) ==
  IF result[i] # NoResult
  THEN UNCHANGED handle
  ELSE /\ status' = [status EXCEPT ![i] = r.status]
       /\ result' = [result EXCEPT ![i] = r]

-----------------------------------------------------------------------------
(* _drive.                                                                 *)

PumpLine(i) ==
  /\ drive[i] = "pumping"
  /\ out[i] # <<>>
  /\ out' = [out EXCEPT ![i] = Tail(@)]
  /\ texts' = [texts EXCEPT ![i] = IF Head(out[i]) = "text" THEN @ + 1 ELSE @]
  /\ verdict' = [verdict EXCEPT ![i] =
                   CASE Head(out[i]) = "error"   -> "error"
                     [] Head(out[i]) = "aborted" -> "killed"
                     [] OTHER                    -> @]
  /\ drive' = [drive EXCEPT ![i] = IF Head(out[i]) = "bad" THEN "broken" ELSE @]
  /\ UNCHANGED <<call, child, ending, told, handle, stopper>>

\* Mutant: the driving task does not wait for the end of stdout.
DriveEndsAtExit(i) ==
  /\ drive[i] = "pumping"
  /\ child[i] = "gone"
  /\ drive' = [drive EXCEPT ![i] = "ended"]
  /\ MarkDone(i, [status |-> IF ~ExitCodeZero(i) /\ verdict[i] = "done"
                             THEN "error" ELSE verdict[i],
                  text |-> texts[i]])
  /\ UNCHANGED <<call, process, verdict, texts, stopper>>

(* stdout, stderr and the process have ended.                              *)
DriveEnds(i) ==
  /\ drive[i] = "pumping"
  /\ child[i] = "gone"
  /\ out[i] = <<>>
  /\ drive' = [drive EXCEPT ![i] = "ended"]
  /\ MarkDone(i, [status |-> IF ~ExitCodeZero(i) /\ verdict[i] = "done"
                             THEN "error" ELSE verdict[i],
                  text |-> texts[i]])
  /\ UNCHANGED <<call, process, verdict, texts, stopper>>

(* proc.kill(): a timer that fires between the end of the child and the    *)
(* end of _drive gets a ProcessLookupError.                                *)
Kill(i) ==
  /\ child[i] \in Running
  /\ child' = [child EXCEPT ![i] = "dying"]
  /\ UNCHANGED <<ending, out, told>>

KillRaises(i) ==
  /\ child[i] = "gone"
  /\ UNCHANGED process


DriveTimesOut(i) ==
  /\ drive[i] = "pumping"
  /\ \/ Kill(i) /\ drive' = [drive EXCEPT ![i] = "killing"]
     \/ KillRaises(i) /\ drive' = [drive EXCEPT ![i] = "broken"]
  /\ UNCHANGED <<call, verdict, texts, handle, stopper>>

DriveReaped(i) ==
  /\ drive[i] = "killing"
  /\ child[i] = "gone"
  /\ drive' = [drive EXCEPT ![i] = "ended"]
  /\ MarkDone(i, [status |-> "timeout", text |-> texts[i]])
  /\ UNCHANGED <<call, process, verdict, texts, stopper>>

-----------------------------------------------------------------------------
(* handle.stop().                                                          *)

Become(s, at, i) == stopper' = [stopper EXCEPT ![s] = [at |-> at, task |-> i]]

Stop(s, i) ==
  /\ stopper[s].at = "away"
  /\ child[i] # "none"
  /\ IF status[i] # "running"
     THEN Become(s, "returned", i) /\ UNCHANGED told
     ELSE /\ Become(s, "grace", i)
          /\ told' = [told EXCEPT ![i] = @ \/ child[i] = "alive"]
  /\ UNCHANGED <<call, child, ending, out, driving, handle>>

(* The child stopped within the graceful timeout.                          *)
StopSettled(s) ==
  LET i == stopper[s].task IN
  /\ stopper[s].at = "grace"
  /\ result[i] # NoResult
  /\ Become(s, "returned", i)
  /\ UNCHANGED <<call, process, driving, handle>>

StopTimesOut(s) ==
  LET i == stopper[s].task IN
  /\ stopper[s].at = "grace"
  /\ result[i] = NoResult
  /\ \/ Kill(i) /\ Become(s, "killing", i)
     \/ KillRaises(i) /\ Become(s, "raised", i)
  /\ UNCHANGED <<call, driving, handle>>

\* Mutant: stop() does not wait for the process it killed.
StopWithoutReaping(s) ==
  LET i == stopper[s].task IN
  /\ stopper[s].at = "killing"
  /\ IF status[i] = "running"
     THEN MarkDone(i, [status |-> "killed", text |-> 0])
     ELSE UNCHANGED handle
  /\ Become(s, "returned", i)
  /\ UNCHANGED <<call, process, driving>>

(* The killed process is gone; the result of a hard kill has no output.    *)
StopReaped(s) ==
  LET i == stopper[s].task IN
  /\ stopper[s].at = "killing"
  /\ child[i] = "gone"
  /\ IF status[i] = "running"
     THEN MarkDone(i, [status |-> "killed", text |-> 0])
     ELSE UNCHANGED handle
  /\ Become(s, "returned", i)
  /\ UNCHANGED <<call, process, driving>>

-----------------------------------------------------------------------------
Slot(i)   == Acquire(i) \/ Spawn(i) \/ SpawnFails(i) \/ Collect(i)
Driver(i) == PumpLine(i) \/ DriveEnds(i) \/ DriveReaped(i)
Stopping(s) == StopSettled(s) \/ StopTimesOut(s) \/ StopReaped(s)

Next ==
  \/ \E i \in Tasks :
       \/ Slot(i) \/ SkipStep(i)
       \/ \E e \in {"text", "bad"} : WriteLine(i, e)
       \/ \E e \in {"done", "error", "aborted"} : Conclude(i, e)
       \/ Crash(i) \/ Exit(i)
       \/ Driver(i) \/ DriveTimesOut(i)
       \/ \E s \in Stoppers : Stop(s, i)
  \/ \E s \in Stoppers : Stopping(s)
  \/ Return

Spec == Init /\ [][Next]_vars

(* The event loop runs what is ready, timers fire, a killed or concluded   *)
(* process exits.  A child need not print or conclude anything.            *)
FairSpec ==
  /\ Spec
  /\ \A i \in Tasks :
       WF_vars(Slot(i)) /\ WF_vars(Exit(i)) /\ WF_vars(Driver(i)) /\ WF_vars(DriveTimesOut(i))
  /\ \A s \in Stoppers : WF_vars(Stopping(s))
  /\ WF_vars(Return)

-----------------------------------------------------------------------------
(***************************************************************************)
(* Properties                                                              *)
(***************************************************************************)

(* The tool call ends however its children behave and whoever stops them,  *)
(* unless a driving task broke.                                            *)
CallReturns == <>(answer # "open" \/ \E i \in Tasks : drive[i] = "broken")

(* spawn_subagent: the driving task "calls handle.mark_done() regardless   *)
(* of how it ends", so whoever waits for the handle gets a result.         *)
WaitReturns == \A i \in Tasks : slot[i] = "waiting" ~> slot[i] = "collected"
=============================================================================
