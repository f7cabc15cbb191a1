--------------------------- MODULE SubagentState ---------------------------
(***************************************************************************)
(* The state of a call of the subagent tool: the coroutines of its tasks,  *)
(* their child processes, the tasks that drive them and the handles; and   *)
(* what the steps of Subagent must keep true of it.                        *)
(***************************************************************************)
EXTENDS Naturals, Sequences, FiniteSets

CONSTANTS
  Requested,    \* the number of tasks the model asked for
  MaxTasks,     \* _PARALLEL_MAX_TASKS
  Concurrency,  \* _PARALLEL_CONCURRENCY
  Stoppers,     \* concurrent callers of stop()
  MaxOutput     \* bound: lines a child prints before its last one

ASSUME SubagentAssumption ==
  /\ Requested \in Nat
  /\ MaxTasks \in Nat
  /\ Concurrency \in Nat \ {0}
  /\ MaxOutput \in Nat

VARIABLES
  mode,     \* "parallel" or "chain": how the model asked for its tasks
  slot,     \* where the coroutine of each task is
  permits,  \* free permits of the semaphore
  child,    \* the child process of each task
  ending,   \* how the child ended, or is about to
  out,      \* its stdout, not yet read
  told,     \* a stop command has reached its stdin
  drive,    \* the driving task
  verdict,  \* final_status of the driving task
  texts,    \* how many text lines the driving task has captured
  status,   \* handle.status
  result,   \* handle.result
  stopper,  \* what each caller of stop() does
  answer    \* the tool call: open, returned or raised

call    == <<mode, slot, permits, answer>>
process == <<child, ending, out, told>>
driving == <<drive, verdict, texts>>
handle  == <<status, result>>
subagentVars == <<call, process, driving, handle, stopper>>

Tasks == 1..Requested

(* A parallel call drops what exceeds MaxTasks.                            *)
Queued(i) == mode = "chain" \/ i <= MaxTasks

(* How many children the call may have at a time.                          *)
Limit == IF mode = "parallel" THEN Concurrency ELSE 1

Final == {"done", "error", "timeout", "killed"}
Lines == {"text", "bad", "done", "error", "aborted"}

NoResult == [status |-> "running", text |-> 0]
Running  == {"alive", "closing", "dying"}

-----------------------------------------------------------------------------
(***************************************************************************)
(* Properties                                                              *)
(***************************************************************************)

ChildrenTyped ==
  /\ mode \in {"parallel", "chain"}
  /\ slot \in [Tasks -> {"queued", "starting", "waiting", "collected", "failed", "skipped"}]
  /\ permits \in 0..Limit
  /\ child \in [Tasks -> Running \cup {"none", "gone"}]
  /\ ending \in [Tasks -> {"none", "done", "error", "aborted", "crashed", "sigkill"}]
  /\ out \in [Tasks -> Seq(Lines)]
  /\ told \in [Tasks -> BOOLEAN]
  /\ drive \in [Tasks -> {"none", "pumping", "killing", "ended", "broken"}]
  /\ verdict \in [Tasks -> Final]
  /\ texts \in [Tasks -> Nat]
  /\ status \in [Tasks -> Final \cup {"running"}]
  /\ result \in [Tasks -> [status : Final \cup {"running"}, text : Nat]]
  /\ stopper \in [Stoppers -> [at : {"away", "grace", "killing", "returned", "raised"},
                               task : {0} \cup Tasks]]
  /\ answer \in {"open", "returned", "raised"}

(* mark_done: stop() and the driving task race to resolve a handle; the    *)
(* first result is the one every caller of wait() and stop() gets.         *)
FirstResultStays ==
  [][\A i \in Tasks : result[i] # NoResult => UNCHANGED <<status[i], result[i]>>]_subagentVars

(* A handle that is not listed as live has no process any more (stop and   *)
(* _drive await proc.wait() before they resolve it).                       *)
ResolvedMeansGone == \A i \in Tasks : status[i] # "running" => child[i] = "gone"

(* A child is reported done only if its last line said so: its output has  *)
(* been read to the end, it was not killed and did not crash (_drive).     *)
DoneIsHonest == \A i \in Tasks : result[i].status = "done" => ending[i] = "done"

(* At most Concurrency processes of a parallel call are alive at a time,   *)
(* one of a chain ("at most 4 running concurrently").                      *)
AtMostConcurrent ==
  Cardinality({i \in Tasks : child[i] \in Running}) <= Limit

(* A resolved handle has no process any more, and never more children run  *)
(* than the call may have; types included.                                 *)
ChildrenAccounted == ChildrenTyped /\ ResolvedMeansGone /\ AtMostConcurrent
=============================================================================
