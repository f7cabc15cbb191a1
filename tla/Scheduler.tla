------------------------------ MODULE Scheduler ------------------------------
(***************************************************************************)
(* The job scheduler.  Every "jobs enqueue|list|cancel|tick" is a process  *)
(* of its own; the processes share nothing but the session directory, in   *)
(* which a session of a reserved name holds one line per saved job record. *)
(* A save reads the file for the next sequence number and then appends; it *)
(* takes no lock.  A process may die between any two of its steps.         *)
(***************************************************************************)
EXTENDS Integers, Sequences

CONSTANTS
  Procs,       \* processes that may be alive at the same time
  Jobs,        \* the job ids that uuid4() can produce
  MaxRetries,  \* bound: the largest max_retries a job is enqueued with
  Interval,    \* interval_seconds of recurring jobs
  MaxClock,    \* bound: the last moment of a behaviour
  MaxSaves     \* bound: no command starts once a store holds this many lines

ASSUME SchedulerAssumption ==
  /\ "none" \notin Jobs
  /\ MaxRetries \in Nat
  /\ Interval \in Nat \ {0}
  /\ MaxClock \in Nat
  /\ MaxSaves \in Nat

VARIABLES
  stores,    \* the job sessions in the directory, oldest first: their lines
  clock,     \* time.time()
  pc,        \* where each process is
  file,      \* _session_id of the process's JobStore, as an index of stores
  todo,      \* the due jobs a tick has still to run, as it read them
  job,       \* the record the process is working on
  goal,      \* what the save in progress is part of
  stamp,     \* the sequence number the save in progress has read
  used,      \* job ids handed out
  cancelled  \* jobs for which cancel() returned True

vars == <<stores, clock, pc, file, todo, job, goal, stamp, used, cancelled>>

Statuses == {"scheduled", "running", "done", "failed", "cancelled"}
Outcomes == {"none", "done", "failed"}
Goals    == {"enqueue", "cancel", "start", "finish"}
Stages   == {"idle", "missing", "open", "ticking", "stamping", "writing", "running"}

(* A Job: next is next_run_at, last the status of the last run record.     *)
JobRecord == [id : Jobs, recurring : BOOLEAN, retries : 0..MaxRetries,
              status : Statuses, attempt : Nat, next : Nat, last : Outcomes]

Line == [seq : Nat, job : JobRecord]

-----------------------------------------------------------------------------
(* JobStore: reading.                                                      *)

LinesOf(log, j) == {i \in 1..Len(log) : log[i].job.id = j}

\* Mutant: the largest sequence number is compared with >=, not with >.
LatestOfTie(log, j) ==
  log[CHOOSE i \in LinesOf(log, j) :
        \A k \in LinesOf(log, j) :
          log[k].seq > log[i].seq \/ (log[k].seq = log[i].seq /\ k <= i)].job

(* all_jobs(): the record with the largest sequence number, the first one  *)
(* in the file if two lines have the same.                                 *)
Latest(log, j) ==
  log[CHOOSE i \in LinesOf(log, j) :
        \A k \in LinesOf(log, j) :
          log[k].seq < log[i].seq \/ (log[k].seq = log[i].seq /\ i <= k)].job

Known(log) == {j \in Jobs : LinesOf(log, j) # {}}

\* Mutant: cancelled jobs stay due.
DueUnlessOver(log) ==
  {r \in {Latest(log, j) : j \in Known(log)} :
     r.status \notin {"done", "failed", "running"} /\ r.next <= clock}

Due(log) ==
  {r \in {Latest(log, j) : j \in Known(log)} :
     r.status = "scheduled" /\ r.next <= clock}

(* all_jobs() lists the jobs in the order of their first lines.            *)
FirstLine(log, j) == CHOOSE i \in LinesOf(log, j) : \A k \in LinesOf(log, j) : i <= k

\* Mutant: the largest sequence number is reused.
NextSeqSame(log) ==
  IF log = <<>>
  THEN 0
  ELSE log[CHOOSE i \in 1..Len(log) :
             \A k \in 1..Len(log) : log[k].seq <= log[i].seq].seq

(* save(): one more than the largest sequence number of the file.          *)
NextSeq(log) ==
  IF log = <<>>
  THEN 0
  ELSE 1 + log[CHOOSE i \in 1..Len(log) :
                 \A k \in 1..Len(log) : log[k].seq <= log[i].seq].seq

Log(p) == stores[file[p]]

NoJob == [id |-> "none"]

NewJob(j, recurring, retries, at) ==
  [id |-> j, recurring |-> recurring, retries |-> retries, status |-> "scheduled",
   attempt |-> 0, next |-> at, last |-> "none"]

Init ==
  /\ stores = <<>>
  /\ clock = 0
  /\ pc = [p \in Procs |-> "idle"]
  /\ file = [p \in Procs |-> 0]
  /\ todo = [p \in Procs |-> {}]
  /\ job = [p \in Procs |-> NoJob]
  /\ goal = [p \in Procs |-> "enqueue"]
  /\ stamp = [p \in Procs |-> 0]
  /\ used = {}
  /\ cancelled = {}

Goto(p, stage) == pc' = [pc EXCEPT ![p] = stage]

(* The process ends: nothing but the files outlives it.                    *)
Leave(p) ==
  /\ Goto(p, "idle")
  /\ file' = [file EXCEPT ![p] = 0]
  /\ todo' = [todo EXCEPT ![p] = {}]
  /\ job' = [job EXCEPT ![p] = NoJob]
  /\ goal' = [goal EXCEPT ![p] = "enqueue"]
  /\ stamp' = [stamp EXCEPT ![p] = 0]

(* save(r) begins.                                                         *)
Save(p, r, g) ==
  /\ job' = [job EXCEPT ![p] = r]
  /\ goal' = [goal EXCEPT ![p] = g]
  /\ Goto(p, "stamping")

-----------------------------------------------------------------------------
(* _ensure_session: use the newest job session, or create one.             *)

MayStart == \A i \in 1..Len(stores) : Len(stores[i]) < MaxSaves

\* Mutant: every process creates a job session.
FindStoreNever(p) ==
  /\ pc[p] = "idle"
  /\ MayStart
  /\ Len(stores) < MaxSaves
  /\ Goto(p, "missing")
  /\ UNCHANGED <<stores, clock, file, todo, job, goal, stamp, used, cancelled>>

FindStore(p) ==
  /\ pc[p] = "idle"
  /\ MayStart
  /\ IF stores = <<>>
     THEN Goto(p, "missing") /\ UNCHANGED file
     ELSE Goto(p, "open") /\ file' = [file EXCEPT ![p] = Len(stores)]
  /\ UNCHANGED <<stores, clock, todo, job, goal, stamp, used, cancelled>>

CreateStore(p) ==
  /\ pc[p] = "missing"
  /\ stores' = Append(stores, <<>>)
  /\ file' = [file EXCEPT ![p] = Len(stores) + 1]
  /\ Goto(p, "open")
  /\ UNCHANGED <<clock, todo, job, goal, stamp, used, cancelled>>

-----------------------------------------------------------------------------
(* The commands.                                                           *)

\* Mutant: the id of the job is not drawn anew.
EnqueueAnyId(p, j, recurring, retries, at) ==
  /\ pc[p] = "open"
  /\ Save(p, NewJob(j, recurring, retries, at), "enqueue")
  /\ UNCHANGED <<stores, clock, file, todo, stamp, used, cancelled>>

Enqueue(p, j, recurring, retries, at) ==
  /\ pc[p] = "open"
  /\ j \notin used
  /\ used' = used \cup {j}
  /\ Save(p, NewJob(j, recurring, retries, at), "enqueue")
  /\ UNCHANGED <<stores, clock, file, todo, stamp, cancelled>>

\* Mutant: a job that is over can be cancelled again.
PendingOrOver(r) == r.status # "cancelled"

Pending(r) == r.status \in {"scheduled", "running"}

Cancel(p, j) ==
  /\ pc[p] = "open"
  /\ IF j \in Known(Log(p)) /\ Pending(Latest(Log(p), j))
     THEN /\ Save(p, [Latest(Log(p), j) EXCEPT !.status = "cancelled"], "cancel")
          /\ UNCHANGED <<file, todo, stamp>>
     ELSE Leave(p)
  /\ UNCHANGED <<stores, clock, used, cancelled>>

Tick(p) ==
  /\ pc[p] = "open"
  /\ todo' = [todo EXCEPT ![p] = Due(Log(p))]
  /\ Goto(p, "ticking")
  /\ UNCHANGED <<stores, clock, file, job, goal, stamp, used, cancelled>>

(* run_job, on the record that the tick read when it started.              *)
RunJob(p, r) ==
  /\ pc[p] = "ticking"
  /\ r \in todo[p]
  /\ \A q \in todo[p] : FirstLine(Log(p), r.id) <= FirstLine(Log(p), q.id)
  /\ todo' = [todo EXCEPT ![p] = @ \ {r}]
  /\ Save(p, [r EXCEPT !.status = "running", !.attempt = @ + 1], "start")
  /\ UNCHANGED <<stores, clock, file, stamp, used, cancelled>>

\* Mutant: a tick waits until no job is due.
EndTickWhenNoneDue(p) ==
  /\ pc[p] = "ticking"
  /\ todo[p] = {}
  /\ Due(Log(p)) = {}
  /\ Leave(p)
  /\ UNCHANGED <<stores, clock, used, cancelled>>

EndTick(p) ==
  /\ pc[p] = "ticking"
  /\ todo[p] = {}
  /\ Leave(p)
  /\ UNCHANGED <<stores, clock, used, cancelled>>

\* Mutant: one retry too many.
MayRetryOnceMore(r) == r.attempt <= r.retries + 1

MayRetry(r) == r.attempt <= r.retries

\* Mutant: a recurring job keeps its attempts.
FinishedKeepingAttempts(r) ==
  IF r.recurring
  THEN [r EXCEPT !.last = "done", !.status = "scheduled", !.next = clock + Interval]
  ELSE [r EXCEPT !.last = "done", !.status = "done"]

(* _finish_or_reschedule, and its counterpart for a run that failed.       *)
Finished(r) ==
  IF r.recurring
  THEN [r EXCEPT !.last = "done", !.status = "scheduled",
                 !.next = clock + Interval, !.attempt = 0]
  ELSE [r EXCEPT !.last = "done", !.status = "done"]

Failed(r) ==
  IF MayRetry(r)
  THEN [r EXCEPT !.last = "failed", !.status = "scheduled", !.next = clock]
  ELSE [r EXCEPT !.last = "failed", !.status = "failed"]

RunEnds(p) ==
  /\ pc[p] = "running"
  /\ \/ Save(p, Finished(job[p]), "finish")
     \/ Save(p, Failed(job[p]), "finish")
  /\ UNCHANGED <<stores, clock, file, todo, stamp, used, cancelled>>

-----------------------------------------------------------------------------
(* save(): read the largest sequence number, then append the line.         *)

Stamp(p) ==
  /\ pc[p] = "stamping"
  /\ stamp' = [stamp EXCEPT ![p] = NextSeq(Log(p))]
  /\ Goto(p, "writing")
  /\ UNCHANGED <<stores, clock, file, todo, job, goal, used, cancelled>>

Write(p) ==
  /\ pc[p] = "writing"
  /\ stores' = [stores EXCEPT ![file[p]] =
                  Append(@, [seq |-> stamp[p], job |-> job[p]])]
  /\ cancelled' = IF goal[p] = "cancel" THEN cancelled \cup {job[p].id} ELSE cancelled
  /\ \/ /\ goal[p] \in {"enqueue", "cancel"}
        /\ Leave(p)
     \/ /\ goal[p] = "start"
        /\ Goto(p, "running")
        /\ UNCHANGED <<file, todo, job, goal, stamp>>
     \/ /\ goal[p] = "finish"
        /\ Goto(p, "ticking")
        /\ UNCHANGED <<file, todo, job, goal, stamp>>
  /\ UNCHANGED <<clock, used>>

-----------------------------------------------------------------------------
(* The process dies, or the runtime raises out of run_job.                 *)
Crash(p) ==
  /\ pc[p] # "idle"
  /\ Leave(p)
  /\ UNCHANGED <<stores, clock, used, cancelled>>

Pass ==
  /\ clock < MaxClock
  /\ clock' = clock + 1
  /\ UNCHANGED <<stores, pc, file, todo, job, goal, stamp, used, cancelled>>

Step(p) ==
  \/ CreateStore(p)
  \/ \E j \in Jobs, b \in BOOLEAN, n \in 0..MaxRetries, at \in clock..MaxClock :
       Enqueue(p, j, b, n, at)
  \/ \E j \in Jobs : Cancel(p, j)
  \/ Tick(p)
  \/ \E r \in todo[p] : RunJob(p, r)
  \/ EndTick(p)
  \/ RunEnds(p)
  \/ Stamp(p)
  \/ Write(p)

Next ==
  \/ \E p \in Procs : FindStore(p) \/ Step(p) \/ Crash(p)
  \/ Pass

Spec == Init /\ [][Next]_vars

(* A command that runs goes on; nothing makes anybody run a command.       *)
FairSpec == Spec /\ \A p \in Procs : WF_vars(Step(p))

-----------------------------------------------------------------------------
(***************************************************************************)
(* Properties                                                              *)
(***************************************************************************)

TypeOK ==
  /\ stores \in Seq(Seq(Line))
  /\ clock \in Nat
  /\ pc \in [Procs -> Stages]
  /\ file \in [Procs -> Nat]
  /\ todo \in [Procs -> SUBSET JobRecord]
  /\ job \in [Procs -> JobRecord \cup {NoJob}]
  /\ goal \in [Procs -> Goals]
  /\ stamp \in [Procs -> Nat]
  /\ used \subseteq Jobs
  /\ cancelled \subseteq used

Over == {"done", "failed", "cancelled"}

(* What a job record may say, whatever processes raced or died: a job runs *)
(* at most once more than its retries, is failed only when they are used   *)
(* up, is scheduled again only after a failed run with retries left or a   *)
(* success that reset them, and a recurring job is never done (run_job).   *)
Consistent(r) ==
  /\ r.attempt <= r.retries + 1
  /\ r.status = "scheduled" =>
       r.attempt <= r.retries /\ (r.attempt > 0 => r.last = "failed")
  /\ r.status = "running" => r.attempt >= 1
  /\ r.status = "failed" => r.attempt = r.retries + 1 /\ r.last = "failed"
  /\ r.status = "done" => r.last = "done" /\ ~r.recurring

RecordsConsistent ==
  \A i \in 1..Len(stores) : \A k \in 1..Len(stores[i]) :
    Consistent(stores[i][k].job)

Holds(p, j) == job[p].id = j \/ \E r \in todo[p] : r.id = j

Settled(i, j) ==
  /\ j \in Known(stores[i])
  /\ Latest(stores[i], j).status \in Over
  /\ \A p \in Procs : ~Holds(p, j)

(* Once a job is done, failed or cancelled and no process works on a copy  *)
(* of it, nothing ever runs, retries or cancels it again (cancel,          *)
(* due_jobs; test_cancelled_job_is_never_due).                             *)
OverStaysOver ==
  [][\A i \in 1..Len(stores), j \in Jobs : Settled(i, j) => Settled(i, j)']_vars

(* A command that found its store ends: a tick runs out of due jobs        *)
(* (tick, run_job).                                                        *)
CommandsEnd == \A p \in Procs : pc[p] = "open" ~> pc[p] = "idle"

-----------------------------------------------------------------------------
(* What is only true while commands do not overlap.                        *)

(* all_jobs: "only the most recent state is considered current".           *)
LatestIsLastSaved ==
  \A i \in 1..Len(stores) : \A k \in 1..Len(stores[i]) :
    LET j == stores[i][k].job.id
    IN  (\A l \in (k + 1)..Len(stores[i]) : stores[i][l].job.id # j)
          => Latest(stores[i], j) = stores[i][k].job

(* While commands do not overlap, the newest store is the job table of     *)
(* JobLifecycle: every line appended is one legal step of one job.         *)
Current == IF stores = <<>> THEN <<>> ELSE stores[Len(stores)]

Table == INSTANCE JobLifecycle WITH
  table <- [j \in Known(Current) |->
              LET r == Latest(Current, j)
              IN  [recurring |-> r.recurring, retries |-> r.retries,
                   status |-> r.status, attempt |-> r.attempt]]

ImplementsLifecycle == Table!Spec


(* "a crashed scheduler process doesn't lose a pending retry": a job with  *)
(* attempts left that is recorded as running is being run by somebody.     *)
RetriesSurviveCrash ==
  \A i \in 1..Len(stores) : \A j \in Known(stores[i]) :
    LET r == Latest(stores[i], j)
    IN  r.status = "running" /\ r.attempt <= r.retries
          => \E p \in Procs : job[p].id = j

(* Records that a job may have, in files of the declared types.            *)
TableSound == TypeOK /\ RecordsConsistent
=============================================================================
