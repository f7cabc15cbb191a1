----------------------------- MODULE JobLifecycle -----------------------------
(***************************************************************************)
(* What the scheduler promises about jobs, without files, processes or     *)
(* time: one table in which a job is enqueued once, is started only when   *)
(* it is scheduled, ends each run with success, a retry or failure, and    *)
(* never leaves a final status.                                            *)
(***************************************************************************)
EXTENDS Naturals

CONSTANTS Jobs, MaxRetries

VARIABLE table   \* the jobs enqueued so far and where each of them stands

Put(j, r) ==
  table' = [k \in DOMAIN table \cup {j} |-> IF k = j THEN r ELSE table[k]]

Init == table = << >>

Enqueue(j) ==
  /\ j \notin DOMAIN table
  /\ \E recurring \in BOOLEAN, retries \in 0..MaxRetries :
       Put(j, [recurring |-> recurring, retries |-> retries,
               status |-> "scheduled", attempt |-> 0])

Cancel(j) ==
  /\ table[j].status \in {"scheduled", "running"}
  /\ Put(j, [table[j] EXCEPT !.status = "cancelled"])

Start(j) ==
  /\ table[j].status = "scheduled"
  /\ Put(j, [table[j] EXCEPT !.status = "running", !.attempt = @ + 1])

Succeed(j) ==
  /\ table[j].status = "running"
  /\ IF table[j].recurring
     THEN Put(j, [table[j] EXCEPT !.status = "scheduled", !.attempt = 0])
     ELSE Put(j, [table[j] EXCEPT !.status = "done"])

Retry(j) ==
  /\ table[j].status = "running"
  /\ table[j].attempt <= table[j].retries
  /\ Put(j, [table[j] EXCEPT !.status = "scheduled"])

Fail(j) ==
  /\ table[j].status = "running"
  /\ table[j].attempt = table[j].retries + 1
  /\ Put(j, [table[j] EXCEPT !.status = "failed"])

Next ==
  \/ \E j \in Jobs : Enqueue(j)
  \/ \E j \in DOMAIN table : Cancel(j) \/ Start(j) \/ Succeed(j) \/ Retry(j) \/ Fail(j)

Spec == Init /\ [][Next]_table
=============================================================================
