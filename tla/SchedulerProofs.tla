--------------------------- MODULE SchedulerProofs ---------------------------
(***************************************************************************)
(* Theorems of the job scheduler, for any number of processes, jobs,       *)
(* retries and saves.                                                      *)
(***************************************************************************)
EXTENDS Scheduler, SequenceTheorems, WellFoundedInduction, TLAPS

(***************************************************************************)
(* The largest sequence number: the CHOOSEs of the store have a witness.   *)
(***************************************************************************)

LEMMA LeastNat ==
  ASSUME NEW T \in SUBSET Nat, T # {}
  PROVE  \E x \in T : \A y \in T : x <= y
<1>1. PICK x \in T : \A y \in T : ~ (<<y, x>> \in OpToRel(<, Nat))
  BY NatLessThanWellFounded, WFMin
<1>2. \A y \in T : x <= y
  <2> TAKE y \in T
  <2>1. x \in Nat /\ y \in Nat
    OBVIOUS
  <2>2. ~(y < x)
    BY <1>1, <2>1 DEF OpToRel
  <2> QED BY <2>1, <2>2
<1> QED BY <1>2

LEMMA Bounded ==
  ASSUME NEW n \in Nat, NEW f \in [1..n -> Nat]
  PROVE  \E b \in Nat : \A k \in 1..n : f[k] <= b
<1> DEFINE T == {m \in 0..n : ~ \E b \in Nat : \A k \in 1..m : f[k] <= b}
<1>1. SUFFICES ASSUME n \in T PROVE FALSE
  OBVIOUS
<1> HIDE DEF T
<1>2. PICK x \in T : \A y \in T : x <= y
  <2>1. T \subseteq Nat
    BY DEF T
  <2>2. T \in SUBSET Nat /\ T # {}
    BY <1>1, <2>1
  <2> QED BY <2>2, LeastNat
<1>15. x \in 0..n /\ ~ \E b \in Nat : \A k \in 1..x : f[k] <= b
  BY DEF T
<1> USE DEF T
<1>3. x # 0
  <2> SUFFICES ASSUME x = 0 PROVE FALSE
    OBVIOUS
  <2>1. \A k \in 1..x : f[k] <= 0
    OBVIOUS
  <2> QED BY <2>1
<1>4. x - 1 \in 0..n /\ ~(x <= x - 1)
  BY <1>3
<1>5. PICK b \in Nat : \A k \in 1..(x - 1) : f[k] <= b
  BY <1>2, <1>4
<1>6. f[x] \in Nat
  BY <1>3
<1>7. \A k \in 1..x : f[k] <= b + f[x]
  <2> TAKE k \in 1..x
  <2>1. CASE k = x
    BY <1>6, <2>1
  <2>2. CASE k # x
    <3>1. k \in 1..(x - 1) /\ k \in 1..n
      BY <2>2
    <3>2. f[k] <= b /\ f[k] \in Nat
      BY <1>5, <3>1
    <3> QED BY <1>6, <3>2
  <2> QED BY <2>1, <2>2
<1>8. b + f[x] \in Nat
  BY <1>6
<1> QED BY <1>7, <1>8

(* Of the lines of a log some are first among those with the largest       *)
(* number.                                                                 *)
LEMMA FirstLargest ==
  ASSUME NEW n \in Nat, NEW f \in [1..n -> Nat], NEW S \in SUBSET (1..n), S # {}
  PROVE  \E i \in S : \A k \in S : f[k] < f[i] \/ (f[k] = f[i] /\ i <= k)
<1>1. PICK b \in Nat : \A k \in 1..n : f[k] <= b
  BY Bounded
<1> DEFINE D == {b - f[k] : k \in S}
<1>2. D \in SUBSET Nat /\ D # {}
  <2>1. \A k \in S : k \in 1..n /\ f[k] \in Nat /\ f[k] <= b
    BY <1>1
  <2>2. \A k \in S : b - f[k] \in Nat
    BY <2>1
  <2> QED BY <2>2
<1>3. PICK d \in D : \A y \in D : d <= y
  BY <1>2, LeastNat
<1>4. PICK m \in S : d = b - f[m]
  OBVIOUS
<1>5. \A k \in S : f[k] <= f[m]
  <2> TAKE k \in S
  <2>1. b - f[m] <= b - f[k]
    BY <1>3, <1>4
  <2>2. f[m] \in Nat /\ f[k] \in Nat
    OBVIOUS
  <2> QED BY <2>1, <2>2
<1> DEFINE E == {k \in S : f[k] = f[m]}
<1>6. E \in SUBSET Nat /\ E # {}
  <2>1. E \subseteq 1..n /\ m \in E
    OBVIOUS
  <2>2. 1..n \subseteq Nat
    OBVIOUS
  <2> QED BY <2>1, <2>2
<1>7. PICK i \in E : \A y \in E : i <= y
  BY <1>6, LeastNat
<1>8. \A k \in S : f[k] < f[i] \/ (f[k] = f[i] /\ i <= k)
  <2> TAKE k \in S
  <2>1. f[k] \in Nat /\ f[i] \in Nat /\ f[i] = f[m]
    BY <1>7
  <2>2. CASE f[k] = f[m]
    BY <1>7, <2>1, <2>2
  <2>3. CASE f[k] # f[m]
    BY <1>5, <2>1, <2>3
  <2> QED BY <2>2, <2>3
<1> QED BY <1>7, <1>8

LEMMA LineNumbers ==
  ASSUME NEW log \in Seq(Line)
  PROVE  /\ Len(log) \in Nat
         /\ \A i \in 1..Len(log) : log[i] \in Line /\ log[i].seq \in Nat /\ log[i].job \in JobRecord
<1>1. Len(log) \in Nat
  BY LenProperties
<1>2. \A i \in 1..Len(log) : log[i] \in Line
  BY ElementOfSeq
<1>3. \A l \in Line : l.seq \in Nat /\ l.job \in JobRecord
  BY DEF Line
<1> QED BY <1>1, <1>2, <1>3

(* What all_jobs() reads of a job is a line of the file.                   *)
LEMMA LatestIsALine ==
  ASSUME NEW log \in Seq(Line), NEW j, j \in Known(log)
  PROVE  \E i \in LinesOf(log, j) :
           /\ Latest(log, j) = log[i].job
           /\ \A k \in LinesOf(log, j) :
                log[k].seq < log[i].seq \/ (log[k].seq = log[i].seq /\ i <= k)
<1> DEFINE f == [i \in 1..Len(log) |-> log[i].seq]
<1>1. f \in [1..Len(log) -> Nat] /\ Len(log) \in Nat
  BY LineNumbers
<1>2. LinesOf(log, j) \in SUBSET (1..Len(log)) /\ LinesOf(log, j) # {}
  BY DEF LinesOf, Known
<1>3. \E i \in LinesOf(log, j) : \A k \in LinesOf(log, j) :
         f[k] < f[i] \/ (f[k] = f[i] /\ i <= k)
  BY <1>1, <1>2, FirstLargest
<1>4. \A i \in LinesOf(log, j) : f[i] = log[i].seq
  BY <1>2
<1> HIDE DEF f
<1>5. \E i \in LinesOf(log, j) : \A k \in LinesOf(log, j) :
         log[k].seq < log[i].seq \/ (log[k].seq = log[i].seq /\ i <= k)
  BY <1>3, <1>4
<1> QED BY <1>5 DEF Latest

LEMMA NextSeqType ==
  ASSUME NEW log \in Seq(Line)
  PROVE  /\ NextSeq(log) \in Nat
         /\ \A k \in 1..Len(log) : log[k].seq < NextSeq(log)
<1>1. CASE log = <<>>
  BY <1>1 DEF NextSeq
<1>2. CASE log # <<>>
  <2> DEFINE f == [i \in 1..Len(log) |-> log[i].seq]
  <2>1. f \in [1..Len(log) -> Nat] /\ Len(log) \in Nat /\ 1..Len(log) # {}
    <3>1. Len(log) # 0
      BY <1>2, EmptySeq
    <3> QED BY <3>1, LineNumbers
  <2>2. \E i \in 1..Len(log) : \A k \in 1..Len(log) :
           f[k] < f[i] \/ (f[k] = f[i] /\ i <= k)
    BY <2>1, FirstLargest
  <2>7. \A i \in 1..Len(log) : f[i] = log[i].seq
    OBVIOUS
  <2>4. \A i \in 1..Len(log) : log[i].seq \in Nat
    BY LineNumbers
  <2> HIDE DEF f
  <2>3. \E i \in 1..Len(log) : \A k \in 1..Len(log) : log[k].seq <= log[i].seq
    BY <2>2, <2>4, <2>7, SMTT(20)
  <2> DEFINE m == CHOOSE i \in 1..Len(log) :
                    \A k \in 1..Len(log) : log[k].seq <= log[i].seq
  <2>5. m \in 1..Len(log) /\ \A k \in 1..Len(log) : log[k].seq <= log[m].seq
    BY <2>3
  <2>6. NextSeq(log) = 1 + log[m].seq
    BY <1>2 DEF NextSeq
  <2> HIDE DEF m
  <2> QED BY <2>4, <2>5, <2>6
<1> QED BY <1>1, <1>2

(***************************************************************************)
(* The inductive invariant: every record, in a file or in a process, is    *)
(* one that a job may have.                                                *)
(***************************************************************************)

Good(r) == r \in JobRecord /\ r.id \in used /\ Consistent(r)

WithFile == {"open", "ticking", "stamping", "writing", "running"}
Working  == {"stamping", "writing", "running"}

FilesOpen == \A p \in Procs : pc[p] \in WithFile => file[p] \in 1..Len(stores)

LinesGood ==
  \A i \in 1..Len(stores) : \A k \in 1..Len(stores[i]) : Good(stores[i][k].job)

JobsGood ==
  \A p \in Procs :
    /\ pc[p] \in Working => Good(job[p])
    /\ pc[p] = "running" => job[p].status = "running"
    /\ pc[p] \in Working /\ goal[p] = "start" => job[p].status = "running"

DueGood == \A p \in Procs : \A r \in todo[p] : Good(r) /\ r.status = "scheduled"

IInv == TypeOK /\ FilesOpen /\ LinesGood /\ JobsGood /\ DueGood

LEMMA LogType ==
  ASSUME IInv, NEW p \in Procs, pc[p] \in WithFile
  PROVE  /\ Log(p) \in Seq(Line)
         /\ \A k \in 1..Len(Log(p)) : Good(Log(p)[k].job)
<1>1. file[p] \in 1..Len(stores) /\ stores \in Seq(Seq(Line))
  BY DEF IInv, FilesOpen, TypeOK
<1>2. stores[file[p]] \in Seq(Line)
  BY <1>1, ElementOfSeq
<1> QED BY <1>1, <1>2 DEF Log, IInv, LinesGood

LEMMA LatestGood ==
  ASSUME IInv, NEW p \in Procs, pc[p] \in WithFile, NEW j, j \in Known(Log(p))
  PROVE  Good(Latest(Log(p), j)) /\ Latest(Log(p), j).id = j
<1>1. PICK i \in LinesOf(Log(p), j) : Latest(Log(p), j) = Log(p)[i].job
  BY LogType, LatestIsALine
<1>2. i \in 1..Len(Log(p)) /\ Log(p)[i].job.id = j
  BY DEF LinesOf
<1> QED BY <1>1, <1>2, LogType

(* How the records change.                                                 *)
LEMMA CancelledGood ==
  ASSUME NEW r, Good(r)
  PROVE  Good([r EXCEPT !.status = "cancelled"])
BY DEF Good, JobRecord, Statuses, Consistent

LEMMA StartedGood ==
  ASSUME NEW r, Good(r), r.status = "scheduled"
  PROVE  LET s == [r EXCEPT !.status = "running", !.attempt = @ + 1]
         IN  Good(s) /\ s.status = "running"
<1> DEFINE s == [r EXCEPT !.status = "running", !.attempt = @ + 1]
<1>1. r \in JobRecord /\ r.attempt \in Nat /\ r.retries \in Nat
  BY SchedulerAssumption DEF Good, JobRecord
<1>2. s \in JobRecord
  <2>1. r.attempt + 1 \in Nat
    BY <1>1
  <2>2. \A n \in Nat : [r EXCEPT !.status = "running", !.attempt = n] \in JobRecord
    BY <1>1 DEF JobRecord, Statuses
  <2> QED BY <1>1, <2>1, <2>2
<1>3. /\ s.status = "running" /\ s.attempt = r.attempt + 1
      /\ s.retries = r.retries /\ s.id = r.id
  BY <1>1 DEF JobRecord
<1>4. r.attempt <= r.retries /\ r.id \in used
  BY DEF Good, Consistent
<1> HIDE DEF s
<1>5. Consistent(s)
  BY <1>1, <1>3, <1>4 DEF Consistent
<1>6. Good(s) /\ s.status = "running"
  BY <1>2, <1>3, <1>4, <1>5 DEF Good
<1> QED BY <1>6 DEF s

LEMMA FinishedGood ==
  ASSUME NEW r, Good(r), r.status = "running", clock \in Nat
  PROVE  Good(Finished(r)) /\ Good(Failed(r))
<1>1. /\ r \in JobRecord /\ r.attempt \in Nat /\ r.retries \in Nat /\ r.id \in used
      /\ r.attempt <= r.retries + 1
  BY SchedulerAssumption DEF Good, JobRecord, Consistent
<1>2. Good(Finished(r))
  <2> DEFINE s == Finished(r)
  <2>1. CASE r.recurring
    <3>1. s = [r EXCEPT !.last = "done", !.status = "scheduled",
                        !.next = clock + Interval, !.attempt = 0]
      BY <2>1 DEF Finished
    <3>2. s \in JobRecord
      <4>1. clock + Interval \in Nat
        BY SchedulerAssumption
      <4>2. \A n \in Nat :
              [r EXCEPT !.last = "done", !.status = "scheduled", !.next = n, !.attempt = 0]
                \in JobRecord
        BY <1>1 DEF JobRecord, Statuses, Outcomes
      <4> QED BY <3>1, <4>1, <4>2
    <3>3. s.status = "scheduled" /\ s.attempt = 0 /\ s.retries = r.retries /\ s.id = r.id
      BY <1>1, <3>1 DEF JobRecord
    <3> HIDE DEF s
    <3>4. Consistent(s)
      BY <1>1, <3>3 DEF Consistent
    <3>5. Good(s)
      BY <1>1, <3>2, <3>3, <3>4 DEF Good
    <3> QED BY <3>5 DEF s
  <2>2. CASE ~r.recurring
    <3>1. s = [r EXCEPT !.last = "done", !.status = "done"]
      BY <2>2 DEF Finished
    <3>2. s \in JobRecord
      BY <1>1, <3>1 DEF JobRecord, Statuses, Outcomes
    <3>3. /\ s.status = "done" /\ s.last = "done" /\ s.attempt = r.attempt
          /\ s.retries = r.retries /\ s.id = r.id /\ s.recurring = r.recurring
      BY <1>1, <3>1 DEF JobRecord
    <3> HIDE DEF s
    <3>4. Consistent(s)
      BY <1>1, <2>2, <3>3 DEF Consistent
    <3>5. Good(s)
      BY <1>1, <3>2, <3>3, <3>4 DEF Good
    <3> QED BY <3>5 DEF s
  <2> QED BY <2>1, <2>2
<1>3. Good(Failed(r))
  <2> DEFINE s == Failed(r)
  <2>1. CASE r.attempt <= r.retries
    <3>1. s = [r EXCEPT !.last = "failed", !.status = "scheduled", !.next = clock]
      BY <2>1 DEF Failed, MayRetry
    <3>2. s \in JobRecord
      BY <1>1, <3>1 DEF JobRecord, Statuses, Outcomes
    <3>3. /\ s.status = "scheduled" /\ s.last = "failed" /\ s.attempt = r.attempt
          /\ s.retries = r.retries /\ s.id = r.id
      BY <1>1, <3>1 DEF JobRecord
    <3> HIDE DEF s
    <3>4. Consistent(s)
      BY <1>1, <2>1, <3>3 DEF Consistent
    <3>5. Good(s)
      BY <1>1, <3>2, <3>3, <3>4 DEF Good
    <3> QED BY <3>5 DEF s
  <2>2. CASE ~(r.attempt <= r.retries)
    <3>1. s = [r EXCEPT !.last = "failed", !.status = "failed"]
      BY <2>2 DEF Failed, MayRetry
    <3>2. s \in JobRecord
      BY <1>1, <3>1 DEF JobRecord, Statuses, Outcomes
    <3>3. /\ s.status = "failed" /\ s.last = "failed" /\ s.attempt = r.attempt
          /\ s.retries = r.retries /\ s.id = r.id
      BY <1>1, <3>1 DEF JobRecord
    <3>6. s.attempt = s.retries + 1
      BY <1>1, <2>2, <3>3
    <3> HIDE DEF s
    <3>4. Consistent(s)
      BY <1>1, <3>3, <3>6 DEF Consistent
    <3>5. Good(s)
      BY <1>1, <3>2, <3>3, <3>4 DEF Good
    <3> QED BY <3>5 DEF s
  <2> QED BY <2>1, <2>2
<1> QED BY <1>2, <1>3

LEMMA InitIInv == Init => IInv
<1> SUFFICES ASSUME Init PROVE IInv
  OBVIOUS
<1>1. stores = <<>> /\ stores \in Seq(Seq(Line)) /\ Len(stores) = 0
  BY EmptySeq DEF Init
<1>2. TypeOK
  BY <1>1 DEF Init, TypeOK, Stages, Goals
<1>3. FilesOpen /\ JobsGood /\ DueGood
  BY DEF Init, FilesOpen, JobsGood, DueGood, WithFile, Working
<1>4. LinesGood
  BY <1>1 DEF LinesGood
<1> QED BY <1>2, <1>3, <1>4 DEF IInv

Fits(r, ids) == r \in JobRecord /\ r.id \in ids /\ Consistent(r)

(* A step of one process that changes no file keeps the invariant if what  *)
(* the process then holds fits.                                            *)
LEMMA LocalStep ==
  ASSUME IInv, TypeOK', NEW p \in Procs, UNCHANGED stores, used \subseteq used',
         \A q \in Procs \ {p} :
           /\ pc'[q] = pc[q] /\ file'[q] = file[q] /\ todo'[q] = todo[q]
           /\ job'[q] = job[q] /\ goal'[q] = goal[q],
         pc'[p] \in WithFile => file'[p] \in 1..Len(stores),
         \A r \in todo'[p] : Fits(r, used') /\ r.status = "scheduled",
         pc'[p] \in Working => Fits(job'[p], used'),
         pc'[p] = "running" \/ (pc'[p] \in Working /\ goal'[p] = "start")
           => job'[p].status = "running"
  PROVE  IInv'
<1> USE DEF IInv
<1>1. \A r : Fits(r, used) => Fits(r, used')
  BY DEF Fits
<1>2. \A r : (Good(r) <=> Fits(r, used)) /\ (Good(r)' <=> Fits(r, used'))
  BY DEF Good, Fits
<1>3. FilesOpen'
  <2> SUFFICES ASSUME NEW q \in Procs, pc'[q] \in WithFile
               PROVE  file'[q] \in 1..Len(stores')
    BY DEF FilesOpen
  <2>1. CASE q = p
    BY <2>1
  <2>2. CASE q # p
    BY <2>2 DEF FilesOpen
  <2> QED BY <2>1, <2>2
<1>4. LinesGood'
  <2> SUFFICES ASSUME NEW i \in 1..Len(stores), NEW k \in 1..Len(stores[i])
               PROVE  Fits(stores[i][k].job, used')
    BY <1>2 DEF LinesGood, Good, Fits
  <2> QED BY <1>1, <1>2 DEF LinesGood
<1>5. JobsGood'
  <2> SUFFICES ASSUME NEW q \in Procs
               PROVE  /\ pc'[q] \in Working => Fits(job'[q], used')
                      /\ pc'[q] = "running" => job'[q].status = "running"
                      /\ pc'[q] \in Working /\ goal'[q] = "start"
                           => job'[q].status = "running"
    BY DEF JobsGood, Good, Fits
  <2>1. CASE q = p
    BY <2>1
  <2>2. CASE q # p
    BY <2>2, <1>1, <1>2 DEF JobsGood
  <2> QED BY <2>1, <2>2
<1>6. DueGood'
  <2> SUFFICES ASSUME NEW q \in Procs, NEW r \in todo'[q]
               PROVE  Fits(r, used') /\ r.status = "scheduled"
    BY DEF DueGood, Good, Fits
  <2>1. CASE q = p
    BY <2>1
  <2>2. CASE q # p
    BY <2>2, <1>1, <1>2 DEF DueGood
  <2> QED BY <2>1, <2>2
<1> QED BY <1>3, <1>4, <1>5, <1>6

LEMMA LeaveStep ==
  ASSUME IInv, NEW p \in Procs, Leave(p), UNCHANGED <<stores, clock, used, cancelled>>
  PROVE  IInv'
<1>1. TypeOK'
  BY DEF IInv, TypeOK, Leave, Goto, Stages, Goals
<1>2. /\ pc'[p] = "idle" /\ todo'[p] = {}
      /\ \A q \in Procs \ {p} :
           /\ pc'[q] = pc[q] /\ file'[q] = file[q] /\ todo'[q] = todo[q]
           /\ job'[q] = job[q] /\ goal'[q] = goal[q]
  BY DEF IInv, TypeOK, Leave, Goto
<1>3. pc'[p] \notin WithFile /\ pc'[p] \notin Working
  BY <1>2 DEF WithFile, Working
<1> QED BY <1>1, <1>2, <1>3, LocalStep DEF Working

(* save() begins with a record that fits.                                  *)
LEMMA SaveStep ==
  ASSUME IInv, NEW p \in Procs, pc[p] \in WithFile, NEW r, NEW g \in Goals,
         Save(p, r, g), UNCHANGED <<stores, clock, file, stamp, cancelled>>,
         used \subseteq used', used' \subseteq Jobs,
         todo' \in [Procs -> SUBSET JobRecord],
         \A q \in Procs : todo'[q] \subseteq todo[q],
         \A q \in Procs \ {p} : todo'[q] = todo[q],
         Fits(r, used'),
         g = "start" => r.status = "running"
  PROVE  IInv'
<1>1. TypeOK'
  BY DEF IInv, TypeOK, Save, Goto, Stages, Goals, Fits
<1>2. /\ pc'[p] = "stamping" /\ job'[p] = r /\ goal'[p] = g
      /\ \A q \in Procs \ {p} :
           /\ pc'[q] = pc[q] /\ file'[q] = file[q] /\ todo'[q] = todo[q]
           /\ job'[q] = job[q] /\ goal'[q] = goal[q]
  BY DEF IInv, TypeOK, Save, Goto
<1>3. file'[p] \in 1..Len(stores)
  BY DEF IInv, FilesOpen
<1>4. \A s \in todo'[p] : Fits(s, used') /\ s.status = "scheduled"
  BY DEF IInv, DueGood, Good, Fits
<1> QED BY <1>1, <1>2, <1>3, <1>4, LocalStep

LEMMA FindStoreStep == ASSUME IInv, NEW p \in Procs, FindStore(p) PROVE IInv'
<1>8. Len(stores) \in Nat
  BY LenProperties DEF IInv, TypeOK
<1>1. TypeOK'
  <2>1. CASE stores = <<>>
    BY <2>1 DEF IInv, TypeOK, FindStore, Goto, Stages
  <2>2. CASE stores # <<>>
    BY <1>8, <2>2 DEF IInv, TypeOK, FindStore, Goto, Stages
  <2> QED BY <2>1, <2>2
<1>2. /\ pc'[p] \in {"missing", "open"}
      /\ pc'[p] = "open" => stores # <<>> /\ file'[p] = Len(stores)
      /\ todo'[p] = todo[p]
      /\ \A q \in Procs \ {p} :
           /\ pc'[q] = pc[q] /\ file'[q] = file[q] /\ todo'[q] = todo[q]
           /\ job'[q] = job[q] /\ goal'[q] = goal[q]
  BY DEF IInv, TypeOK, FindStore, Goto
<1>3. stores # <<>> => Len(stores) \in 1..Len(stores)
  BY LenProperties, EmptySeq DEF IInv, TypeOK
<1>4. \A r \in todo'[p] : Fits(r, used') /\ r.status = "scheduled"
  BY <1>2 DEF IInv, DueGood, Good, Fits, FindStore
<1>5. pc'[p] \in WithFile => file'[p] \in 1..Len(stores)
  BY <1>2, <1>3 DEF WithFile
<1>6. pc'[p] \notin Working /\ pc'[p] # "running"
  BY <1>2 DEF Working
<1>7. UNCHANGED <<stores, used>>
  BY DEF FindStore
<1> QED BY <1>1, <1>2, <1>4, <1>5, <1>6, <1>7, LocalStep

LEMMA EnqueueStep ==
  ASSUME IInv, NEW p \in Procs, NEW j \in Jobs, NEW b \in BOOLEAN,
         NEW n \in 0..MaxRetries, NEW at \in clock..MaxClock, Enqueue(p, j, b, n, at)
  PROVE  IInv'
<1> DEFINE r == NewJob(j, b, n, at)
<1>1. used \subseteq used' /\ used' \subseteq Jobs /\ j \in used'
  BY DEF Enqueue, IInv, TypeOK
<1>2. at \in Nat /\ n \in Nat
  BY SchedulerAssumption DEF IInv, TypeOK
<1>3. Fits(r, used')
  BY <1>1, <1>2, SchedulerAssumption DEF Fits, NewJob, JobRecord, Statuses, Outcomes, Consistent
<1>4. pc[p] \in WithFile /\ "enqueue" \in Goals
  BY DEF Enqueue, WithFile, Goals
<1>5. Save(p, r, "enqueue") /\ UNCHANGED <<stores, clock, file, todo, stamp, cancelled>>
  BY DEF Enqueue
<1>6. todo' \in [Procs -> SUBSET JobRecord] /\ \A q \in Procs : todo'[q] = todo[q]
  BY <1>5 DEF IInv, TypeOK
<1> HIDE DEF r
<1> QED BY <1>1, <1>3, <1>4, <1>5, <1>6, SaveStep

LEMMA CancelStep == ASSUME IInv, NEW p \in Procs, NEW j \in Jobs, Cancel(p, j) PROVE IInv'
<1> DEFINE r == Latest(Log(p), j)
<1>1. pc[p] \in WithFile /\ "cancel" \in Goals
  BY DEF Cancel, WithFile, Goals
<1>2. CASE j \in Known(Log(p)) /\ Pending(r)
  <2>1. Good(r)
    BY <1>1, <1>2, LatestGood
  <2>2. Good([r EXCEPT !.status = "cancelled"])
    BY <2>1, CancelledGood
  <2> DEFINE c == [r EXCEPT !.status = "cancelled"]
  <2>3. Save(p, c, "cancel") /\ UNCHANGED <<stores, clock, file, todo, stamp, used, cancelled>>
    BY <1>2 DEF Cancel
  <2>4. Fits(c, used')
    BY <2>2, <2>3 DEF Good, Fits
  <2>5. /\ todo' \in [Procs -> SUBSET JobRecord] /\ \A q \in Procs : todo'[q] = todo[q]
        /\ used \subseteq used' /\ used' \subseteq Jobs
    BY <2>3 DEF IInv, TypeOK
  <2> HIDE DEF c
  <2> QED BY <1>1, <2>3, <2>4, <2>5, SaveStep
<1>3. CASE ~(j \in Known(Log(p)) /\ Pending(r))
  BY <1>3, LeaveStep DEF Cancel
<1> QED BY <1>2, <1>3

LEMMA TickStep == ASSUME IInv, NEW p \in Procs, Tick(p) PROVE IInv'
<1>1. pc[p] \in WithFile
  BY DEF Tick, WithFile
<1>2. \A r \in Due(Log(p)) : Good(r) /\ r.status = "scheduled"
  BY <1>1, LatestGood DEF Due
<1>3. Due(Log(p)) \subseteq JobRecord
  BY <1>2 DEF Good
<1>4. TypeOK'
  BY <1>3 DEF IInv, TypeOK, Tick, Goto, Stages
<1>5. /\ pc'[p] = "ticking" /\ todo'[p] = Due(Log(p))
      /\ \A q \in Procs \ {p} :
           /\ pc'[q] = pc[q] /\ file'[q] = file[q] /\ todo'[q] = todo[q]
           /\ job'[q] = job[q] /\ goal'[q] = goal[q]
      /\ UNCHANGED <<stores, used>>
  BY DEF IInv, TypeOK, Tick, Goto
<1>6. file'[p] \in 1..Len(stores)
  BY <1>1 DEF IInv, FilesOpen, Tick
<1>7. \A r \in todo'[p] : Fits(r, used') /\ r.status = "scheduled"
  BY <1>2, <1>5 DEF Good, Fits
<1> QED BY <1>4, <1>5, <1>6, <1>7, LocalStep DEF Working

LEMMA RunJobStep ==
  ASSUME IInv, NEW p \in Procs, NEW r \in todo[p], RunJob(p, r)
  PROVE  IInv'
<1> DEFINE s == [r EXCEPT !.status = "running", !.attempt = @ + 1]
<1>1. Good(r) /\ r.status = "scheduled"
  BY DEF IInv, DueGood
<1>2. Good(s) /\ s.status = "running"
  BY <1>1, StartedGood
<1>3. pc[p] \in WithFile /\ "start" \in Goals
  BY DEF RunJob, WithFile, Goals
<1>4. /\ Save(p, s, "start") /\ UNCHANGED <<stores, clock, file, stamp, used, cancelled>>
      /\ todo' = [todo EXCEPT ![p] = @ \ {r}]
  BY DEF RunJob
<1> HIDE DEF s
<1>5. Fits(s, used')
  BY <1>2, <1>4 DEF Good, Fits
<1>6. /\ todo' \in [Procs -> SUBSET JobRecord]
      /\ \A q \in Procs : todo'[q] \subseteq todo[q]
      /\ \A q \in Procs \ {p} : todo'[q] = todo[q]
      /\ used \subseteq used' /\ used' \subseteq Jobs
  BY <1>4 DEF IInv, TypeOK
<1> QED BY <1>2, <1>3, <1>4, <1>5, <1>6, SaveStep

LEMMA RunEndsStep == ASSUME IInv, NEW p \in Procs, RunEnds(p) PROVE IInv'
<1>1. pc[p] = "running" /\ pc[p] \in WithFile /\ pc[p] \in Working /\ "finish" \in Goals
  BY DEF RunEnds, WithFile, Working, Goals
<1>2. Good(job[p]) /\ job[p].status = "running" /\ clock \in Nat
  BY <1>1 DEF IInv, JobsGood, TypeOK
<1>3. Good(Finished(job[p])) /\ Good(Failed(job[p]))
  BY <1>2, FinishedGood
<1>4. PICK r \in {Finished(job[p]), Failed(job[p])} : Save(p, r, "finish")
  BY DEF RunEnds
<1>5. UNCHANGED <<stores, clock, file, todo, stamp, used, cancelled>>
  BY DEF RunEnds
<1>6. Fits(r, used')
  BY <1>3, <1>5 DEF Good, Fits
<1>7. /\ todo' \in [Procs -> SUBSET JobRecord] /\ \A q \in Procs : todo'[q] = todo[q]
      /\ used \subseteq used' /\ used' \subseteq Jobs
  BY <1>5 DEF IInv, TypeOK
<1> QED BY <1>1, <1>4, <1>5, <1>6, <1>7, SaveStep

LEMMA StampStep == ASSUME IInv, NEW p \in Procs, Stamp(p) PROVE IInv'
<1>1. pc[p] \in WithFile /\ pc[p] \in Working
  BY DEF Stamp, WithFile, Working
<1>2. NextSeq(Log(p)) \in Nat
  BY <1>1, LogType, NextSeqType
<1>3. TypeOK'
  BY <1>2 DEF IInv, TypeOK, Stamp, Goto, Stages
<1>4. /\ pc'[p] = "writing" /\ todo'[p] = todo[p]
      /\ job'[p] = job[p] /\ goal'[p] = goal[p] /\ file'[p] = file[p]
      /\ \A q \in Procs \ {p} :
           /\ pc'[q] = pc[q] /\ file'[q] = file[q] /\ todo'[q] = todo[q]
           /\ job'[q] = job[q] /\ goal'[q] = goal[q]
      /\ UNCHANGED <<stores, used>>
  BY DEF IInv, TypeOK, Stamp, Goto
<1>5. file'[p] \in 1..Len(stores)
  BY <1>1, <1>4 DEF IInv, FilesOpen
<1>6. \A r \in todo'[p] : Fits(r, used') /\ r.status = "scheduled"
  BY <1>4 DEF IInv, DueGood, Good, Fits
<1>7. Fits(job'[p], used')
  BY <1>1, <1>4 DEF IInv, JobsGood, Good, Fits
<1>8. goal'[p] = "start" => job'[p].status = "running"
  BY <1>1, <1>4 DEF IInv, JobsGood
<1> QED BY <1>3, <1>4, <1>5, <1>6, <1>7, <1>8, LocalStep

(* A new, empty job session.                                               *)
LEMMA CreateStoreStep == ASSUME IInv, NEW p \in Procs, CreateStore(p) PROVE IInv'
<1>1. /\ stores' = Append(stores, <<>>) /\ <<>> \in Seq(Line)
      /\ stores \in Seq(Seq(Line)) /\ Len(stores) \in Nat
  BY LenProperties, EmptySeq DEF CreateStore, IInv, TypeOK
<1>2. /\ stores' \in Seq(Seq(Line))
      /\ Len(stores') = Len(stores) + 1
      /\ \A i \in 1..Len(stores) : stores'[i] = stores[i]
      /\ stores'[Len(stores) + 1] = <<>>
  BY <1>1, AppendProperties
<1>3. TypeOK'
  BY <1>1, <1>2 DEF IInv, TypeOK, CreateStore, Goto, Stages
<1>4. /\ pc'[p] = "open" /\ file'[p] = Len(stores) + 1 /\ todo' = todo
      /\ job' = job /\ goal' = goal /\ used' = used
      /\ \A q \in Procs \ {p} : pc'[q] = pc[q] /\ file'[q] = file[q]
  BY DEF IInv, TypeOK, CreateStore, Goto
<1>5. FilesOpen'
  <2> SUFFICES ASSUME NEW q \in Procs, pc'[q] \in WithFile
               PROVE  file'[q] \in 1..Len(stores')
    BY DEF FilesOpen
  <2>1. CASE q = p
    BY <2>1, <1>1, <1>2, <1>4
  <2>2. CASE q # p
    BY <2>2, <1>1, <1>2, <1>4 DEF IInv, FilesOpen
  <2> QED BY <2>1, <2>2
<1>6. LinesGood'
  <2> SUFFICES ASSUME NEW i \in 1..Len(stores'), NEW k \in 1..Len(stores'[i])
               PROVE  Good(stores'[i][k].job)
    BY <1>4 DEF LinesGood, Good, Fits
  <2>1. CASE i \in 1..Len(stores)
    BY <2>1, <1>2 DEF IInv, LinesGood
  <2>2. CASE i = Len(stores) + 1
    BY <2>2, <1>2
  <2> QED BY <2>1, <2>2, <1>1, <1>2
<1>7. JobsGood'
  <2> SUFFICES ASSUME NEW q \in Procs
               PROVE  /\ pc'[q] \in Working => Good(job[q])
                      /\ pc'[q] = "running" => job[q].status = "running"
                      /\ pc'[q] \in Working /\ goal[q] = "start"
                           => job[q].status = "running"
    BY <1>4 DEF JobsGood, Good
  <2>1. CASE q = p
    BY <2>1, <1>4 DEF Working
  <2>2. CASE q # p
    BY <2>2, <1>4 DEF IInv, JobsGood
  <2> QED BY <2>1, <2>2
<1>8. DueGood'
  BY <1>4 DEF IInv, DueGood, Good
<1> QED BY <1>3, <1>5, <1>6, <1>7, <1>8 DEF IInv

(* The append.                                                             *)
LEMMA WriteStep == ASSUME IInv, NEW p \in Procs, Write(p) PROVE IInv'
<1> DEFINE f == file[p]
           l == [seq |-> stamp[p], job |-> job[p]]
<1>1. /\ pc[p] \in WithFile /\ pc[p] \in Working
      /\ stores' = [stores EXCEPT ![f] = Append(@, l)]
      /\ UNCHANGED <<clock, used>>
  BY DEF Write, WithFile, Working
<1>2. /\ f \in 1..Len(stores) /\ stores \in Seq(Seq(Line)) /\ Len(stores) \in Nat
      /\ stores[f] \in Seq(Line)
  <2>1. f \in 1..Len(stores) /\ stores \in Seq(Seq(Line))
    BY <1>1 DEF IInv, FilesOpen, TypeOK
  <2> QED BY <2>1, ElementOfSeq, LenProperties
<1>3. Good(job[p]) /\ l \in Line /\ l.job = job[p]
  BY <1>1 DEF IInv, JobsGood, Good, TypeOK, Line
<1> HIDE DEF l
<1>4. /\ Append(stores[f], l) \in Seq(Line)
      /\ Len(Append(stores[f], l)) = Len(stores[f]) + 1
      /\ \A k \in 1..Len(stores[f]) : Append(stores[f], l)[k] = stores[f][k]
      /\ Append(stores[f], l)[Len(stores[f]) + 1] = l
  BY <1>2, <1>3, AppendProperties
<1>5. /\ stores' \in Seq(Seq(Line)) /\ Len(stores') = Len(stores)
      /\ stores'[f] = Append(stores[f], l)
      /\ \A i \in 1..Len(stores) : i # f => stores'[i] = stores[i]
  BY <1>1, <1>2, <1>4, ExceptSeq
<1>6. /\ pc'[p] \in {"idle", "running", "ticking"}
      /\ pc'[p] = "running" => goal[p] = "start"
      /\ pc'[p] # "idle" => file'[p] = f
      /\ pc'[p] # "idle" => job'[p] = job[p]
      /\ todo'[p] \subseteq todo[p]
      /\ \A q \in Procs \ {p} :
           /\ pc'[q] = pc[q] /\ file'[q] = file[q] /\ todo'[q] = todo[q]
           /\ job'[q] = job[q] /\ goal'[q] = goal[q]
  <2>1. CASE goal[p] \in {"enqueue", "cancel"} /\ Leave(p)
    BY <2>1 DEF Leave, Goto, IInv, TypeOK
  <2>2. CASE /\ goal[p] = "start" /\ Goto(p, "running")
             /\ UNCHANGED <<file, todo, job, goal, stamp>>
    BY <2>2 DEF Goto, IInv, TypeOK
  <2>3. CASE /\ goal[p] = "finish" /\ Goto(p, "ticking")
             /\ UNCHANGED <<file, todo, job, goal, stamp>>
    BY <2>3 DEF Goto, IInv, TypeOK
  <2> QED BY <2>1, <2>2, <2>3 DEF Write
<1>7. TypeOK'
  <2>1. cancelled' \subseteq used'
    BY <1>1, <1>3 DEF Write, IInv, TypeOK, Good
  <2>2. /\ pc' \in [Procs -> Stages] /\ file' \in [Procs -> Nat]
        /\ todo' \in [Procs -> SUBSET JobRecord]
        /\ job' \in [Procs -> JobRecord \cup {NoJob}]
        /\ goal' \in [Procs -> Goals] /\ stamp' \in [Procs -> Nat]
    <3>1. CASE goal[p] \in {"enqueue", "cancel"} /\ Leave(p)
      BY <3>1 DEF Leave, Goto, IInv, TypeOK, Stages, Goals
    <3>2. CASE /\ goal[p] = "start" /\ Goto(p, "running")
               /\ UNCHANGED <<file, todo, job, goal, stamp>>
      BY <3>2 DEF Goto, IInv, TypeOK, Stages
    <3>3. CASE /\ goal[p] = "finish" /\ Goto(p, "ticking")
               /\ UNCHANGED <<file, todo, job, goal, stamp>>
      BY <3>3 DEF Goto, IInv, TypeOK, Stages
    <3> QED BY <3>1, <3>2, <3>3 DEF Write
  <2> QED BY <1>1, <1>5, <2>1, <2>2 DEF IInv, TypeOK
<1>8. FilesOpen'
  <2> SUFFICES ASSUME NEW q \in Procs, pc'[q] \in WithFile
               PROVE  file'[q] \in 1..Len(stores')
    BY DEF FilesOpen
  <2>1. CASE q = p
    BY <2>1, <1>2, <1>5, <1>6 DEF WithFile
  <2>2. CASE q # p
    BY <2>2, <1>5, <1>6 DEF IInv, FilesOpen
  <2> QED BY <2>1, <2>2
<1>9. LinesGood'
  <2> SUFFICES ASSUME NEW i \in 1..Len(stores), NEW k \in 1..Len(stores'[i])
               PROVE  Good(stores'[i][k].job)
    BY <1>1, <1>5, SMTT(20) DEF LinesGood, Good
  <2>1. CASE i # f
    BY <2>1, <1>5 DEF IInv, LinesGood
  <2>2. CASE i = f /\ k \in 1..Len(stores[f])
    <3>1. stores'[i][k] = stores[f][k]
      BY <2>2, <1>4, <1>5
    <3> QED BY <2>2, <3>1 DEF IInv, LinesGood
  <2>3. CASE i = f /\ k \notin 1..Len(stores[f])
    <3>1. Len(stores[f]) \in Nat
      BY <1>2, LenProperties
    <3>2. k = Len(stores[f]) + 1
      BY <2>3, <1>4, <1>5, <3>1
    <3>3. stores'[i][k] = l
      BY <2>3, <1>4, <1>5, <3>2
    <3> QED BY <1>3, <3>3
  <2> QED BY <2>1, <2>2, <2>3
<1>10. JobsGood'
  <2> SUFFICES ASSUME NEW q \in Procs
               PROVE  /\ pc'[q] \in Working => Good(job'[q])
                      /\ pc'[q] = "running" => job'[q].status = "running"
                      /\ pc'[q] \in Working /\ goal'[q] = "start"
                           => job'[q].status = "running"
    BY <1>1 DEF JobsGood, Good
  <2>1. CASE q = p
    <3>1. pc'[p] \in Working => pc'[p] = "running"
      BY <1>6 DEF Working
    <3>2. goal[p] = "start" => job[p].status = "running"
      BY <1>1 DEF IInv, JobsGood
    <3> QED BY <2>1, <3>1, <3>2, <1>3, <1>6
  <2>2. CASE q # p
    BY <2>2, <1>6 DEF IInv, JobsGood
  <2> QED BY <2>1, <2>2
<1>11. DueGood'
  <2> SUFFICES ASSUME NEW q \in Procs, NEW r \in todo'[q]
               PROVE  Good(r) /\ r.status = "scheduled"
    BY <1>1 DEF DueGood, Good
  <2>1. r \in todo[q]
    BY <1>6
  <2> QED BY <2>1 DEF IInv, DueGood
<1> QED BY <1>7, <1>8, <1>9, <1>10, <1>11 DEF IInv

LEMMA IInvStep == IInv /\ [Next]_vars => IInv'
<1> SUFFICES ASSUME IInv, [Next]_vars PROVE IInv'
  OBVIOUS
<1>1. ASSUME NEW p \in Procs, FindStore(p) PROVE IInv'
  BY <1>1, FindStoreStep
<1>2. ASSUME NEW p \in Procs, Step(p) PROVE IInv'
  <2>1. CASE CreateStore(p)
    BY <2>1, CreateStoreStep
  <2>2. CASE \E j \in Jobs, b \in BOOLEAN, n \in 0..MaxRetries, at \in clock..MaxClock :
               Enqueue(p, j, b, n, at)
    BY <2>2, EnqueueStep
  <2>3. CASE \E j \in Jobs : Cancel(p, j)
    BY <2>3, CancelStep
  <2>4. CASE Tick(p)
    BY <2>4, TickStep
  <2>5. CASE \E r \in todo[p] : RunJob(p, r)
    BY <2>5, RunJobStep
  <2>6. CASE EndTick(p)
    BY <2>6, LeaveStep DEF EndTick
  <2>7. CASE RunEnds(p)
    BY <2>7, RunEndsStep
  <2>8. CASE Stamp(p)
    BY <2>8, StampStep
  <2>9. CASE Write(p)
    BY <2>9, WriteStep
  <2> QED BY <1>2, <2>1, <2>2, <2>3, <2>4, <2>5, <2>6, <2>7, <2>8, <2>9 DEF Step
<1>3. ASSUME NEW p \in Procs, Crash(p) PROVE IInv'
  BY <1>3, LeaveStep DEF Crash
<1>4. CASE Pass
  BY <1>4 DEF Pass, IInv, TypeOK, FilesOpen, LinesGood, JobsGood, DueGood, Good, Consistent
<1>5. CASE UNCHANGED vars
  BY <1>5 DEF vars, IInv, TypeOK, FilesOpen, LinesGood, JobsGood, DueGood, Good, Consistent
<1> QED BY <1>1, <1>2, <1>3, <1>4, <1>5 DEF Next

LEMMA IInvAlways == Spec => []IInv
BY InitIInv, IInvStep, PTL DEF Spec

(* Every value stays in its type; in particular only jobs that were        *)
(* enqueued are ever cancelled.                                            *)
THEOREM TypeCorrect == Spec => []TypeOK
<1>1. IInv => TypeOK
  BY DEF IInv
<1> QED BY <1>1, IInvAlways, PTL

(* Whatever commands overlap or die, and however their saves interleave,   *)
(* the files hold only records that a job may have: attempts within the    *)
(* retries, failed only when they are used up, no recurring job done.      *)
THEOREM RecordsAlwaysConsistent == Spec => []RecordsConsistent
<1>1. IInv => RecordsConsistent
  BY DEF IInv, LinesGood, Good, RecordsConsistent
<1> QED BY <1>1, IInvAlways, PTL

(* The run's invariant: types and records together.                        *)
THEOREM TableAlwaysSound == Spec => []TableSound
<1>1. TypeOK /\ RecordsConsistent => TableSound
  BY DEF TableSound
<1> QED BY <1>1, TypeCorrect, RecordsAlwaysConsistent, PTL

(***************************************************************************)
(* A job that is over stays over.  What a process reads, it reads from the *)
(* file it has open, so a job could come back if its records were in two   *)
(* files, or in a file and in a process that has another one open.  The    *)
(* invariant is that each job has one home: the one file with lines of it, *)
(* which is also the one that every process with a copy has open.          *)
(***************************************************************************)

At(j, i) ==
  \/ i \in 1..Len(stores) /\ j \in Known(stores[i])
  \/ \E p \in Procs : Holds(p, j) /\ file[p] = i

Home ==
  \A j \in Jobs, i \in Nat :
    At(j, i) => j \in used /\ \A k \in Nat : At(j, k) => i = k

NoCopies ==
  \A p \in Procs :
    pc[p] \in {"idle", "missing", "open"} => job[p] = NoJob /\ todo[p] = {}

HInv == IInv /\ Home /\ NoCopies

KeepsSettled ==
  \A i \in 1..Len(stores), j \in Jobs : Settled(i, j) => Settled(i, j)'

(* The state after a step: which jobs p then holds.                        *)
HoldsNext(p, j) == job'[p].id = j \/ \E r \in todo'[p] : r.id = j

(* p comes by copies of jobs in three ways only: it has one already, it    *)
(* reads one that is not over from its file, or the job is new.            *)
Local(p) ==
  /\ stores' = stores
  /\ used \subseteq used'
  /\ \A q \in Procs \ {p} : file'[q] = file[q] /\ todo'[q] = todo[q] /\ job'[q] = job[q]
  /\ \A j \in Jobs : HoldsNext(p, j) =>
       /\ file'[p] = file[p]
       /\ \/ Holds(p, j)
          \/ /\ pc[p] \in WithFile
             /\ j \in Known(Log(p))
             /\ Latest(Log(p), j).status \notin Over
          \/ j \notin used /\ j \in used'

LEMMA HomeKept ==
  ASSUME Home, used \subseteq used', NEW f,
         \A j \in Jobs, i \in Nat :
           At(j, i)' => At(j, i) \/ (i = f /\ j \notin used /\ j \in used')
  PROVE  Home'
<1> SUFFICES ASSUME NEW j \in Jobs, NEW i \in Nat, At(j, i)'
             PROVE  j \in used' /\ \A k \in Nat : At(j, k)' => i = k
  BY DEF Home
<1>1. CASE At(j, i)
  BY <1>1 DEF Home
<1>2. CASE i = f /\ j \notin used /\ j \in used'
  BY <1>2 DEF Home
<1> QED BY <1>1, <1>2

LEMMA LocalKeeps ==
  ASSUME HInv, NEW p \in Procs, Local(p)
  PROVE  Home' /\ KeepsSettled
<1>1. pc[p] \in WithFile => file[p] \in 1..Len(stores) /\ file[p] \in Nat
  BY DEF HInv, IInv, FilesOpen, TypeOK
<1>2. \A j \in Jobs, i \in Nat :
        At(j, i)' => At(j, i) \/ (i = file[p] /\ j \notin used /\ j \in used')
  <2> SUFFICES ASSUME NEW j \in Jobs, NEW i \in Nat, At(j, i)', ~At(j, i)
               PROVE  i = file[p] /\ j \notin used /\ j \in used'
    OBVIOUS
  <2>1. PICK q \in Procs : HoldsNext(q, j) /\ file'[q] = i
    BY DEF At, Local, Holds, HoldsNext
  <2>2. q = p
    BY <2>1 DEF At, Local, Holds, HoldsNext
  <2>3. i = file[p]
    BY <2>1, <2>2 DEF Local
  <2>4. ~Holds(p, j) /\ ~(pc[p] \in WithFile /\ j \in Known(Log(p)))
    BY <1>1, <2>3 DEF At, Log
  <2> QED BY <2>1, <2>2, <2>3, <2>4 DEF Local
<1>3. Home'
  BY <1>2, HomeKept DEF HInv, Local
<1>4. ASSUME NEW i \in 1..Len(stores), NEW j \in Jobs, Settled(i, j)
      PROVE  Settled(i, j)'
  <2>1. At(j, i) /\ i \in Nat /\ j \in used
    <3>1. At(j, i)
      BY <1>4 DEF At, Settled
    <3>2. i \in Nat
      BY LenProperties DEF HInv, IInv, TypeOK
    <3> QED BY <3>1, <3>2 DEF HInv, Home
  <2>2. \A q \in Procs : ~HoldsNext(q, j)
    <3> SUFFICES ASSUME NEW q \in Procs, HoldsNext(q, j) PROVE FALSE
      OBVIOUS
    <3>1. q = p
      BY <1>4 DEF Settled, Local, Holds, HoldsNext
    <3>2. pc[p] \in WithFile /\ j \in Known(Log(p)) /\ Latest(Log(p), j).status \notin Over
      BY <1>4, <2>1, <3>1 DEF Settled, Local
    <3>3. At(j, file[p])
      BY <1>1, <3>2 DEF At, Log
    <3>4. file[p] = i
      BY <1>1, <2>1, <3>2, <3>3 DEF HInv, Home
    <3> QED BY <1>4, <3>2, <3>4 DEF Settled, Log
  <2> QED BY <1>4, <2>2 DEF Settled, Local, Holds, HoldsNext
<1> QED BY <1>3, <1>4 DEF KeepsSettled

LEMMA LeaveLocal ==
  ASSUME IInv, NEW p \in Procs, Leave(p), UNCHANGED <<stores, clock, used, cancelled>>
  PROVE  Local(p)
<1>1. job'[p] = NoJob /\ todo'[p] = {}
  BY DEF Leave, IInv, TypeOK
<1>2. \A j \in Jobs : ~HoldsNext(p, j)
  BY <1>1, SchedulerAssumption DEF HoldsNext, NoJob
<1>3. \A q \in Procs \ {p} : file'[q] = file[q] /\ todo'[q] = todo[q] /\ job'[q] = job[q]
  BY DEF Leave, IInv, TypeOK
<1> QED BY <1>2, <1>3 DEF Local

(* A save of a record of a job that p may hold.                            *)
LEMMA SaveLocal ==
  ASSUME IInv, NEW p \in Procs, NEW r, NEW g, Save(p, r, g),
         UNCHANGED <<stores, file>>, used \subseteq used',
         \A q \in Procs : todo'[q] \subseteq todo[q],
         \A q \in Procs \ {p} : todo'[q] = todo[q],
         r.id \in Jobs =>
           \/ Holds(p, r.id)
           \/ /\ pc[p] \in WithFile
              /\ r.id \in Known(Log(p))
              /\ Latest(Log(p), r.id).status \notin Over
           \/ r.id \notin used /\ r.id \in used'
  PROVE  Local(p)
<1>1. job'[p] = r /\ \A q \in Procs \ {p} : job'[q] = job[q]
  BY DEF Save, IInv, TypeOK
<1> SUFFICES ASSUME NEW j \in Jobs, HoldsNext(p, j)
             PROVE  \/ Holds(p, j)
                    \/ /\ pc[p] \in WithFile
                       /\ j \in Known(Log(p))
                       /\ Latest(Log(p), j).status \notin Over
                    \/ j \notin used /\ j \in used'
  BY <1>1 DEF Local
<1>2. CASE r.id = j
  BY <1>2
<1>3. CASE r.id # j
  BY <1>1, <1>3 DEF HoldsNext, Holds
<1> QED BY <1>2, <1>3

LEMMA LocalActions ==
  ASSUME HInv, NEW p \in Procs,
         FindStore(p) \/ Step(p) \/ Crash(p), ~CreateStore(p), ~Write(p)
  PROVE  Local(p)
<1> USE DEF HInv
<1>1. CASE FindStore(p)
  <2>1. /\ job[p] = NoJob /\ todo[p] = {}
        /\ UNCHANGED <<stores, todo, job, used>>
    BY <1>1 DEF FindStore, NoCopies
  <2>2. \A j \in Jobs : ~HoldsNext(p, j)
    BY <2>1, SchedulerAssumption DEF HoldsNext, NoJob
  <2>3. \A q \in Procs \ {p} : file'[q] = file[q]
    BY <1>1 DEF FindStore, IInv, TypeOK
  <2> QED BY <2>1, <2>2, <2>3 DEF Local
<1>2. ASSUME NEW j \in Jobs, NEW b \in BOOLEAN, NEW n \in 0..MaxRetries,
             NEW at \in clock..MaxClock, Enqueue(p, j, b, n, at)
      PROVE  Local(p)
  <2> DEFINE r == NewJob(j, b, n, at)
  <2>1. /\ Save(p, r, "enqueue") /\ UNCHANGED <<stores, file, todo>>
        /\ j \notin used /\ used' = used \cup {j}
    BY <1>2 DEF Enqueue
  <2>2. r.id = j
    BY DEF NewJob
  <2> HIDE DEF r
  <2> QED BY <2>1, <2>2, SaveLocal
<1>3. ASSUME NEW j \in Jobs, Cancel(p, j) PROVE Local(p)
  <2> DEFINE r == Latest(Log(p), j)
             c == [r EXCEPT !.status = "cancelled"]
  <2>1. CASE j \in Known(Log(p)) /\ Pending(r)
    <3>1. pc[p] \in WithFile
      BY <1>3 DEF Cancel, WithFile
    <3>2. Good(r) /\ r.id = j
      BY <2>1, <3>1, LatestGood
    <3>3. c.id = j /\ r.status \notin Over
      BY <2>1, <3>2 DEF Good, JobRecord, Pending, Over
    <3>4. Save(p, c, "cancel") /\ UNCHANGED <<stores, file, todo, used>>
      BY <1>3, <2>1 DEF Cancel
    <3> HIDE DEF c, r
    <3>5. Latest(Log(p), j).status \notin Over
      BY <3>3 DEF r
    <3> QED BY <2>1, <3>1, <3>3, <3>4, <3>5, SaveLocal
  <2>2. CASE ~(j \in Known(Log(p)) /\ Pending(r))
    BY <1>3, <2>2, LeaveLocal DEF Cancel
  <2> QED BY <2>1, <2>2
<1>4. CASE Tick(p)
  <2>1. /\ pc[p] \in WithFile /\ job[p] = NoJob
        /\ UNCHANGED <<stores, file, job, used>>
    BY <1>4 DEF Tick, WithFile, NoCopies
  <2>2. /\ todo'[p] = Due(Log(p))
        /\ \A q \in Procs \ {p} : todo'[q] = todo[q]
    BY <1>4 DEF Tick, IInv, TypeOK
  <2>3. \A j \in Jobs : HoldsNext(p, j) =>
          /\ j \in Known(Log(p))
          /\ Latest(Log(p), j).status \notin Over
    <3> SUFFICES ASSUME NEW j \in Jobs, HoldsNext(p, j)
                 PROVE  j \in Known(Log(p)) /\ Latest(Log(p), j).status \notin Over
      OBVIOUS
    <3>1. PICK r \in Due(Log(p)) : r.id = j
      BY <2>1, <2>2, SchedulerAssumption DEF HoldsNext, NoJob
    <3>2. PICK k \in Known(Log(p)) : r = Latest(Log(p), k) /\ r.status = "scheduled"
      BY DEF Due
    <3>3. k = j
      BY <2>1, <3>1, <3>2, LatestGood
    <3> QED BY <3>2, <3>3 DEF Over
  <2> QED BY <2>1, <2>2, <2>3 DEF Local
<1>5. ASSUME NEW r \in todo[p], RunJob(p, r) PROVE Local(p)
  <2> DEFINE s == [r EXCEPT !.status = "running", !.attempt = @ + 1]
  <2>1. /\ Save(p, s, "start") /\ UNCHANGED <<stores, file, used>>
        /\ todo' = [todo EXCEPT ![p] = @ \ {r}]
    BY <1>5 DEF RunJob
  <2>2. s.id = r.id /\ Holds(p, r.id)
    <3>1. r \in JobRecord
      BY DEF IInv, TypeOK
    <3> QED BY <3>1 DEF JobRecord, Holds
  <2>3. /\ \A q \in Procs : todo'[q] \subseteq todo[q]
        /\ \A q \in Procs \ {p} : todo'[q] = todo[q]
    BY <2>1 DEF IInv, TypeOK
  <2> HIDE DEF s
  <2> QED BY <2>1, <2>2, <2>3, SaveLocal
<1>6. CASE EndTick(p)
  BY <1>6, LeaveLocal DEF EndTick
<1>7. CASE RunEnds(p)
  <2>1. PICK r \in {Finished(job[p]), Failed(job[p])} : Save(p, r, "finish")
    BY <1>7 DEF RunEnds
  <2>2. job[p] \in JobRecord
    BY <1>7 DEF RunEnds, IInv, JobsGood, Good, Working
  <2>3. r.id = job[p].id
    BY <2>1, <2>2 DEF Finished, Failed, JobRecord
  <2>4. UNCHANGED <<stores, file, todo, used>>
    BY <1>7 DEF RunEnds
  <2>5. Holds(p, job[p].id)
    BY DEF Holds
  <2> QED BY <2>1, <2>3, <2>4, <2>5, SaveLocal
<1>8. CASE Stamp(p)
  BY <1>8 DEF Stamp, Local, HoldsNext, Holds
<1>9. CASE Crash(p)
  BY <1>9, LeaveLocal DEF Crash
<1> QED BY <1>1, <1>2, <1>3, <1>4, <1>5, <1>6, <1>7, <1>8, <1>9 DEF Step

LEMMA CreateKeeps ==
  ASSUME HInv, NEW p \in Procs, CreateStore(p)
  PROVE  Home' /\ KeepsSettled
<1>1. /\ Len(stores') = Len(stores) + 1 /\ Len(stores) \in Nat
      /\ \A i \in 1..Len(stores) : stores'[i] = stores[i]
      /\ stores'[Len(stores) + 1] = <<>>
  <2>1. stores \in Seq(Seq(Line)) /\ <<>> \in Seq(Line)
    BY EmptySeq DEF HInv, IInv, TypeOK
  <2> QED BY <2>1, AppendProperties, LenProperties DEF CreateStore
<1>2. /\ job[p] = NoJob /\ todo[p] = {}
      /\ UNCHANGED <<job, todo, used>>
      /\ \A q \in Procs \ {p} : file'[q] = file[q]
  BY DEF CreateStore, HInv, IInv, TypeOK, NoCopies
<1>3. \A j \in Jobs : ~Holds(p, j)
  BY <1>2, SchedulerAssumption DEF Holds, NoJob
<1>4. Known(<<>>) = {}
  BY DEF Known, LinesOf
<1>5. \A j \in Jobs, i \in Nat : At(j, i)' => At(j, i)
  <2> SUFFICES ASSUME NEW j \in Jobs, NEW i \in Nat, At(j, i)' PROVE At(j, i)
    OBVIOUS
  <2>1. CASE i \in 1..Len(stores') /\ j \in Known(stores'[i])
    <3>1. i \in 1..Len(stores)
      BY <1>1, <1>4, <2>1
    <3> QED BY <1>1, <2>1, <3>1 DEF At
  <2>2. CASE \E q \in Procs : HoldsNext(q, j) /\ file'[q] = i
    BY <1>2, <1>3, <2>2 DEF At, Holds, HoldsNext
  <2> QED BY <2>1, <2>2 DEF At, Holds, HoldsNext
<1>6. Home'
  BY <1>2, <1>5, HomeKept DEF HInv
<1>7. KeepsSettled
  BY <1>1, <1>2 DEF KeepsSettled, Settled, Holds
<1> QED BY <1>6, <1>7

(* A line of another job changes neither the lines nor the state of a job. *)
LEMMA AppendOther ==
  ASSUME NEW log \in Seq(Line), NEW l \in Line, NEW j \in Jobs, l.job.id # j
  PROVE  /\ LinesOf(Append(log, l), j) = LinesOf(log, j)
         /\ j \in Known(log) => Latest(Append(log, l), j) = Latest(log, j)
<1> DEFINE a == Append(log, l)
<1>1. /\ a \in Seq(Line) /\ Len(a) = Len(log) + 1 /\ Len(log) \in Nat
      /\ \A k \in 1..Len(log) : a[k] = log[k]
      /\ a[Len(log) + 1] = l
  BY AppendProperties, LenProperties
<1> HIDE DEF a
<1>2. LinesOf(a, j) = LinesOf(log, j)
  BY <1>1 DEF LinesOf
<1>3. ASSUME j \in Known(log) PROVE Latest(a, j) = Latest(log, j)
  <2>1. j \in Known(a)
    BY <1>2, <1>3 DEF Known
  <2>2. PICK i \in LinesOf(log, j) :
          /\ Latest(log, j) = log[i].job
          /\ \A k \in LinesOf(log, j) :
               log[k].seq < log[i].seq \/ (log[k].seq = log[i].seq /\ i <= k)
    BY <1>3, LatestIsALine
  <2>3. PICK m \in LinesOf(a, j) :
          /\ Latest(a, j) = a[m].job
          /\ \A k \in LinesOf(a, j) :
               a[k].seq < a[m].seq \/ (a[k].seq = a[m].seq /\ m <= k)
    BY <1>1, <2>1, LatestIsALine
  <2>4. i \in 1..Len(log) /\ m \in 1..Len(log) /\ a[i] = log[i] /\ a[m] = log[m]
    BY <1>1, <1>2 DEF LinesOf
  <2>5. log[i].seq \in Nat /\ log[m].seq \in Nat
    BY <2>4, LineNumbers
  <2>6. /\ log[m].seq < log[i].seq \/ (log[m].seq = log[i].seq /\ i <= m)
        /\ log[i].seq < log[m].seq \/ (log[i].seq = log[m].seq /\ m <= i)
    BY <1>2, <2>2, <2>3, <2>4
  <2>7. i = m
    BY <1>1, <2>4, <2>5, <2>6
  <2> QED BY <2>2, <2>3, <2>4, <2>7
<1> QED BY <1>2, <1>3 DEF a

LEMMA WriteKeeps ==
  ASSUME HInv, NEW p \in Procs, Write(p)
  PROVE  Home' /\ KeepsSettled
<1> DEFINE f == file[p]
           l == [seq |-> stamp[p], job |-> job[p]]
<1> USE DEF HInv
<1>1. /\ pc[p] \in WithFile /\ pc[p] \in Working
      /\ stores' = [stores EXCEPT ![f] = Append(@, l)]
      /\ used' = used
  BY DEF Write, WithFile, Working
<1>2. /\ f \in 1..Len(stores) /\ f \in Nat /\ stores \in Seq(Seq(Line))
      /\ Len(stores) \in Nat /\ stores[f] \in Seq(Line)
  <2>1. f \in 1..Len(stores) /\ stores \in Seq(Seq(Line)) /\ f \in Nat
    BY <1>1 DEF IInv, FilesOpen, TypeOK
  <2> QED BY <2>1, ElementOfSeq, LenProperties
<1>3. l \in Line /\ l.job = job[p]
  BY <1>1 DEF IInv, JobsGood, Good, TypeOK, Line
<1> HIDE DEF l
<1>4. /\ Append(stores[f], l) \in Seq(Line)
      /\ Len(Append(stores[f], l)) = Len(stores[f]) + 1
      /\ \A k \in 1..Len(stores[f]) : Append(stores[f], l)[k] = stores[f][k]
      /\ Len(stores[f]) \in Nat
  BY <1>2, <1>3, AppendProperties, LenProperties
<1>5. /\ stores' \in Seq(Seq(Line)) /\ Len(stores') = Len(stores)
      /\ stores'[f] = Append(stores[f], l)
      /\ \A i \in 1..Len(stores) : i # f => stores'[i] = stores[i]
  BY <1>1, <1>2, <1>4, ExceptSeq
<1>6. /\ \A j \in Jobs : HoldsNext(p, j) => Holds(p, j) /\ file'[p] = f
      /\ \A q \in Procs \ {p} :
           file'[q] = file[q] /\ todo'[q] = todo[q] /\ job'[q] = job[q]
  <2>1. CASE Leave(p)
    <3>1. job'[p] = NoJob /\ todo'[p] = {}
      BY <2>1 DEF Leave, IInv, TypeOK
    <3>2. \A j \in Jobs : ~HoldsNext(p, j)
      BY <3>1, SchedulerAssumption DEF HoldsNext, NoJob
    <3> QED BY <2>1, <3>2 DEF Leave, IInv, TypeOK
  <2>2. CASE UNCHANGED <<file, todo, job, goal, stamp>>
    BY <2>2 DEF HoldsNext, Holds
  <2> QED BY <2>1, <2>2 DEF Write
<1>7. ASSUME NEW j \in Jobs, ~Holds(p, j)
      PROVE  /\ LinesOf(stores'[f], j) = LinesOf(stores[f], j)
             /\ j \in Known(stores[f]) => Latest(stores'[f], j) = Latest(stores[f], j)
  <2>1. l.job.id # j
    BY <1>3, <1>7 DEF Holds
  <2> QED BY <1>2, <1>3, <1>5, <2>1, AppendOther
<1>8. \A j \in Jobs, i \in Nat : At(j, i)' => At(j, i)
  <2> SUFFICES ASSUME NEW j \in Jobs, NEW i \in Nat, At(j, i)' PROVE At(j, i)
    OBVIOUS
  <2>1. CASE i \in 1..Len(stores') /\ j \in Known(stores'[i])
    <3>1. CASE i # f
      BY <1>5, <2>1, <3>1 DEF At
    <3>2. CASE i = f /\ Holds(p, j)
      BY <3>2 DEF At
    <3>3. CASE i = f /\ ~Holds(p, j)
      <4>1. LinesOf(stores'[f], j) = LinesOf(stores[f], j)
        BY <1>7, <3>3
      <4>2. j \in Known(stores[f])
        BY <2>1, <3>3, <4>1 DEF Known
      <4> QED BY <1>2, <3>3, <4>2 DEF At
    <3> QED BY <3>1, <3>2, <3>3
  <2>2. CASE \E q \in Procs : HoldsNext(q, j) /\ file'[q] = i
    <3>1. PICK q \in Procs : HoldsNext(q, j) /\ file'[q] = i
      BY <2>2
    <3>2. Holds(q, j) /\ file[q] = i
      BY <1>6, <3>1 DEF Holds, HoldsNext
    <3> QED BY <3>2 DEF At
  <2> QED BY <2>1, <2>2 DEF At, Holds, HoldsNext
<1>9. Home'
  BY <1>1, <1>8, HomeKept
<1>10. KeepsSettled
  <2> SUFFICES ASSUME NEW i \in 1..Len(stores), NEW j \in Jobs, Settled(i, j)
               PROVE  Settled(i, j)'
    BY DEF KeepsSettled
  <2>1. ~Holds(p, j) /\ \A q \in Procs : ~HoldsNext(q, j)
    BY <1>6 DEF Settled, Holds, HoldsNext
  <2>2. j \in Known(stores'[i]) /\ Latest(stores'[i], j).status \in Over
    <3>1. CASE i # f
      BY <1>5, <3>1 DEF Settled
    <3>2. CASE i = f
      <4>1. /\ LinesOf(stores'[f], j) = LinesOf(stores[f], j)
            /\ j \in Known(stores[f]) => Latest(stores'[f], j) = Latest(stores[f], j)
        BY <1>7, <2>1
      <4> QED BY <3>2, <4>1 DEF Settled, Known
    <3> QED BY <3>1, <3>2
  <2> QED BY <2>1, <2>2 DEF Settled, Holds, HoldsNext
<1> QED BY <1>9, <1>10

LEMMA NoCopiesStep ==
  ASSUME HInv, NEW p \in Procs, FindStore(p) \/ Step(p) \/ Crash(p)
  PROVE  NoCopies'
<1> DEFINE Free == {"idle", "missing", "open"}
<1>1. /\ pc'[p] \in Free => job'[p] = NoJob /\ todo'[p] = {}
      /\ \A q \in Procs \ {p} : pc'[q] = pc[q] /\ job'[q] = job[q] /\ todo'[q] = todo[q]
  <2> USE DEF HInv, IInv, TypeOK, NoCopies
  <2>1. CASE FindStore(p)
    BY <2>1 DEF FindStore, Goto
  <2>2. CASE Leave(p)
    BY <2>2 DEF Leave, Goto
  <2>3. ASSUME NEW r, NEW g, Save(p, r, g), \A q \in Procs \ {p} : todo'[q] = todo[q]
        PROVE  /\ pc'[p] \notin Free
               /\ \A q \in Procs \ {p} : pc'[q] = pc[q] /\ job'[q] = job[q] /\ todo'[q] = todo[q]
    BY <2>3 DEF Save, Goto
  <2>4. CASE CreateStore(p)
    BY <2>4 DEF CreateStore, Goto
  <2>5. CASE \E j \in Jobs, b \in BOOLEAN, n \in 0..MaxRetries, at \in clock..MaxClock :
               Enqueue(p, j, b, n, at)
    BY <2>3, <2>5 DEF Enqueue
  <2>6. CASE \E j \in Jobs : Cancel(p, j)
    BY <2>2, <2>3, <2>6 DEF Cancel
  <2>7. CASE Tick(p)
    BY <2>7 DEF Tick, Goto
  <2>8. CASE \E r \in todo[p] : RunJob(p, r)
    <3>1. PICK r \in todo[p] : RunJob(p, r)
      BY <2>8
    <3>2. \A q \in Procs \ {p} : todo'[q] = todo[q]
      BY <3>1 DEF RunJob
    <3> QED BY <2>3, <3>1, <3>2 DEF RunJob
  <2>9. CASE RunEnds(p)
    BY <2>3, <2>9 DEF RunEnds
  <2>10. CASE Stamp(p)
    BY <2>10 DEF Stamp, Goto
  <2>11. CASE Write(p)
    <3>1. CASE Leave(p)
      BY <2>2, <3>1
    <3>2. CASE /\ Goto(p, "running") \/ Goto(p, "ticking")
               /\ UNCHANGED <<file, todo, job, goal, stamp>>
      BY <3>2 DEF Goto
    <3> QED BY <2>11, <3>1, <3>2 DEF Write
  <2> QED BY <2>1, <2>2, <2>4, <2>5, <2>6, <2>7, <2>8, <2>9, <2>10, <2>11
        DEF Step, EndTick, Crash
<1> QED BY <1>1 DEF HInv, NoCopies

LEMMA InitHInv == Init => HInv
<1> SUFFICES ASSUME Init PROVE HInv
  OBVIOUS
<1>1. \A j \in Jobs, i \in Nat : ~At(j, i)
  <2>1. Len(stores) = 0
    BY EmptySeq DEF Init
  <2>2. \A j \in Jobs, p \in Procs : ~Holds(p, j)
    BY SchedulerAssumption DEF Init, Holds, NoJob
  <2> QED BY <2>1, <2>2 DEF At
<1>2. Home
  BY <1>1 DEF Home
<1>3. NoCopies
  BY DEF Init, NoCopies
<1> QED BY <1>2, <1>3, InitIInv DEF HInv

LEMMA HInvStep == HInv /\ [Next]_vars => HInv' /\ KeepsSettled
<1> SUFFICES ASSUME HInv, [Next]_vars PROVE HInv' /\ KeepsSettled
  OBVIOUS
<1>1. IInv'
  BY IInvStep DEF HInv
<1>2. ASSUME NEW p \in Procs, FindStore(p) \/ Step(p) \/ Crash(p)
      PROVE  Home' /\ NoCopies' /\ KeepsSettled
  <2>1. NoCopies'
    BY <1>2, NoCopiesStep
  <2>2. CASE CreateStore(p)
    BY <2>1, <2>2, CreateKeeps
  <2>3. CASE Write(p)
    BY <2>1, <2>3, WriteKeeps
  <2>4. CASE ~CreateStore(p) /\ ~Write(p)
    BY <1>2, <2>1, <2>4, LocalActions, LocalKeeps
  <2> QED BY <2>2, <2>3, <2>4
<1>3. CASE Pass \/ UNCHANGED vars
  <2>1. UNCHANGED <<stores, pc, file, todo, job, used>>
    BY <1>3 DEF Pass, vars
  <2> QED BY <1>1, <2>1 DEF HInv, Home, At, Holds, NoCopies, KeepsSettled, Settled
<1> QED BY <1>1, <1>2, <1>3 DEF Next, HInv

LEMMA HInvAlways == Spec => []HInv
<1>1. HInv /\ [Next]_vars => HInv'
  BY HInvStep
<1> QED BY <1>1, InitHInv, PTL DEF Spec

(* A job is only ever in one file, and processes hold copies of it only    *)
(* while they have that file open.                                         *)
THEOREM EachJobHasOneHome == Spec => []Home
<1>1. HInv => Home
  BY DEF HInv
<1> QED BY <1>1, HInvAlways, PTL

(* Once a job is done, failed or cancelled and no process works on a copy  *)
(* of it, nothing ever runs, retries or cancels it again, however many     *)
(* processes there are (Scheduler.cancel, due_jobs, tick).                 *)
THEOREM OverAlwaysStaysOver == Spec => OverStaysOver
<1>1. HInv /\ [Next]_vars =>
        [\A i \in 1..Len(stores), j \in Jobs : Settled(i, j) => Settled(i, j)']_vars
  BY HInvStep DEF KeepsSettled
<1> QED BY <1>1, HInvAlways, PTL DEF Spec, OverStaysOver

-----------------------------------------------------------------------------
(***************************************************************************)
(* While commands do not overlap: one process at a time, which may still   *)
(* die between any two of its steps.                                       *)
(***************************************************************************)

Alone == \A p, q \in Procs : p = q

(***************************************************************************)
(* Without a second process between its read and its append, a save always *)
(* gives its line a number larger than every one before it.                *)
(***************************************************************************)

Increasing ==
  \A i \in 1..Len(stores) : \A k, m \in 1..Len(stores[i]) :
    k < m => stores[i][k].seq < stores[i][m].seq

Stamped ==
  \A p \in Procs : pc[p] = "writing" =>
    \A k \in 1..Len(Log(p)) : Log(p)[k].seq < stamp[p]

Numbered == IInv /\ Increasing /\ Stamped

(* The line with the largest number is the last one of its job.            *)
LEMMA LastIsLatest ==
  ASSUME NEW log \in Seq(Line), NEW k \in 1..Len(log), log[k].job.id \in Jobs,
         \A m \in 1..Len(log) : log[m].job.id = log[k].job.id => m <= k,
         \A m \in 1..Len(log) : m < k => log[m].seq < log[k].seq
  PROVE  log[k].job.id \in Known(log) /\ Latest(log, log[k].job.id) = log[k].job
<1> DEFINE j == log[k].job.id
<1>1. k \in LinesOf(log, j)
  BY DEF LinesOf
<1>2. j \in Known(log)
  BY <1>1 DEF Known
<1>3. PICK i \in LinesOf(log, j) :
        /\ Latest(log, j) = log[i].job
        /\ \A m \in LinesOf(log, j) :
             log[m].seq < log[i].seq \/ (log[m].seq = log[i].seq /\ i <= m)
  BY <1>2, LatestIsALine
<1>4. i \in 1..Len(log) /\ i <= k
  BY DEF LinesOf
<1>5. /\ log[i].seq \in Nat /\ log[k].seq \in Nat /\ Len(log) \in Nat
      /\ log[k].seq < log[i].seq \/ (log[k].seq = log[i].seq /\ i <= k)
  BY <1>1, <1>3, <1>4, LineNumbers
<1>6. ~(i < k)
  BY <1>4, <1>5
<1>7. i = k
  BY <1>4, <1>5, <1>6
<1> QED BY <1>2, <1>3, <1>7

(* The lines of a log to which one is appended.                            *)
LEMMA Appended ==
  ASSUME NEW log \in Seq(Line), NEW l \in Line
  PROVE  LET a == Append(log, l)
         IN  /\ a \in Seq(Line) /\ Len(a) = Len(log) + 1 /\ Len(log) \in Nat
             /\ \A k \in 1..Len(log) : a[k] = log[k]
             /\ a[Len(log) + 1] = l
             /\ \A k \in 1..Len(a) : k \in 1..Len(log) \/ k = Len(log) + 1
<1>1. /\ Append(log, l) \in Seq(Line) /\ Len(Append(log, l)) = Len(log) + 1
      /\ Len(log) \in Nat
      /\ \A k \in 1..Len(log) : Append(log, l)[k] = log[k]
      /\ Append(log, l)[Len(log) + 1] = l
  BY AppendProperties, LenProperties
<1> QED BY <1>1

(* What a write does to the files, and what a step other than a write or   *)
(* the creation of a file leaves alone.                                    *)
LEMMA WriteAppends ==
  ASSUME IInv, NEW p \in Procs, Write(p)
  PROVE  LET l == [seq |-> stamp[p], job |-> job[p]]
         IN  /\ l \in Line /\ l.job = job[p] /\ l.seq = stamp[p] /\ l.seq \in Nat
             /\ job[p].id \in Jobs
             /\ file[p] \in 1..Len(stores) /\ Log(p) \in Seq(Line)
             /\ Len(stores') = Len(stores)
             /\ stores'[file[p]] = Append(Log(p), l)
             /\ \A i \in 1..Len(stores) : i # file[p] => stores'[i] = stores[i]
<1> DEFINE l == [seq |-> stamp[p], job |-> job[p]]
<1>1. /\ pc[p] \in WithFile /\ pc[p] \in Working
      /\ stores' = [stores EXCEPT ![file[p]] = Append(@, l)]
  BY DEF Write, WithFile, Working
<1>2. /\ file[p] \in 1..Len(stores) /\ stores \in Seq(Seq(Line))
      /\ Log(p) \in Seq(Line)
  BY <1>1, LogType DEF IInv, FilesOpen, TypeOK
<1>3. l \in Line /\ l.job = job[p] /\ l.seq = stamp[p] /\ l.seq \in Nat /\ job[p].id \in Jobs
  BY <1>1 DEF IInv, JobsGood, Good, TypeOK, Line, JobRecord
<1> HIDE DEF l
<1>4. Append(Log(p), l) \in Seq(Line)
  BY <1>2, <1>3, AppendProperties
<1>5. /\ Len(stores') = Len(stores)
      /\ stores'[file[p]] = Append(Log(p), l)
      /\ \A i \in 1..Len(stores) : i # file[p] => stores'[i] = stores[i]
  BY <1>1, <1>2, <1>4, ExceptSeq DEF Log
<1>6. /\ l \in Line /\ l.job = job[p] /\ l.seq = stamp[p] /\ l.seq \in Nat
      /\ job[p].id \in Jobs
      /\ file[p] \in 1..Len(stores) /\ Log(p) \in Seq(Line)
      /\ Len(stores') = Len(stores)
      /\ stores'[file[p]] = Append(Log(p), l)
      /\ \A i \in 1..Len(stores) : i # file[p] => stores'[i] = stores[i]
  BY <1>2, <1>3, <1>5
<1> QED BY <1>6 DEF l

LEMMA QuietStep ==
  ASSUME IInv, NEW p \in Procs, FindStore(p) \/ Step(p) \/ Crash(p),
         ~CreateStore(p), ~Write(p)
  PROVE  /\ stores' = stores
         /\ pc'[p] = "writing" => Stamp(p)
<1> USE DEF IInv, TypeOK
<1>1. CASE FindStore(p)
  BY <1>1 DEF FindStore, Goto
<1>2. ASSUME NEW j \in Jobs, NEW b, NEW n, NEW at, Enqueue(p, j, b, n, at)
      PROVE  stores' = stores /\ pc'[p] # "writing"
  BY <1>2 DEF Enqueue, Save, Goto
<1>3. ASSUME NEW j \in Jobs, Cancel(p, j)
      PROVE  stores' = stores /\ pc'[p] # "writing"
  BY <1>3 DEF Cancel, Save, Leave, Goto
<1>4. CASE Tick(p)
  BY <1>4 DEF Tick, Goto
<1>5. ASSUME NEW r \in todo[p], RunJob(p, r)
      PROVE  stores' = stores /\ pc'[p] # "writing"
  BY <1>5 DEF RunJob, Save, Goto
<1>6. CASE EndTick(p) \/ Crash(p)
  BY <1>6 DEF EndTick, Crash, Leave, Goto
<1>7. CASE RunEnds(p)
  BY <1>7 DEF RunEnds, Save, Goto
<1>8. CASE Stamp(p)
  BY <1>8 DEF Stamp
<1> QED BY <1>1, <1>2, <1>3, <1>4, <1>5, <1>6, <1>7, <1>8 DEF Step

LEMMA CreateAppends ==
  ASSUME IInv, NEW p \in Procs, CreateStore(p)
  PROVE  /\ Len(stores') = Len(stores) + 1 /\ Len(stores) \in Nat
         /\ \A i \in 1..Len(stores) : stores'[i] = stores[i]
         /\ stores'[Len(stores) + 1] = <<>>
         /\ \A i \in 1..Len(stores') : i \in 1..Len(stores) \/ stores'[i] = <<>>
         /\ pc'[p] = "open" /\ file'[p] = Len(stores) + 1
<1>1. /\ stores' = Append(stores, <<>>) /\ <<>> \in Seq(Line)
      /\ stores \in Seq(Seq(Line)) /\ Len(stores) \in Nat
  BY LenProperties, EmptySeq DEF CreateStore, IInv, TypeOK
<1>2. /\ Len(stores') = Len(stores) + 1
      /\ \A i \in 1..Len(stores) : stores'[i] = stores[i]
      /\ stores'[Len(stores) + 1] = <<>>
  BY <1>1, AppendProperties
<1>3. pc'[p] = "open" /\ file'[p] = Len(stores) + 1
  BY DEF CreateStore, Goto, IInv, TypeOK
<1> QED BY <1>1, <1>2, <1>3

LEMMA NumberedStep ==
  ASSUME Alone, Numbered, NEW p \in Procs, FindStore(p) \/ Step(p) \/ Crash(p)
  PROVE  Increasing' /\ Stamped'
<1> USE DEF Numbered
<1> SUFFICES /\ Increasing'
             /\ pc'[p] = "writing" =>
                  \A k \in 1..Len(stores'[file'[p]]) : stores'[file'[p]][k].seq < stamp'[p]
  BY DEF Alone, Stamped, Log
<1>1. CASE CreateStore(p)
  <2>1. pc'[p] # "writing"
    BY <1>1, CreateAppends
  <2>2. Increasing'
    <3> SUFFICES ASSUME NEW i \in 1..Len(stores'), NEW k \in 1..Len(stores'[i]),
                        NEW m \in 1..Len(stores'[i]), k < m
                 PROVE  stores'[i][k].seq < stores'[i][m].seq
      BY DEF Increasing
    <3>1. CASE i \in 1..Len(stores)
      BY <1>1, <3>1, CreateAppends DEF Increasing
    <3>2. CASE stores'[i] = <<>>
      BY <3>2
    <3> QED BY <1>1, <3>1, <3>2, CreateAppends
  <2> QED BY <2>1, <2>2
<1>2. CASE Write(p)
  <2> DEFINE l == [seq |-> stamp[p], job |-> job[p]]
             f == file[p]
  <2>1. pc'[p] # "writing"
    BY <1>2 DEF Write, Leave, Goto, IInv, TypeOK
  <2>2. /\ l \in Line /\ l.seq = stamp[p] /\ Log(p) \in Seq(Line)
        /\ f \in 1..Len(stores)
        /\ Len(stores') = Len(stores)
        /\ stores'[f] = Append(Log(p), l)
        /\ \A i \in 1..Len(stores) : i # f => stores'[i] = stores[i]
    BY <1>2, WriteAppends
  <2> HIDE DEF l, f
  <2>3. /\ Len(stores'[f]) = Len(Log(p)) + 1 /\ Len(Log(p)) \in Nat
        /\ \A k \in 1..Len(Log(p)) : stores'[f][k] = Log(p)[k]
        /\ stores'[f][Len(Log(p)) + 1] = l
    BY <2>2, Appended
  <2>4. Increasing'
    <3> SUFFICES ASSUME NEW i \in 1..Len(stores), NEW k \in 1..Len(stores'[i]),
                        NEW m \in 1..Len(stores'[i]), k < m
                 PROVE  stores'[i][k].seq < stores'[i][m].seq
      BY <2>2 DEF Increasing
    <3>1. CASE i # f
      BY <2>2, <3>1 DEF Increasing
    <3>2. CASE i = f /\ m \in 1..Len(Log(p))
      <4>1. k \in 1..Len(Log(p))
        BY <2>3, <3>2
      <4>2. Log(p)[k].seq < Log(p)[m].seq
        BY <2>2, <3>2, <4>1 DEF Increasing, Log, f
      <4> QED BY <2>3, <3>2, <4>1, <4>2
    <3>3. CASE i = f /\ m \notin 1..Len(Log(p))
      <4>1. m = Len(Log(p)) + 1 /\ k \in 1..Len(Log(p))
        BY <2>3, <3>3
      <4>2. Log(p)[k].seq < stamp[p]
        BY <1>2, <4>1 DEF Stamped, Write
      <4> QED BY <2>2, <2>3, <3>3, <4>1, <4>2
    <3> QED BY <3>1, <3>2, <3>3
  <2> QED BY <2>1, <2>4
<1>3. CASE ~CreateStore(p) /\ ~Write(p)
  <2>1. stores' = stores /\ (pc'[p] = "writing" => Stamp(p))
    BY <1>3, QuietStep
  <2>2. Increasing'
    BY <2>1 DEF Increasing
  <2>3. ASSUME Stamp(p)
        PROVE  \A k \in 1..Len(stores[file'[p]]) : stores[file'[p]][k].seq < stamp'[p]
    <3>1. file' = file /\ stamp'[p] = NextSeq(Log(p))
      BY <2>3 DEF Stamp, IInv, TypeOK
    <3>2. Log(p) \in Seq(Line)
      BY <2>3, LogType DEF Stamp, WithFile
    <3> QED BY <3>1, <3>2, NextSeqType DEF Log
  <2> QED BY <2>1, <2>2, <2>3
<1> QED BY <1>1, <1>2, <1>3

LEMMA NumberedNext == ASSUME Alone PROVE Numbered /\ [Next]_vars => Numbered'
<1> SUFFICES ASSUME Numbered, [Next]_vars PROVE Numbered'
  OBVIOUS
<1>1. IInv'
  BY IInvStep DEF Numbered
<1>2. ASSUME NEW p \in Procs, FindStore(p) \/ Step(p) \/ Crash(p)
      PROVE  Increasing' /\ Stamped'
  BY <1>2, NumberedStep
<1>3. CASE Pass \/ UNCHANGED vars
  <2>1. UNCHANGED <<stores, pc, file, stamp>>
    BY <1>3 DEF Pass, vars
  <2>2. Increasing'
    BY <2>1 DEF Numbered, Increasing
  <2>3. Stamped'
    <3> SUFFICES ASSUME NEW p \in Procs, pc[p] = "writing",
                        NEW k \in 1..Len(stores[file[p]])
                 PROVE  stores[file[p]][k].seq < stamp[p]
      BY <2>1 DEF Stamped, Log
    <3> QED BY DEF Numbered, Stamped, Log
  <2> QED BY <1>1, <2>2, <2>3 DEF Numbered
<1> QED BY <1>1, <1>2, <1>3 DEF Next, Numbered

LEMMA InitNumbered == Init => Numbered
<1> SUFFICES ASSUME Init PROVE Numbered
  OBVIOUS
<1>1. Len(stores) = 0
  BY EmptySeq DEF Init
<1> QED BY <1>1, InitIInv DEF Init, Numbered, Increasing, Stamped

LEMMA NumberedLatest == Numbered => LatestIsLastSaved
<1> SUFFICES ASSUME Numbered, NEW i \in 1..Len(stores), NEW k \in 1..Len(stores[i]),
                    \A m \in (k + 1)..Len(stores[i]) :
                      stores[i][m].job.id # stores[i][k].job.id
             PROVE  Latest(stores[i], stores[i][k].job.id) = stores[i][k].job
  BY DEF LatestIsLastSaved
<1>1. stores[i] \in Seq(Line)
  <2>1. stores \in Seq(Seq(Line))
    BY DEF Numbered, IInv, TypeOK
  <2> QED BY <2>1, ElementOfSeq
<1>2. Len(stores[i]) \in Nat
  BY <1>1, LineNumbers
<1>3. stores[i][k].job.id \in Jobs
  BY DEF Numbered, IInv, LinesGood, Good, JobRecord
<1>4. \A m \in 1..Len(stores[i]) :
        stores[i][m].job.id = stores[i][k].job.id => m <= k
  <2> TAKE m \in 1..Len(stores[i])
  <2>1. ~(m <= k) => m \in (k + 1)..Len(stores[i])
    BY <1>2
  <2> QED BY <2>1
<1>5. \A m \in 1..Len(stores[i]) : m < k => stores[i][m].seq < stores[i][k].seq
  BY DEF Numbered, Increasing
<1> QED BY <1>1, <1>3, <1>4, <1>5, LastIsLatest

(* While commands do not overlap, what all_jobs() answers for a job is the *)
(* record that was saved last, whenever processes die                      *)
(* (JobStore.all_jobs).                                                    *)
THEOREM LatestAlwaysLastSaved == ASSUME Alone PROVE Spec => []LatestIsLastSaved
BY InitNumbered, NumberedNext, NumberedLatest, PTL DEF Spec

(***************************************************************************)
(* The job table.  There is one file, and what the process works on agrees *)
(* with it: the due jobs of a tick and the job that runs are the latest    *)
(* records, and a save that is under way leads from the latest record to   *)
(* the one it is going to append.                                          *)
(***************************************************************************)

OneStore ==
  /\ Len(stores) <= 1
  /\ \A p \in Procs : pc[p] = "missing" => stores = <<>>

Reads(log, r) == r.id \in Known(log) /\ r = Latest(log, r.id)

RunMayEnd(r, s) ==
  /\ s.recurring = r.recurring /\ s.retries = r.retries
  /\ \/ s.status = "scheduled" /\ r.recurring /\ s.attempt = 0
     \/ s.status = "done" /\ ~r.recurring /\ s.attempt = r.attempt
     \/ s.status = "scheduled" /\ s.attempt = r.attempt /\ r.attempt <= r.retries
     \/ s.status = "failed" /\ s.attempt = r.attempt /\ r.attempt = r.retries + 1

(* A save that is part of g may write s where the latest record is r.      *)
Leads(r, g, s) ==
  \/ g = "cancel" /\ Pending(r) /\ s = [r EXCEPT !.status = "cancelled"]
  \/ /\ g = "start" /\ r.status = "scheduled"
     /\ s = [r EXCEPT !.status = "running", !.attempt = @ + 1]
  \/ g = "finish" /\ r.status = "running" /\ RunMayEnd(r, s)

IsNew(s) == s.status = "scheduled" /\ s.attempt = 0

MaySave(log, g, s) ==
  \/ g = "enqueue" /\ s.id \notin Known(log) /\ IsNew(s)
  \/ s.id \in Known(log) /\ Leads(Latest(log, s.id), g, s)

(* A process at pc with a file's lines log agrees with it.                 *)
Agrees(stage, log, due, s, g) ==
  /\ \A r \in due : Reads(log, r) /\ (stage \in Working => r.id # s.id)
  /\ stage = "running" => Reads(log, s) /\ g = "start"
  /\ stage \in {"stamping", "writing"} => MaySave(log, g, s)

UpToDate == \A p \in Procs : Agrees(pc[p], Log(p), todo[p], job[p], goal[p])

AInv == HInv /\ Numbered /\ OneStore /\ UpToDate

LEMMA FreeAgrees ==
  ASSUME NEW stage, stage \notin Working, NEW log, NEW s, NEW g
  PROVE  Agrees(stage, log, {}, s, g)
BY DEF Agrees, Working

(* The records that a run may end with.                                    *)
LEMMA EndsOfRun ==
  ASSUME NEW r, Good(r), r.status = "running", NEW s \in {Finished(r), Failed(r)}
  PROVE  s.id = r.id /\ Leads(r, "finish", s)
<1>1. /\ r \in JobRecord /\ r.attempt \in Nat /\ r.retries \in Nat
      /\ r.attempt <= r.retries + 1
  BY SchedulerAssumption DEF Good, JobRecord, Consistent
<1>2. CASE s = Finished(r)
  BY <1>1, <1>2 DEF Finished, Leads, RunMayEnd, JobRecord
<1>3. CASE s = Failed(r) /\ MayRetry(r)
  BY <1>1, <1>3 DEF Failed, MayRetry, Leads, RunMayEnd, JobRecord
<1>4. CASE s = Failed(r) /\ ~MayRetry(r)
  <2>1. r.attempt = r.retries + 1
    BY <1>1, <1>4 DEF MayRetry
  <2>2. s = [r EXCEPT !.last = "failed", !.status = "failed"]
    BY <1>4 DEF Failed
  <2>3. /\ s.status = "failed" /\ s.attempt = r.attempt /\ s.id = r.id
        /\ s.recurring = r.recurring /\ s.retries = r.retries
    BY <1>1, <2>2 DEF JobRecord
  <2> QED BY <2>1, <2>3 DEF Leads, RunMayEnd
<1> QED BY <1>2, <1>3, <1>4

(* A step that changes no file.                                            *)
LEMMA AgreesQuiet ==
  ASSUME AInv, NEW p \in Procs, FindStore(p) \/ Step(p) \/ Crash(p),
         ~CreateStore(p), ~Write(p)
  PROVE  Agrees(pc'[p], stores[file'[p]], todo'[p], job'[p], goal'[p])
<1> USE DEF AInv, HInv
<1>1. ASSUME Leave(p)
      PROVE  Agrees(pc'[p], stores[file'[p]], todo'[p], job'[p], goal'[p])
  <2>1. pc'[p] = "idle" /\ todo'[p] = {}
    BY <1>1 DEF Leave, Goto, IInv, TypeOK
  <2> QED BY <2>1, FreeAgrees DEF Working
<1>2. ASSUME NEW s, NEW g, Save(p, s, g), file' = file, todo'[p] \subseteq todo[p],
             MaySave(Log(p), g, s), \A r \in todo'[p] : r.id # s.id
      PROVE  Agrees(pc'[p], stores[file'[p]], todo'[p], job'[p], goal'[p])
  <2>1. pc'[p] = "stamping" /\ job'[p] = s /\ goal'[p] = g
    BY <1>2 DEF Save, Goto, IInv, TypeOK
  <2>2. \A r \in todo'[p] : Reads(Log(p), r)
    BY <1>2 DEF UpToDate, Agrees
  <2> QED BY <1>2, <2>1, <2>2 DEF Agrees, Log
<1>3. CASE FindStore(p)
  <2>1. pc'[p] \in {"missing", "open"} /\ todo'[p] = {}
    BY <1>3 DEF FindStore, Goto, IInv, TypeOK, NoCopies
  <2> QED BY <2>1, FreeAgrees DEF Working
<1>4. ASSUME NEW j \in Jobs, NEW b \in BOOLEAN, NEW n \in 0..MaxRetries,
             NEW at \in clock..MaxClock, Enqueue(p, j, b, n, at)
      PROVE  Agrees(pc'[p], stores[file'[p]], todo'[p], job'[p], goal'[p])
  <2> DEFINE s == NewJob(j, b, n, at)
  <2>1. /\ Save(p, s, "enqueue") /\ file' = file /\ todo' = todo /\ todo[p] = {}
        /\ j \notin used /\ pc[p] \in WithFile
    BY <1>4 DEF Enqueue, NoCopies, WithFile
  <2>2. file[p] \in 1..Len(stores) /\ file[p] \in Nat
    BY <2>1 DEF IInv, FilesOpen, TypeOK
  <2>3. j \notin Known(Log(p))
    BY <2>1, <2>2 DEF Home, At, Log
  <2>4. MaySave(Log(p), "enqueue", s)
    BY <2>3 DEF MaySave, IsNew, NewJob
  <2> HIDE DEF s
  <2> QED BY <1>2, <2>1, <2>4
<1>5. ASSUME NEW j \in Jobs, Cancel(p, j)
      PROVE  Agrees(pc'[p], stores[file'[p]], todo'[p], job'[p], goal'[p])
  <2> DEFINE r == Latest(Log(p), j)
             c == [r EXCEPT !.status = "cancelled"]
  <2>1. CASE j \in Known(Log(p)) /\ Pending(r)
    <3>1. pc[p] \in WithFile /\ todo[p] = {}
      BY <1>5 DEF Cancel, WithFile, NoCopies
    <3>2. Good(r) /\ r.id = j
      BY <2>1, <3>1, LatestGood
    <3>3. c.id = j
      BY <3>2 DEF Good, JobRecord
    <3>4. Save(p, c, "cancel") /\ file' = file /\ todo' = todo
      BY <1>5, <2>1 DEF Cancel
    <3>5. MaySave(Log(p), "cancel", c)
      BY <2>1, <3>3 DEF MaySave, Leads
    <3> HIDE DEF c, r
    <3> QED BY <1>2, <3>1, <3>4, <3>5
  <2>2. CASE ~(j \in Known(Log(p)) /\ Pending(r))
    BY <1>1, <1>5, <2>2 DEF Cancel
  <2> QED BY <2>1, <2>2
<1>6. CASE Tick(p)
  <2>1. /\ pc'[p] = "ticking" /\ todo'[p] = Due(Log(p)) /\ file' = file
        /\ pc[p] \in WithFile
    BY <1>6 DEF Tick, Goto, IInv, TypeOK, WithFile
  <2>2. \A r \in Due(Log(p)) : Reads(Log(p), r)
    <3> SUFFICES ASSUME NEW r \in Due(Log(p)) PROVE Reads(Log(p), r)
      OBVIOUS
    <3>1. PICK k \in Known(Log(p)) : r = Latest(Log(p), k)
      BY DEF Due
    <3>2. r.id = k
      BY <2>1, <3>1, LatestGood
    <3> QED BY <3>1, <3>2 DEF Reads
  <2> QED BY <2>1, <2>2 DEF Agrees, Log, Working
<1>7. ASSUME NEW r \in todo[p], RunJob(p, r)
      PROVE  Agrees(pc'[p], stores[file'[p]], todo'[p], job'[p], goal'[p])
  <2> DEFINE s == [r EXCEPT !.status = "running", !.attempt = @ + 1]
  <2>1. /\ Save(p, s, "start") /\ file' = file
        /\ todo'[p] = todo[p] \ {r}
    BY <1>7 DEF RunJob, IInv, TypeOK
  <2>2. r \in JobRecord /\ r.status = "scheduled"
    BY DEF IInv, DueGood, Good
  <2>3. s.id = r.id
    BY <2>2 DEF JobRecord
  <2>4. \A q \in todo[p] : Reads(Log(p), q)
    BY DEF UpToDate, Agrees
  <2>5. MaySave(Log(p), "start", s)
    BY <2>2, <2>3, <2>4 DEF MaySave, Leads, Reads
  <2>6. \A q \in todo'[p] : q.id # s.id
    BY <2>1, <2>3, <2>4 DEF Reads
  <2> HIDE DEF s
  <2> QED BY <1>2, <2>1, <2>5, <2>6
<1>8. CASE RunEnds(p)
  <2>1. PICK s \in {Finished(job[p]), Failed(job[p])} : Save(p, s, "finish")
    BY <1>8 DEF RunEnds
  <2>2. /\ pc[p] = "running" /\ pc[p] \in Working /\ file' = file /\ todo' = todo
    BY <1>8 DEF RunEnds, Working
  <2>3. Good(job[p]) /\ job[p].status = "running"
    BY <2>2 DEF IInv, JobsGood
  <2>4. s.id = job[p].id /\ Leads(job[p], "finish", s)
    BY <2>1, <2>3, EndsOfRun
  <2>5. /\ Reads(Log(p), job[p])
        /\ \A r \in todo[p] : r.id # job[p].id
    BY <2>2 DEF UpToDate, Agrees
  <2>6. MaySave(Log(p), "finish", s)
    BY <2>4, <2>5 DEF MaySave, Reads
  <2> QED BY <1>2, <2>1, <2>2, <2>4, <2>5, <2>6
<1>9. CASE Stamp(p)
  <2>1. /\ pc[p] = "stamping" /\ pc'[p] = "writing"
        /\ UNCHANGED <<file, todo, job, goal>>
    BY <1>9 DEF Stamp, Goto, IInv, TypeOK
  <2> QED BY <2>1 DEF UpToDate, Agrees, Log, Working
<1>10. CASE EndTick(p) \/ Crash(p)
  BY <1>1, <1>10 DEF EndTick, Crash
<1> QED BY <1>3, <1>4, <1>5, <1>6, <1>7, <1>8, <1>9, <1>10 DEF Step

(* What all_jobs() reads after a write: the record written, and for every  *)
(* other job what it read before.                                          *)
LEMMA WriteReads ==
  ASSUME AInv, NEW p \in Procs, Write(p)
  PROVE  LET log == stores'[file[p]]
             s == job[p]
         IN  /\ Known(log) = Known(Log(p)) \cup {s.id}
             /\ s.id \in Jobs /\ Latest(log, s.id) = s
             /\ \A k \in Known(Log(p)) : k # s.id => Latest(log, k) = Latest(Log(p), k)
<1> DEFINE l == [seq |-> stamp[p], job |-> job[p]]
           a == Append(Log(p), l)
           j == job[p].id
<1> USE DEF AInv, Numbered
<1>1. /\ l \in Line /\ l.job = job[p] /\ l.seq = stamp[p] /\ l.seq \in Nat
      /\ j \in Jobs /\ Log(p) \in Seq(Line)
      /\ stores'[file[p]] = a
  BY WriteAppends
<1>2. \A k \in 1..Len(Log(p)) : Log(p)[k].seq < l.seq
  BY <1>1 DEF Write, Stamped
<1> HIDE DEF l
<1>3. /\ a \in Seq(Line) /\ Len(a) = Len(Log(p)) + 1 /\ Len(Log(p)) \in Nat
      /\ \A k \in 1..Len(Log(p)) : a[k] = Log(p)[k]
      /\ a[Len(Log(p)) + 1] = l
      /\ \A k \in 1..Len(a) : k \in 1..Len(Log(p)) \/ k = Len(Log(p)) + 1
  BY <1>1, Appended
<1>4. \A k \in Jobs : k # j =>
        /\ LinesOf(a, k) = LinesOf(Log(p), k)
        /\ k \in Known(Log(p)) => Latest(a, k) = Latest(Log(p), k)
  BY <1>1, AppendOther
<1> HIDE DEF a
<1>5. j \in Known(a) /\ Latest(a, j) = job[p]
  <2> DEFINE n == Len(Log(p)) + 1
  <2>1. n \in 1..Len(a) /\ a[n] = l /\ a[n].job.id = j
    BY <1>1, <1>3
  <2>2. \A m \in 1..Len(a) : m <= n
    BY <1>3
  <2>3. \A m \in 1..Len(a) : m < n => a[m].seq < a[n].seq
    BY <1>2, <1>3
  <2> HIDE DEF n
  <2>4. a[n].job.id \in Known(a) /\ Latest(a, a[n].job.id) = a[n].job
    BY <1>1, <1>3, <2>1, <2>2, <2>3, LastIsLatest
  <2> QED BY <1>1, <2>1, <2>4
<1>6. Known(a) = Known(Log(p)) \cup {j}
  <2>1. \A k \in Jobs : k # j => (k \in Known(a) <=> k \in Known(Log(p)))
    BY <1>4 DEF Known
  <2>2. Known(a) \subseteq Jobs /\ Known(Log(p)) \subseteq Jobs
    BY DEF Known
  <2> QED BY <1>1, <1>5, <2>1, <2>2
<1>7. \A k \in Known(Log(p)) : k # j => Latest(a, k) = Latest(Log(p), k)
  BY <1>4 DEF Known
<1>8. /\ Known(stores'[file[p]]) = Known(Log(p)) \cup {job[p].id}
      /\ job[p].id \in Jobs /\ Latest(stores'[file[p]], job[p].id) = job[p]
      /\ \A k \in Known(Log(p)) :
           k # job[p].id => Latest(stores'[file[p]], k) = Latest(Log(p), k)
  BY <1>1, <1>5, <1>6, <1>7
<1> QED BY <1>8

LEMMA AgreesWrite ==
  ASSUME AInv, NEW p \in Procs, Write(p)
  PROVE  Agrees(pc'[p], stores'[file'[p]], todo'[p], job'[p], goal'[p])
<1> USE DEF AInv, HInv
<1> DEFINE log == stores'[file[p]]
<1>1. CASE goal[p] \in {"enqueue", "cancel"} /\ Leave(p)
  <2>1. pc'[p] = "idle" /\ todo'[p] = {}
    BY <1>1 DEF Leave, Goto, IInv, TypeOK
  <2> QED BY <2>1, FreeAgrees DEF Working
<1>2. CASE UNCHANGED <<file, todo, job, goal, stamp>>
  <2>1. /\ Known(log) = Known(Log(p)) \cup {job[p].id}
        /\ Latest(log, job[p].id) = job[p]
        /\ \A k \in Known(Log(p)) : k # job[p].id => Latest(log, k) = Latest(Log(p), k)
    BY WriteReads
  <2> HIDE DEF log
  <2>2. \A r \in todo[p] : r.id # job[p].id /\ Reads(Log(p), r)
    BY DEF UpToDate, Agrees, Write, Working
  <2>3. \A r \in todo[p] : r.id # job[p].id /\ Reads(log, r)
    BY <2>1, <2>2 DEF Reads
  <2>4. Reads(log, job[p])
    BY <2>1 DEF Reads
  <2>5. /\ pc'[p] \in {"running", "ticking", "idle"}
        /\ pc'[p] = "running" => goal[p] = "start"
    BY DEF Write, Leave, Goto, IInv, TypeOK
  <2>6. Agrees(pc'[p], log, todo[p], job[p], goal[p])
    BY <2>3, <2>4, <2>5 DEF Agrees
  <2> QED BY <1>2, <2>6 DEF log
<1> QED BY <1>1, <1>2 DEF Write

LEMMA OneStoreStep ==
  ASSUME Alone, AInv, NEW p \in Procs, FindStore(p) \/ Step(p) \/ Crash(p)
  PROVE  OneStore'
<1> USE DEF AInv, Numbered, HInv
<1> SUFFICES Len(stores') <= 1 /\ (pc'[p] = "missing" => stores' = <<>>)
  BY DEF Alone, OneStore
<1>1. CASE CreateStore(p)
  <2>1. stores = <<>> /\ Len(stores) = 0
    BY <1>1, EmptySeq DEF OneStore, CreateStore
  <2> QED BY <1>1, <2>1, CreateAppends
<1>2. CASE Write(p)
  <2>1. pc'[p] # "missing"
    BY <1>2 DEF Write, Leave, Goto, IInv, TypeOK
  <2> QED BY <1>2, <2>1, WriteAppends DEF OneStore
<1>3. CASE ~CreateStore(p) /\ ~Write(p)
  <2>1. stores' = stores
    BY <1>3, QuietStep
  <2>2. ASSUME pc'[p] = "missing" PROVE stores = <<>>
    <3> USE DEF IInv, TypeOK
    <3>1. CASE FindStore(p)
      BY <2>2, <3>1 DEF FindStore, Goto
    <3>2. ASSUME Leave(p) \/ \E s, g : Save(p, s, g) PROVE FALSE
      BY <2>2, <3>2 DEF Leave, Save, Goto
    <3>3. CASE Tick(p)
      BY <2>2, <3>3 DEF Tick, Goto
    <3>4. CASE Stamp(p)
      BY <2>2, <3>4 DEF Stamp, Goto
    <3> QED BY <1>3, <3>1, <3>2, <3>3, <3>4
        DEF Step, Enqueue, Cancel, RunJob, RunEnds, EndTick, Crash
  <2> QED BY <2>1, <2>2 DEF OneStore
<1> QED BY <1>1, <1>2, <1>3

LEMMA AInvNext == ASSUME Alone PROVE AInv /\ [Next]_vars => AInv'
<1> SUFFICES ASSUME AInv, [Next]_vars PROVE AInv'
  OBVIOUS
<1>1. HInv' /\ Numbered'
  BY HInvStep, NumberedNext DEF AInv
<1>2. ASSUME NEW p \in Procs, FindStore(p) \/ Step(p) \/ Crash(p)
      PROVE  OneStore' /\ UpToDate'
  <2>1. Agrees(pc'[p], stores'[file'[p]], todo'[p], job'[p], goal'[p])
    <3>1. CASE CreateStore(p)
      <4>1. pc'[p] = "open" /\ todo'[p] = {}
        BY <3>1 DEF AInv, HInv, NoCopies, CreateStore, Goto, IInv, TypeOK
      <4> QED BY <4>1, FreeAgrees DEF Working
    <3>2. CASE Write(p)
      BY <3>2, AgreesWrite
    <3>3. CASE ~CreateStore(p) /\ ~Write(p)
      <4>1. stores' = stores
        BY <1>2, <3>3, QuietStep DEF AInv, Numbered
      <4> QED BY <1>2, <3>3, <4>1, AgreesQuiet
    <3> QED BY <3>1, <3>2, <3>3
  <2>2. UpToDate'
    BY <2>1 DEF UpToDate, Alone, Log
  <2> QED BY <1>2, <2>2, OneStoreStep
<1>3. CASE Pass \/ UNCHANGED vars
  <2>1. UNCHANGED <<stores, pc, file, todo, job, goal>>
    BY <1>3 DEF Pass, vars
  <2>2. OneStore' /\ UpToDate'
    BY <2>1 DEF AInv, OneStore, UpToDate, Log
  <2> QED BY <1>1, <2>2 DEF AInv
<1> QED BY <1>1, <1>2, <1>3 DEF Next, AInv

LEMMA InitAInv == Init => AInv
<1> SUFFICES ASSUME Init PROVE AInv
  OBVIOUS
<1>1. Len(stores) = 0
  BY EmptySeq DEF Init
<1>2. OneStore
  BY <1>1 DEF OneStore, Init
<1>3. UpToDate
  BY FreeAgrees DEF Init, UpToDate, Working
<1> QED BY <1>2, <1>3, InitHInv, InitNumbered DEF AInv

(***************************************************************************)
(* The refinement.                                                         *)
(***************************************************************************)

Row(r) == [recurring |-> r.recurring, retries |-> r.retries,
           status |-> r.status, attempt |-> r.attempt]

Rows(log) == [j \in Known(log) |-> Row(Latest(log, j))]

(* The state function that Table puts in the place of table.               *)
TableNow == Rows(Current)

LEMMA InitTable == Init => Table!Init
<1> SUFFICES ASSUME Init PROVE Table!Init
  OBVIOUS
<1>1. Current = <<>>
  BY DEF Init, Current
<1>2. Known(<<>>) = {}
  BY DEF Known, LinesOf
<1> QED BY <1>1, <1>2 DEF Table!Init

LEMMA RowExcept ==
  ASSUME NEW r, NEW status, NEW attempt
  PROVE  [Row(r) EXCEPT !.status = status, !.attempt = attempt] =
           [recurring |-> r.recurring, retries |-> r.retries,
            status |-> status, attempt |-> attempt]
<1> DEFINE x == [Row(r) EXCEPT !.status = status, !.attempt = attempt]
           y == [recurring |-> r.recurring, retries |-> r.retries,
                 status |-> status, attempt |-> attempt]
           fields == {"recurring", "retries", "status", "attempt"}
<1>1. /\ x.status = status /\ x.attempt = attempt
      /\ x.recurring = r.recurring /\ x.retries = r.retries
      /\ x = [f \in fields |-> x[f]]
  BY DEF Row
<1>2. /\ y.status = status /\ y.attempt = attempt
      /\ y.recurring = r.recurring /\ y.retries = r.retries
      /\ y = [f \in fields |-> y[f]]
  OBVIOUS
<1> HIDE DEF x, y
<1>3. \A f \in fields : x[f] = y[f]
  BY <1>1, <1>2
<1>4. x = y
  BY <1>1, <1>2, <1>3
<1> QED BY <1>4 DEF x, y

(* A write puts the row of the record written.                             *)
LEMMA WritePuts ==
  ASSUME AInv, NEW p \in Procs, Write(p)
  PROVE  /\ TableNow' = [k \in DOMAIN TableNow \cup {job[p].id} |->
                           IF k = job[p].id THEN Row(job[p]) ELSE TableNow[k]]
         /\ DOMAIN TableNow = Known(Log(p))
         /\ \A k \in Known(Log(p)) : TableNow[k] = Row(Latest(Log(p), k))
         /\ job[p].id \in Jobs
<1> USE DEF AInv
<1>1. /\ file[p] \in 1..Len(stores) /\ Len(stores') = Len(stores)
      /\ Len(stores) \in Nat /\ Len(stores) <= 1
      /\ stores' \in Seq(Seq(Line)) /\ stores \in Seq(Seq(Line))
  <2>1. TypeOK /\ TypeOK'
    <3>1. Step(p)
      BY DEF Step
    <3>2. IInv'
      BY <3>1, IInvStep DEF Next, Numbered
    <3> QED BY <3>2 DEF Numbered, IInv
  <2> QED BY <2>1, WriteAppends, LenProperties DEF OneStore, Numbered, TypeOK
<1>2. file[p] = 1 /\ Len(stores) = 1
  BY <1>1
<1>3. stores # <<>> /\ stores' # <<>>
  <2>1. \A q : q = <<>> => Len(q) = 0
    BY EmptySeq
  <2>2. Len(stores) # 0 /\ Len(stores') # 0
    BY <1>1, <1>2
  <2> QED BY <2>1, <2>2
<1>4. Current = Log(p) /\ Current' = stores'[file[p]]
  BY <1>1, <1>2, <1>3 DEF Current, Log
<1> DEFINE log == stores'[file[p]]
           j == job[p].id
<1>5. /\ Known(log) = Known(Log(p)) \cup {j}
      /\ j \in Jobs /\ Latest(log, j) = job[p]
      /\ \A k \in Known(Log(p)) : k # j => Latest(log, k) = Latest(Log(p), k)
  BY WriteReads
<1>6. TableNow = Rows(Log(p)) /\ TableNow' = Rows(log)
  BY <1>4 DEF TableNow, Rows
<1> HIDE DEF log
<1>7. Rows(log) = [k \in Known(Log(p)) \cup {j} |->
                     IF k = j THEN Row(job[p]) ELSE Rows(Log(p))[k]]
  BY <1>5 DEF Rows
<1> QED BY <1>5, <1>6, <1>7 DEF Rows

LEMMA WriteTable ==
  ASSUME AInv, NEW p \in Procs, Write(p)
  PROVE  Table!Next
<1> DEFINE s == job[p]
           j == job[p].id
           r == Latest(Log(p), j)
<1>1. /\ TableNow' = [k \in DOMAIN TableNow \cup {j} |->
                        IF k = j THEN Row(s) ELSE TableNow[k]]
      /\ DOMAIN TableNow = Known(Log(p))
      /\ \A k \in Known(Log(p)) : TableNow[k] = Row(Latest(Log(p), k))
      /\ j \in Jobs
  BY WritePuts
<1>2. Table!Put(j, Row(s))
  BY <1>1 DEF Table!Put, TableNow, Rows, Row
<1>3. Good(s) /\ s \in JobRecord /\ MaySave(Log(p), goal[p], s)
  BY DEF AInv, Numbered, IInv, JobsGood, Write, Working, Good, UpToDate, Agrees
<1>4. /\ Row(s).recurring = s.recurring /\ Row(s).retries = s.retries
      /\ Row(s).status = s.status /\ Row(s).attempt = s.attempt
  BY DEF Row
<1>5. CASE j \notin Known(Log(p)) /\ IsNew(s)
  <2>1. s.recurring \in BOOLEAN /\ s.retries \in 0..MaxRetries
    BY <1>3 DEF JobRecord
  <2>2. Row(s) = [recurring |-> s.recurring, retries |-> s.retries,
                  status |-> "scheduled", attempt |-> 0]
    BY <1>5 DEF Row, IsNew
  <2>3. Table!Enqueue(j)
    BY <1>1, <1>2, <1>5, <2>1, <2>2 DEF Table!Enqueue, TableNow, Rows, Row
  <2> QED BY <1>1, <2>3 DEF Table!Next
<1>6. CASE j \in Known(Log(p)) /\ Leads(r, goal[p], s)
  <2>1. j \in DOMAIN TableNow /\ TableNow[j] = Row(r)
    BY <1>1, <1>6
  <2>2. /\ r.status \in Statuses /\ r.attempt \in Nat /\ r.retries \in Nat
        /\ r \in JobRecord
    BY <1>6, LatestGood, SchedulerAssumption
    DEF AInv, Numbered, Write, WithFile, Good, JobRecord
  <2>3. CASE Pending(r) /\ s = [r EXCEPT !.status = "cancelled"]
    <3>1. Row(s) = [Row(r) EXCEPT !.status = "cancelled"]
      BY <2>2, <2>3 DEF Row, JobRecord
    <3>2. Row(r).status \in {"scheduled", "running"}
      BY <2>3 DEF Row, Pending
    <3>3. Table!Cancel(j)
      BY <1>2, <2>1, <3>1, <3>2 DEF Table!Cancel, TableNow, Rows, Row
    <3> QED BY <2>1, <3>3 DEF Table!Next, TableNow, Rows, Row
  <2>4. CASE /\ r.status = "scheduled"
             /\ s = [r EXCEPT !.status = "running", !.attempt = @ + 1]
    <3>1. Row(s) = [Row(r) EXCEPT !.status = "running", !.attempt = @ + 1]
      <4>1. /\ s.recurring = r.recurring /\ s.retries = r.retries
            /\ s.status = "running" /\ s.attempt = r.attempt + 1
        BY <2>2, <2>4 DEF JobRecord
      <4>2. Row(r).attempt = r.attempt
        BY DEF Row
      <4>3. Row(s) = [recurring |-> r.recurring, retries |-> r.retries,
                      status |-> "running", attempt |-> r.attempt + 1]
        BY <4>1 DEF Row
      <4>4. [Row(r) EXCEPT !.status = "running", !.attempt = @ + 1] =
              [Row(r) EXCEPT !.status = "running", !.attempt = r.attempt + 1]
        BY <4>2
      <4> QED BY <4>3, <4>4, RowExcept, Zenon
    <3>2. Row(r).status = "scheduled"
      BY <2>4 DEF Row
    <3>3. Table!Start(j)
      BY <1>2, <2>1, <3>1, <3>2 DEF Table!Start, TableNow, Rows, Row
    <3> QED BY <2>1, <3>3 DEF Table!Next, TableNow, Rows, Row
  <2>5. CASE r.status = "running" /\ RunMayEnd(r, s)
    <3>1. Table!Succeed(j) \/ Table!Retry(j) \/ Table!Fail(j)
      <4>1. Row(r).status = "running" /\ Row(r).recurring = r.recurring
            /\ Row(r).retries = r.retries /\ Row(r).attempt = r.attempt
        BY <2>5 DEF Row
      <4>2. CASE s.status = "scheduled" /\ r.recurring /\ s.attempt = 0
        <5>1. Row(s) = [Row(r) EXCEPT !.status = "scheduled", !.attempt = 0]
          <6>1. Row(s) = [recurring |-> r.recurring, retries |-> r.retries,
                          status |-> "scheduled", attempt |-> 0]
            BY <2>5, <4>2 DEF Row, RunMayEnd
          <6> QED BY <6>1, RowExcept, Zenon
        <5>2. Table!Put(j, [TableNow[j] EXCEPT !.status = "scheduled", !.attempt = 0])
          BY <1>2, <2>1, <5>1, Zenon
        <5>3. TableNow[j].status = "running" /\ TableNow[j].recurring
          BY <2>1, <4>1, <4>2
        <5> QED BY <5>2, <5>3, Zenon DEF Table!Succeed, TableNow, Rows, Row
      <4>3. CASE s.status = "done" /\ ~r.recurring /\ s.attempt = r.attempt
        <5>1. Row(s) = [Row(r) EXCEPT !.status = "done"]
          BY <2>5, <4>3 DEF Row, RunMayEnd
        <5> QED BY <1>2, <2>1, <4>1, <4>3, <5>1 DEF Table!Succeed, TableNow, Rows, Row
      <4>4. CASE s.status = "scheduled" /\ s.attempt = r.attempt /\ r.attempt <= r.retries
        <5>1. Row(s) = [Row(r) EXCEPT !.status = "scheduled"]
          BY <2>5, <4>4 DEF Row, RunMayEnd
        <5> QED BY <1>2, <2>1, <4>1, <4>4, <5>1 DEF Table!Retry, TableNow, Rows, Row
      <4>5. CASE /\ s.status = "failed" /\ s.attempt = r.attempt
                 /\ r.attempt = r.retries + 1
        <5>1. Row(s) = [Row(r) EXCEPT !.status = "failed"]
          BY <2>5, <4>5 DEF Row, RunMayEnd
        <5> QED BY <1>2, <2>1, <4>1, <4>5, <5>1 DEF Table!Fail, TableNow, Rows, Row
      <4> QED BY <2>5, <4>2, <4>3, <4>4, <4>5 DEF RunMayEnd
    <3> QED BY <2>1, <3>1 DEF Table!Next, TableNow, Rows, Row
  <2> QED BY <1>6, <2>3, <2>4, <2>5 DEF Leads
<1> QED BY <1>3, <1>5, <1>6 DEF MaySave

LEMMA TableStep ==
  ASSUME Alone PROVE AInv /\ [Next]_vars => [Table!Next]_TableNow
<1> SUFFICES ASSUME AInv, [Next]_vars PROVE Table!Next \/ TableNow' = TableNow
  OBVIOUS
<1>1. ASSUME NEW p \in Procs, FindStore(p) \/ Step(p) \/ Crash(p)
      PROVE  Table!Next \/ TableNow' = TableNow
  <2>1. CASE CreateStore(p)
    <3>1. stores = <<>> /\ Len(stores) = 0
      BY <2>1, EmptySeq DEF CreateStore, AInv, OneStore
    <3>2. Len(stores') = 1 /\ stores'[1] = <<>>
      BY <2>1, <3>1, CreateAppends DEF AInv, Numbered
    <3>3. Current = <<>> /\ Current' = <<>>
      BY <3>1, <3>2 DEF Current
    <3> QED BY <3>3 DEF TableNow, Rows
  <2>2. CASE Write(p)
    BY <2>2, WriteTable
  <2>3. CASE ~CreateStore(p) /\ ~Write(p)
    <3>1. stores' = stores
      BY <1>1, <2>3, QuietStep DEF AInv, Numbered
    <3> QED BY <3>1 DEF TableNow, Rows, Current
  <2> QED BY <2>1, <2>2, <2>3
<1>2. CASE Pass \/ UNCHANGED vars
  <2>1. stores' = stores
    BY <1>2 DEF Pass, vars
  <2> QED BY <2>1 DEF TableNow, Rows, Current
<1> QED BY <1>1, <1>2 DEF Next

(* While commands do not overlap, the newest store is the job table of     *)
(* JobLifecycle: every line appended is one legal step of one job, and     *)
(* nothing else changes the table, whenever processes die (JobStore.save,  *)
(* Scheduler.enqueue, cancel and run_job).                                 *)
THEOREM AloneImplementsLifecycle == ASSUME Alone PROVE Spec => ImplementsLifecycle
<1>1. AInv /\ [Next]_vars => [Table!Next]_TableNow
  BY TableStep
<1>2. AInv /\ [Next]_vars => AInv'
  BY AInvNext
<1> QED BY <1>1, <1>2, InitAInv, InitTable, PTL
    DEF Spec, ImplementsLifecycle, Table!Spec, TableNow, Rows, Row
=============================================================================
