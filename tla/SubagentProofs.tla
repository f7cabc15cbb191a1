--------------------------- MODULE SubagentProofs ---------------------------
(***************************************************************************)
(* Theorems of the subagent tool, for any number of tasks, any limit of    *)
(* concurrency, any number of callers of stop() and both kinds of call.     *)
(***************************************************************************)
EXTENDS Subagent, SequenceTheorems, FiniteSetTheorems, TLAPS

(* The tasks that hold a permit.                                           *)
Holding == {i \in Tasks : slot[i] \in {"starting", "waiting"}}

PermitsCounted == permits + Cardinality(Holding) = Limit

(* A child exists as long as its task has got beyond the spawn.            *)
SpawnedOnce ==
  \A i \in Tasks : child[i] # "none" => slot[i] \in {"waiting", "collected"}

(* The two halves of a handle agree.                                       *)
HandleAgrees ==
  \A i \in Tasks : (status[i] # "running" => result[i] # NoResult)
                   /\ (result[i] # NoResult => status[i] # "running")

CollectedResolved == \A i \in Tasks : slot[i] = "collected" => result[i] # NoResult

StoppersPlaced ==
  \A s \in Stoppers : stopper[s].at \in {"grace", "killing"} => stopper[s].task \in Tasks

IInv ==
  /\ ChildrenTyped
  /\ PermitsCounted
  /\ SpawnedOnce
  /\ HandleAgrees
  /\ CollectedResolved
  /\ ResolvedMeansGone
  /\ StoppersPlaced

LEMMA LimitType == Limit \in Nat \ {0}
BY SubagentAssumption DEF Limit

LEMMA TasksFinite ==
  ASSUME NEW S, S \subseteq Tasks
  PROVE  IsFiniteSet(S) /\ Cardinality(S) \in Nat
<1>1. PICK n \in Nat : Tasks = 1..n
  BY SubagentAssumption DEF Tasks
<1>2. IsFiniteSet(1..n)
  BY <1>1, FS_Interval
<1>3. IsFiniteSet(S)
  BY <1>1, <1>2, FS_Subset
<1> QED BY <1>3, FS_CardinalityType

LEMMA InitIInv == Init => IInv
<1> SUFFICES ASSUME Init PROVE IInv
  OBVIOUS
<1>1. Holding = {}
  BY DEF Init, Holding
<1>2. PermitsCounted
  BY <1>1, FS_EmptySet, LimitType DEF Init, PermitsCounted
<1>3. ChildrenTyped
  BY LimitType, EmptySeq DEF Init, ChildrenTyped, NoResult, Final, Running
<1>4. SpawnedOnce /\ HandleAgrees /\ CollectedResolved /\ ResolvedMeansGone /\ StoppersPlaced
  BY DEF Init, SpawnedOnce, HandleAgrees, CollectedResolved, ResolvedMeansGone, StoppersPlaced, NoResult
<1> QED BY <1>2, <1>3, <1>4 DEF IInv

(* A task takes a permit, or gives one back.                               *)
LEMMA TakePermit ==
  ASSUME IInv, NEW i \in Tasks, slot[i] = "queued", permits > 0,
         slot' = [slot EXCEPT ![i] = "starting"], permits' = permits - 1, mode' = mode
  PROVE  PermitsCounted' /\ permits' \in 0..Limit
<1>1. Holding' = Holding \cup {i} /\ i \notin Holding
  BY DEF Holding, IInv, ChildrenTyped
<1>2. IsFiniteSet(Holding) /\ Cardinality(Holding) \in Nat
  BY TasksFinite DEF Holding
<1>3. Cardinality(Holding') = Cardinality(Holding) + 1
  BY <1>1, <1>2, FS_AddElement
<1>4. permits \in 0..Limit /\ permits + Cardinality(Holding) = Limit /\ Limit \in Nat
  BY LimitType DEF IInv, ChildrenTyped, PermitsCounted
<1>5. permits' + Cardinality(Holding') = Limit
  BY <1>2, <1>3, <1>4
<1> QED BY <1>4, <1>5 DEF PermitsCounted, Limit

LEMMA ReturnPermit ==
  ASSUME IInv, NEW i \in Tasks, slot[i] \in {"starting", "waiting"},
         NEW at \in {"failed", "collected"},
         slot' = [slot EXCEPT ![i] = at], permits' = permits + 1, mode' = mode
  PROVE  PermitsCounted' /\ permits' \in 0..Limit
<1>1. Holding' = Holding \ {i} /\ i \in Holding
  BY DEF Holding, IInv, ChildrenTyped
<1>2. IsFiniteSet(Holding) /\ Cardinality(Holding) \in Nat
  BY TasksFinite DEF Holding
<1>3. Cardinality(Holding') = Cardinality(Holding) - 1
  BY <1>1, <1>2, FS_RemoveElement
<1>4. permits \in 0..Limit /\ permits + Cardinality(Holding) = Limit /\ Limit \in Nat
  BY LimitType DEF IInv, ChildrenTyped, PermitsCounted
<1>5. Cardinality(Holding') \in Nat
  BY <1>1, TasksFinite DEF Holding
<1>6. permits' + Cardinality(Holding') = Limit
  BY <1>2, <1>3, <1>4
<1> QED BY <1>3, <1>4, <1>5, <1>6 DEF PermitsCounted, Limit

(* The other steps leave the permits alone.                                *)
LEMMA KeepPermits ==
  ASSUME IInv, permits' = permits, Holding' = Holding, mode' = mode
  PROVE  PermitsCounted' /\ permits' \in 0..Limit
BY DEF IInv, ChildrenTyped, PermitsCounted, Limit

(* Resolving the handle of a child that is gone.                           *)
LEMMA MarkDoneKeeps ==
  ASSUME IInv, NEW i \in Tasks, NEW st \in Final, NEW n \in Nat,
         MarkDone(i, [status |-> st, text |-> n]),
         child[i] = "gone", UNCHANGED <<slot, child>>
  PROVE  /\ status' \in [Tasks -> Final \cup {"running"}]
         /\ result' \in [Tasks -> [status : Final \cup {"running"}, text : Nat]]
         /\ HandleAgrees' /\ CollectedResolved' /\ ResolvedMeansGone'
<1> USE DEF IInv, ChildrenTyped
<1>1. CASE result[i] # NoResult
  BY <1>1 DEF MarkDone, handle, HandleAgrees, CollectedResolved, ResolvedMeansGone
<1>2. CASE result[i] = NoResult
  <2> DEFINE r == [status |-> st, text |-> n]
  <2>1. /\ status' = [status EXCEPT ![i] = st]
        /\ result' = [result EXCEPT ![i] = r]
    BY <1>2 DEF MarkDone
  <2>2. r # NoResult /\ st # "running"
    BY DEF NoResult, Final
  <2>3. r \in [status : Final \cup {"running"}, text : Nat]
    OBVIOUS
  <2> HIDE DEF r
  <2> QED BY <2>1, <2>2, <2>3 DEF HandleAgrees, CollectedResolved, ResolvedMeansGone
<1> QED BY <1>1, <1>2

LEMMA SlotStep ==
  ASSUME IInv, NEW i \in Tasks, Slot(i) \/ SkipStep(i)
  PROVE  IInv'
<1> USE DEF IInv
<1>1. CASE Acquire(i)
  <2>1. PermitsCounted' /\ permits' \in 0..Limit
    BY <1>1, TakePermit DEF Acquire
  <2> QED BY <1>1, <2>1
      DEF Acquire, ChildrenTyped, process, driving, handle, SpawnedOnce, HandleAgrees,
          CollectedResolved, ResolvedMeansGone, StoppersPlaced, Limit
<1>2. CASE Spawn(i)
  <2>1. Holding' = Holding
    BY <1>2 DEF Spawn, Holding, ChildrenTyped
  <2>2. PermitsCounted' /\ permits' \in 0..Limit
    BY <1>2, <2>1, KeepPermits DEF Spawn
  <2>3. child[i] = "none"
    BY <1>2 DEF Spawn, SpawnedOnce
  <2>4. status[i] = "running" /\ result[i] = NoResult
    BY <2>3 DEF ResolvedMeansGone, HandleAgrees
  <2>5. ChildrenTyped'
    BY <1>2, <2>2 DEF Spawn, ChildrenTyped, handle, Running, Limit
  <2>6. SpawnedOnce'
    BY <1>2 DEF Spawn, SpawnedOnce, ChildrenTyped
  <2>7. HandleAgrees' /\ CollectedResolved' /\ ResolvedMeansGone' /\ StoppersPlaced'
    BY <1>2, <2>4
    DEF Spawn, ChildrenTyped, handle, HandleAgrees, CollectedResolved, ResolvedMeansGone, StoppersPlaced
  <2> QED BY <2>2, <2>5, <2>6, <2>7
<1>3. CASE SpawnFails(i)
  <2>1. PermitsCounted' /\ permits' \in 0..Limit
    BY <1>3, ReturnPermit DEF SpawnFails
  <2> QED BY <1>3, <2>1
      DEF SpawnFails, ChildrenTyped, process, driving, handle, SpawnedOnce, HandleAgrees,
          CollectedResolved, ResolvedMeansGone, StoppersPlaced, Limit
<1>4. CASE Collect(i)
  <2>1. PermitsCounted' /\ permits' \in 0..Limit
    BY <1>4, ReturnPermit DEF Collect
  <2> QED BY <1>4, <2>1
      DEF Collect, ChildrenTyped, process, driving, handle, SpawnedOnce, HandleAgrees,
          CollectedResolved, ResolvedMeansGone, StoppersPlaced, Limit
<1>5. CASE SkipStep(i)
  <2>1. Holding' = Holding
    BY <1>5 DEF SkipStep, Holding, ChildrenTyped
  <2>2. PermitsCounted' /\ permits' \in 0..Limit
    BY <1>5, <2>1, KeepPermits DEF SkipStep
  <2> QED BY <1>5, <2>2
      DEF SkipStep, ChildrenTyped, process, driving, handle, SpawnedOnce, HandleAgrees,
          CollectedResolved, ResolvedMeansGone, StoppersPlaced, Limit
<1> QED BY <1>1, <1>2, <1>3, <1>4, <1>5 DEF Slot

(* What a step of a child, a driving task or a stopper has to establish.   *)
LEMMA OutsideCall ==
  ASSUME IInv, UNCHANGED call, ChildrenTyped', StoppersPlaced',
         \A i \in Tasks : child'[i] # "none" => child[i] # "none",
         HandleAgrees' /\ CollectedResolved' /\ ResolvedMeansGone'
  PROVE  IInv'
<1>1. slot' = slot /\ permits' = permits /\ Holding' = Holding /\ mode' = mode
  BY DEF call, Holding
<1>2. PermitsCounted'
  BY <1>1, KeepPermits
<1>3. SpawnedOnce'
  BY <1>1 DEF IInv, SpawnedOnce
<1> QED BY <1>2, <1>3 DEF IInv

LEMMA ChildStep ==
  ASSUME IInv, NEW i \in Tasks,
         \/ \E e \in {"text", "bad"} : WriteLine(i, e)
         \/ \E e \in {"done", "error", "aborted"} : Conclude(i, e)
         \/ Crash(i) \/ Exit(i)
  PROVE  IInv'
<1> USE DEF IInv
<1>1. CASE \E e \in {"text", "bad"} : WriteLine(i, e)
  <2>1. PICK e \in {"text", "bad"} : WriteLine(i, e)
    BY <1>1
  <2>2. e \in Lines /\ out[i] \in Seq(Lines) /\ Append(out[i], e) \in Seq(Lines)
    BY AppendProperties DEF Lines, ChildrenTyped
  <2>3. ChildrenTyped'
    BY <2>1, <2>2 DEF WriteLine, ChildrenTyped, call, driving, handle, Limit
  <2> QED BY <2>1, <2>3, OutsideCall
      DEF WriteLine, call, driving, handle, HandleAgrees, CollectedResolved,
          ResolvedMeansGone, StoppersPlaced
<1>2. CASE \E e \in {"done", "error", "aborted"} : Conclude(i, e)
  <2>1. PICK e \in {"done", "error", "aborted"} : Conclude(i, e)
    BY <1>2
  <2>2. e \in Lines /\ out[i] \in Seq(Lines) /\ Append(out[i], e) \in Seq(Lines)
    BY AppendProperties DEF Lines, ChildrenTyped
  <2>3. ChildrenTyped'
    BY <2>1, <2>2 DEF Conclude, ChildrenTyped, call, driving, handle, Limit, Running
  <2>4. child[i] = "alive" /\ status[i] = "running"
    BY <2>1 DEF Conclude, ResolvedMeansGone
  <2> QED BY <2>1, <2>3, <2>4, OutsideCall, SMTT(20)
      DEF Conclude, ChildrenTyped, call, driving, handle, HandleAgrees, CollectedResolved,
          ResolvedMeansGone, StoppersPlaced
<1>3. CASE Crash(i)
  <2>1. ChildrenTyped'
    BY <1>3 DEF Crash, ChildrenTyped, call, driving, handle, Limit
  <2>2. child[i] = "alive" /\ child' = [child EXCEPT ![i] = "gone"]
        /\ UNCHANGED <<call, handle, stopper>>
    BY <1>3 DEF Crash
  <2>3. \A k \in Tasks : child'[k] # "none" => child[k] # "none"
    BY <2>2 DEF ChildrenTyped
  <2>4. HandleAgrees' /\ CollectedResolved' /\ ResolvedMeansGone' /\ StoppersPlaced'
    BY <2>2 DEF ChildrenTyped, call, handle, HandleAgrees, CollectedResolved,
                ResolvedMeansGone, StoppersPlaced
  <2> QED BY <2>1, <2>2, <2>3, <2>4, OutsideCall
<1>4. CASE Exit(i)
  <2>1. ChildrenTyped'
    BY <1>4 DEF Exit, ChildrenTyped, call, driving, handle, Limit
  <2>2. child[i] # "none" /\ child' = [child EXCEPT ![i] = "gone"]
        /\ UNCHANGED <<call, handle, stopper>>
    BY <1>4 DEF Exit
  <2>3. \A k \in Tasks : child'[k] # "none" => child[k] # "none"
    BY <2>2 DEF ChildrenTyped
  <2>4. HandleAgrees' /\ CollectedResolved' /\ ResolvedMeansGone' /\ StoppersPlaced'
    BY <2>2 DEF ChildrenTyped, call, handle, HandleAgrees, CollectedResolved,
                ResolvedMeansGone, StoppersPlaced
  <2> QED BY <2>1, <2>2, <2>3, <2>4, OutsideCall
<1> QED BY <1>1, <1>2, <1>3, <1>4

(* A kill leaves handles and their processes as they were.                 *)
LEMMA KillKeeps ==
  ASSUME IInv, NEW i \in Tasks, Kill(i) \/ KillRaises(i), UNCHANGED <<slot, handle>>
  PROVE  /\ child' \in [Tasks -> Running \cup {"none", "gone"}]
         /\ UNCHANGED <<ending, out, told>>
         /\ \A k \in Tasks : child'[k] # "none" => child[k] # "none"
         /\ HandleAgrees' /\ CollectedResolved' /\ ResolvedMeansGone'
<1> USE DEF IInv, ChildrenTyped, handle
<1>1. CASE Kill(i)
  <2>1. status[i] = "running"
    BY <1>1 DEF Kill, ResolvedMeansGone, Running
  <2> QED BY <1>1, <2>1 DEF Kill, Running, HandleAgrees, CollectedResolved, ResolvedMeansGone
<1>2. CASE KillRaises(i)
  BY <1>2 DEF KillRaises, process, HandleAgrees, CollectedResolved, ResolvedMeansGone
<1> QED BY <1>1, <1>2

LEMMA DriverStep ==
  ASSUME IInv, NEW i \in Tasks, Driver(i) \/ DriveTimesOut(i)
  PROVE  IInv'
<1> USE DEF IInv
<1>1. CASE PumpLine(i)
  <2>1. out[i] \in Seq(Lines) /\ out[i] # <<>>
    BY <1>1 DEF PumpLine, ChildrenTyped
  <2>2. Tail(out[i]) \in Seq(Lines)
    BY <2>1, HeadTailProperties
  <2>3. out' \in [Tasks -> Seq(Lines)]
    BY <1>1, <2>2 DEF PumpLine, ChildrenTyped
  <2>4. texts' \in [Tasks -> Nat]
    BY <1>1 DEF PumpLine, ChildrenTyped
  <2>5. verdict' \in [Tasks -> Final]
    <3> DEFINE v == CASE Head(out[i]) = "error"   -> "error"
                      [] Head(out[i]) = "aborted" -> "killed"
                      [] OTHER                    -> verdict[i]
    <3>1. v \in Final
      BY DEF ChildrenTyped, Final
    <3> HIDE DEF v
    <3>2. verdict' = [verdict EXCEPT ![i] = v]
      BY <1>1 DEF PumpLine, v
    <3> QED BY <3>1, <3>2 DEF ChildrenTyped
  <2>6. drive' \in [Tasks -> {"none", "pumping", "killing", "ended", "broken"}]
    BY <1>1 DEF PumpLine, ChildrenTyped
  <2>7. ChildrenTyped'
    BY <1>1, <2>3, <2>4, <2>5, <2>6 DEF PumpLine, ChildrenTyped, call, handle, Limit
  <2> QED BY <1>1, <2>7, OutsideCall
      DEF PumpLine, call, handle, HandleAgrees, CollectedResolved, ResolvedMeansGone, StoppersPlaced
<1>2. CASE DriveEnds(i)
  <2> DEFINE st == IF ~ExitCodeZero(i) /\ verdict[i] = "done" THEN "error" ELSE verdict[i]
  <2>1. st \in Final /\ texts[i] \in Nat
    BY DEF ChildrenTyped, Final
  <2>2. /\ MarkDone(i, [status |-> st, text |-> texts[i]])
        /\ child[i] = "gone" /\ UNCHANGED <<slot, child>>
    BY <1>2 DEF DriveEnds, call, process
  <2> HIDE DEF st
  <2>3. /\ status' \in [Tasks -> Final \cup {"running"}]
        /\ result' \in [Tasks -> [status : Final \cup {"running"}, text : Nat]]
        /\ HandleAgrees' /\ CollectedResolved' /\ ResolvedMeansGone'
    BY <2>1, <2>2, MarkDoneKeeps
  <2>4. ChildrenTyped'
    BY <1>2, <2>3 DEF DriveEnds, ChildrenTyped, call, process, Limit
  <2> QED BY <1>2, <2>3, <2>4, OutsideCall DEF DriveEnds, call, process, StoppersPlaced
<1>3. CASE DriveReaped(i)
  <2>1. /\ "timeout" \in Final /\ texts[i] \in Nat
        /\ MarkDone(i, [status |-> "timeout", text |-> texts[i]])
        /\ child[i] = "gone" /\ UNCHANGED <<slot, child>>
    BY <1>3 DEF DriveReaped, call, process, ChildrenTyped, Final
  <2>2. /\ status' \in [Tasks -> Final \cup {"running"}]
        /\ result' \in [Tasks -> [status : Final \cup {"running"}, text : Nat]]
        /\ HandleAgrees' /\ CollectedResolved' /\ ResolvedMeansGone'
    BY <2>1, MarkDoneKeeps
  <2>3. ChildrenTyped'
    BY <1>3, <2>2 DEF DriveReaped, ChildrenTyped, call, process, Limit
  <2> QED BY <1>3, <2>2, <2>3, OutsideCall DEF DriveReaped, call, process, StoppersPlaced
<1>4. CASE DriveTimesOut(i)
  <2>1. (Kill(i) \/ KillRaises(i)) /\ UNCHANGED <<call, handle, stopper, verdict, texts>>
    BY <1>4 DEF DriveTimesOut
  <2>2. /\ child' \in [Tasks -> Running \cup {"none", "gone"}]
        /\ UNCHANGED <<ending, out, told>>
        /\ \A k \in Tasks : child'[k] # "none" => child[k] # "none"
        /\ HandleAgrees' /\ CollectedResolved' /\ ResolvedMeansGone'
    BY <2>1, KillKeeps DEF call
  <2>3. drive' \in [Tasks -> {"none", "pumping", "killing", "ended", "broken"}]
    <3>1. drive' = [drive EXCEPT ![i] = "killing"] \/ drive' = [drive EXCEPT ![i] = "broken"]
      BY <1>4 DEF DriveTimesOut
    <3> QED BY <3>1 DEF ChildrenTyped
  <2>4. ChildrenTyped'
    BY <2>1, <2>2, <2>3 DEF ChildrenTyped, call, handle, Limit
  <2> QED BY <2>1, <2>2, <2>4, OutsideCall DEF StoppersPlaced
<1> QED BY <1>1, <1>2, <1>3, <1>4 DEF Driver

LEMMA StopperMoves ==
  ASSUME IInv, NEW s \in Stoppers, NEW i \in Tasks,
         NEW at \in {"grace", "killing", "returned", "raised"}, Become(s, at, i)
  PROVE  /\ StoppersPlaced'
         /\ stopper' \in [Stoppers -> [at : {"away", "grace", "killing", "returned", "raised"},
                                       task : {0} \cup Tasks]]
<1>1. [at |-> at, task |-> i] \in [at : {"away", "grace", "killing", "returned", "raised"},
                                   task : {0} \cup Tasks]
  OBVIOUS
<1> QED BY <1>1 DEF Become, IInv, ChildrenTyped, StoppersPlaced

LEMMA StopStep ==
  ASSUME IInv, NEW s \in Stoppers, NEW i \in Tasks, Stop(s, i)
  PROVE  IInv'
<1> USE DEF IInv
<1>1. Become(s, "returned", i) \/ Become(s, "grace", i)
  BY DEF Stop
<1>2. /\ StoppersPlaced'
      /\ stopper' \in [Stoppers -> [at : {"away", "grace", "killing", "returned", "raised"},
                                    task : {0} \cup Tasks]]
  BY <1>1, StopperMoves
<1>3. told' \in [Tasks -> BOOLEAN]
  <2>1. CASE told' = told
    BY <2>1 DEF ChildrenTyped
  <2>2. CASE told' = [told EXCEPT ![i] = @ \/ child[i] = "alive"]
    <3>1. (told[i] \/ child[i] = "alive") \in BOOLEAN
      BY DEF ChildrenTyped
    <3> QED BY <2>2, <3>1 DEF ChildrenTyped
  <2> QED BY <2>1, <2>2 DEF Stop
<1>4. ChildrenTyped'
  BY <1>2, <1>3 DEF Stop, ChildrenTyped, call, driving, handle, Limit
<1> QED BY <1>2, <1>4, OutsideCall
    DEF Stop, call, driving, handle, HandleAgrees, CollectedResolved, ResolvedMeansGone

LEMMA StoppingStep ==
  ASSUME IInv, NEW s \in Stoppers, Stopping(s)
  PROVE  IInv'
<1> USE DEF IInv
<1> DEFINE i == stopper[s].task
<1>1. i \in Tasks
  BY DEF Stopping, StopSettled, StopTimesOut, StopReaped, StoppersPlaced
<1>2. \E at \in {"grace", "killing", "returned", "raised"} : Become(s, at, i)
  BY DEF Stopping, StopSettled, StopTimesOut, StopReaped
<1>3. /\ StoppersPlaced'
      /\ stopper' \in [Stoppers -> [at : {"away", "grace", "killing", "returned", "raised"},
                                    task : {0} \cup Tasks]]
  BY <1>1, <1>2, StopperMoves
<1>4. CASE StopSettled(s)
  <2>1. ChildrenTyped'
    BY <1>3, <1>4 DEF StopSettled, ChildrenTyped, call, process, driving, handle, Limit
  <2> QED BY <1>3, <1>4, <2>1, OutsideCall
      DEF StopSettled, call, process, driving, handle, HandleAgrees, CollectedResolved, ResolvedMeansGone
<1>5. CASE StopTimesOut(s)
  <2>1. (Kill(i) \/ KillRaises(i)) /\ UNCHANGED <<call, driving, handle>>
    BY <1>5 DEF StopTimesOut
  <2>2. /\ child' \in [Tasks -> Running \cup {"none", "gone"}]
        /\ UNCHANGED <<ending, out, told>>
        /\ \A k \in Tasks : child'[k] # "none" => child[k] # "none"
        /\ HandleAgrees' /\ CollectedResolved' /\ ResolvedMeansGone'
    BY <1>1, <2>1, KillKeeps DEF call
  <2>3. ChildrenTyped'
    BY <1>3, <2>1, <2>2 DEF ChildrenTyped, call, driving, handle, Limit
  <2> QED BY <1>3, <2>1, <2>2, <2>3, OutsideCall
<1>6. CASE StopReaped(s)
  <2>1. /\ child[i] = "gone" /\ UNCHANGED <<call, process, driving>>
        /\ UNCHANGED <<slot, child>>
    BY <1>6 DEF StopReaped, call, process
  <2>2. /\ status' \in [Tasks -> Final \cup {"running"}]
        /\ result' \in [Tasks -> [status : Final \cup {"running"}, text : Nat]]
        /\ HandleAgrees' /\ CollectedResolved' /\ ResolvedMeansGone'
    <3>1. CASE status[i] = "running"
      <4>1. MarkDone(i, [status |-> "killed", text |-> 0]) /\ "killed" \in Final
        BY <1>6, <3>1 DEF StopReaped, Final
      <4> QED BY <1>1, <2>1, <4>1, MarkDoneKeeps
    <3>2. CASE status[i] # "running"
      BY <1>6, <2>1, <3>2
      DEF StopReaped, handle, ChildrenTyped, HandleAgrees, CollectedResolved, ResolvedMeansGone
    <3> QED BY <3>1, <3>2
  <2>3. ChildrenTyped'
    BY <1>3, <2>1, <2>2 DEF ChildrenTyped, call, process, driving, Limit
  <2>4. \A k \in Tasks : child'[k] # "none" => child[k] # "none"
    BY <2>1
  <2> QED BY <1>3, <2>1, <2>2, <2>3, <2>4, OutsideCall
<1> QED BY <1>4, <1>5, <1>6 DEF Stopping

LEMMA IInvStep == IInv /\ [Next]_vars => IInv'
<1> SUFFICES ASSUME IInv, [Next]_vars PROVE IInv'
  OBVIOUS
<1>1. ASSUME NEW i \in Tasks, Slot(i) \/ SkipStep(i) PROVE IInv'
  BY <1>1, SlotStep
<1>2. ASSUME NEW i \in Tasks,
             \/ \E e \in {"text", "bad"} : WriteLine(i, e)
             \/ \E e \in {"done", "error", "aborted"} : Conclude(i, e)
             \/ Crash(i) \/ Exit(i)
      PROVE  IInv'
  BY <1>2, ChildStep
<1>3. ASSUME NEW i \in Tasks, Driver(i) \/ DriveTimesOut(i) PROVE IInv'
  BY <1>3, DriverStep
<1>4. ASSUME NEW i \in Tasks, NEW s \in Stoppers, Stop(s, i) PROVE IInv'
  BY <1>4, StopStep
<1>5. ASSUME NEW s \in Stoppers, Stopping(s) PROVE IInv'
  BY <1>5, StoppingStep
<1>6. CASE Return
  <2>1. Holding' = Holding /\ permits' = permits /\ mode' = mode
    BY <1>6 DEF Return, Holding
  <2>2. PermitsCounted'
    BY <2>1, KeepPermits
  <2> QED BY <1>6, <2>2
      DEF Return, IInv, ChildrenTyped, process, driving, handle, SpawnedOnce, HandleAgrees,
          CollectedResolved, ResolvedMeansGone, StoppersPlaced, Limit
<1>7. CASE UNCHANGED vars
  <2>1. Holding' = Holding /\ permits' = permits /\ mode' = mode
    BY <1>7 DEF vars, subagentVars, call, Holding
  <2>2. PermitsCounted'
    BY <2>1, KeepPermits
  <2> QED BY <1>7, <2>2
      DEF vars, subagentVars, IInv, ChildrenTyped, call, process, driving, handle, SpawnedOnce, HandleAgrees,
          CollectedResolved, ResolvedMeansGone, StoppersPlaced, Limit
<1> QED BY <1>1, <1>2, <1>3, <1>4, <1>5, <1>6, <1>7 DEF Next

LEMMA IInvAlways == Spec => []IInv
BY InitIInv, IInvStep, PTL DEF Spec

(* Every value stays in its type; the permits never exceed their limit.    *)
THEOREM TypeCorrect == Spec => []ChildrenTyped
<1>1. IInv => ChildrenTyped
  BY DEF IInv
<1> QED BY <1>1, IInvAlways, PTL

(* A handle is resolved only when its process is gone, however the driving *)
(* task, its timeout and any number of callers of stop() race.             *)
THEOREM AlwaysResolvedMeansGone == Spec => []ResolvedMeansGone
<1>1. IInv => ResolvedMeansGone
  BY DEF IInv
<1> QED BY <1>1, IInvAlways, PTL

(* The processes alive at a time never outnumber the permits of the call:  *)
(* each belongs to a task that still waits for it.                         *)
THEOREM AlwaysAtMostConcurrent == Spec => []AtMostConcurrent
<1>1. IInv => AtMostConcurrent
  <2> SUFFICES ASSUME IInv PROVE AtMostConcurrent
    OBVIOUS
  <2> DEFINE Alive == {i \in Tasks : child[i] \in Running}
  <2>1. Alive \subseteq Holding
    <3> SUFFICES ASSUME NEW i \in Tasks, child[i] \in Running
                 PROVE  slot[i] = "waiting"
      BY DEF Holding
    <3>1. status[i] = "running" /\ child[i] # "none"
      BY DEF IInv, ResolvedMeansGone, Running
    <3>2. result[i] = NoResult
      BY <3>1 DEF IInv, HandleAgrees
    <3> QED BY <3>1, <3>2 DEF IInv, SpawnedOnce, CollectedResolved
  <2>2. IsFiniteSet(Holding) /\ Cardinality(Holding) \in Nat /\ Cardinality(Alive) \in Nat
    BY TasksFinite DEF Holding
  <2>3. Cardinality(Alive) <= Cardinality(Holding)
    BY <2>1, <2>2, FS_Subset
  <2>4. Cardinality(Holding) <= Limit
    BY <2>2, LimitType DEF IInv, ChildrenTyped, PermitsCounted
  <2>5. Cardinality(Alive) <= Limit
    BY <2>2, <2>3, <2>4, LimitType
  <2> QED BY <2>5 DEF AtMostConcurrent
<1> QED BY <1>1, IInvAlways, PTL

(* mark_done: no later call of it changes what a handle was resolved to.   *)
THEOREM FirstResultAlwaysStays == Spec => FirstResultStays
<1> DEFINE Stays == \A i \in Tasks : result[i] # NoResult => UNCHANGED <<status[i], result[i]>>
<1>1. IInv /\ [Next]_vars => [Stays]_subagentVars
  <2> SUFFICES ASSUME IInv, Next PROVE Stays
    BY DEF vars, subagentVars
  <2>1. CASE UNCHANGED handle
    BY <2>1 DEF handle
  <2>2. ASSUME NEW i \in Tasks, NEW r, MarkDone(i, r) PROVE Stays
    BY <2>2 DEF MarkDone, handle, IInv, ChildrenTyped
  <2>3. UNCHANGED handle \/ \E i \in Tasks : \E st, n : MarkDone(i, [status |-> st, text |-> n])
    <3>1. ASSUME NEW i \in Tasks, Slot(i) \/ SkipStep(i) PROVE UNCHANGED handle
      BY <3>1 DEF Slot, SkipStep, Acquire, Spawn, SpawnFails, Collect
    <3>2. ASSUME NEW i \in Tasks,
                 \/ \E e \in {"text", "bad"} : WriteLine(i, e)
                 \/ \E e \in {"done", "error", "aborted"} : Conclude(i, e)
                 \/ Crash(i) \/ Exit(i)
          PROVE  UNCHANGED handle
      BY <3>2 DEF WriteLine, Conclude, Crash, Exit
    <3>3. ASSUME NEW i \in Tasks, Driver(i)
          PROVE  UNCHANGED handle \/ \E st, n : MarkDone(i, [status |-> st, text |-> n])
      BY <3>3 DEF Driver, PumpLine, DriveEnds, DriveReaped
    <3>4. ASSUME NEW i \in Tasks, DriveTimesOut(i) PROVE UNCHANGED handle
      BY <3>4 DEF DriveTimesOut
    <3>5. ASSUME NEW s \in Stoppers, NEW i \in Tasks, Stop(s, i) PROVE UNCHANGED handle
      BY <3>5 DEF Stop
    <3>6. ASSUME NEW s \in Stoppers, Stopping(s)
          PROVE  UNCHANGED handle
                 \/ \E i \in Tasks : \E st, n : MarkDone(i, [status |-> st, text |-> n])
      <4>1. CASE StopSettled(s) \/ StopTimesOut(s)
        BY <4>1 DEF StopSettled, StopTimesOut
      <4>2. CASE StopReaped(s)
        <5>1. stopper[s].task \in Tasks
          BY <4>2 DEF StopReaped, IInv, StoppersPlaced
        <5> QED BY <4>2, <5>1 DEF StopReaped
      <4> QED BY <3>6, <4>1, <4>2 DEF Stopping
    <3>7. CASE Return
      BY <3>7 DEF Return
    <3> QED BY <3>1, <3>2, <3>3, <3>4, <3>5, <3>6, <3>7 DEF Next
  <2> QED BY <2>1, <2>2, <2>3
<1>2. FirstResultStays <=> [][Stays]_subagentVars
  BY DEF FirstResultStays
<1> QED BY <1>1, <1>2, IInvAlways, PTL DEF Spec

(***************************************************************************)
(* What a child that was told to stop says is heard: "aborted" is its last *)
(* line, so it is still in the pipe or the verdict knows it.               *)
(***************************************************************************)
EndsLast == \A i \in Tasks : child[i] \in {"none", "alive"} => ending[i] = "none"

AbortHeard ==
  \A i \in Tasks :
    ending[i] = "aborted" =>
      \/ verdict[i] # "done"
      \/ out[i] # <<>> /\ out[i][Len(out[i])] = "aborted"

Honest == EndsLast /\ AbortHeard /\ DoneIsHonest

LEMMA LastOfAppend ==
  ASSUME NEW q \in Seq(Lines), NEW e \in Lines
  PROVE  /\ Append(q, e) # <<>>
         /\ Append(q, e)[Len(Append(q, e))] = e
BY AppendProperties, LenProperties, EmptySeq

LEMMA LastOfTail ==
  ASSUME NEW q \in Seq(Lines), q # <<>>
  PROVE  /\ Len(q) = 1 => q[Len(q)] = Head(q)
         /\ Len(q) # 1 => Tail(q) # <<>> /\ Tail(q)[Len(Tail(q))] = q[Len(q)]
<1>1. Len(q) \in Nat \ {0} /\ Head(q) = q[1] /\ Len(Tail(q)) = Len(q) - 1
  BY HeadTailProperties, EmptySeq, LenProperties
<1>2. ASSUME Len(q) # 1 PROVE Tail(q) # <<>> /\ Tail(q)[Len(Tail(q))] = q[Len(q)]
  <2>1. /\ Len(Tail(q)) \in 1..Len(Tail(q)) /\ Len(Tail(q)) + 1 = Len(q)
        /\ Len(Tail(q)) # 0
    BY <1>1, <1>2
  <2>2. \A k \in 1..Len(Tail(q)) : Tail(q)[k] = q[k + 1]
    BY HeadTailProperties, <1>1
  <2>3. CASE Tail(q) = <<>>
    <3>1. Len(Tail(q)) = 0
      BY <2>3, LenProperties, EmptySeq
    <3> QED BY <2>1, <3>1
  <2> QED BY <2>1, <2>2, <2>3
<1> QED BY <1>1, <1>2

LEMMA InitHonest == Init => Honest
BY DEF Init, Honest, EndsLast, AbortHeard, DoneIsHonest, NoResult

(* A step that resolves no handle as done and changes nothing of a child.  *)
LEMMA KeepHonest ==
  ASSUME Honest, IInv, UNCHANGED <<ending, out, verdict>>,
         \A i \in Tasks : child'[i] \in {"none", "alive"} => child[i] \in {"none", "alive"},
         \A i \in Tasks : result'[i].status = "done" => result[i].status = "done"
  PROVE  Honest'
BY DEF Honest, EndsLast, AbortHeard, DoneIsHonest

(* The result of a task is set once, to r; the others stay.                *)
LEMMA MarkedOnly ==
  ASSUME NEW i \in Tasks, NEW r, MarkDone(i, r), r.status # "done", ChildrenTyped
  PROVE  \A k \in Tasks : result'[k].status = "done" => result[k].status = "done"
BY DEF MarkDone, handle, ChildrenTyped

LEMMA HonestStep == Honest /\ IInv /\ IInv' /\ [Next]_vars => Honest'
<1> SUFFICES ASSUME Honest, IInv, IInv', [Next]_vars PROVE Honest'
  OBVIOUS
<1> USE DEF process, driving, handle
\* Outside the child and its driving task.
<1>1. ASSUME NEW i \in Tasks, Slot(i) \/ SkipStep(i) PROVE Honest'
  <2>1. CASE Spawn(i)
    <3>1. child[i] = "none"
      BY <2>1 DEF Spawn, IInv, ChildrenTyped, SpawnedOnce
    <3> QED BY <2>1, <3>1, KeepHonest DEF Spawn, IInv, ChildrenTyped
  <2>2. CASE Acquire(i) \/ SpawnFails(i) \/ Collect(i) \/ SkipStep(i)
    BY <2>2, KeepHonest DEF Acquire, SpawnFails, Collect, SkipStep
  <2> QED BY <1>1, <2>1, <2>2 DEF Slot
\* The child: what it has already been said to be done stays said.
<1>2. ASSUME NEW i \in Tasks, child[i] \in Running, UNCHANGED handle,
             \A k \in Tasks \ {i} : ending'[k] = ending[k]
      PROVE  DoneIsHonest'
  <2>1. result[i].status # "done"
    BY <1>2 DEF IInv, ResolvedMeansGone, HandleAgrees, NoResult, Running
  <2> QED BY <1>2, <2>1 DEF Honest, DoneIsHonest
<1>3. ASSUME NEW i \in Tasks, NEW e \in {"text", "bad"}, WriteLine(i, e) PROVE Honest'
  <2>1. ending[i] = "none"
    BY <1>3 DEF WriteLine, Honest, EndsLast
  <2>2. \A k \in Tasks \ {i} : out'[k] = out[k]
    BY <1>3 DEF WriteLine, IInv, ChildrenTyped
  <2> QED BY <1>3, <2>1, <2>2 DEF WriteLine, Honest, EndsLast, AbortHeard, DoneIsHonest
<1>4. ASSUME NEW i \in Tasks, NEW e \in {"done", "error", "aborted"}, Conclude(i, e)
      PROVE  Honest'
  <2>1. /\ \A k \in Tasks \ {i} : out'[k] = out[k] /\ child'[k] = child[k] /\ ending'[k] = ending[k]
        /\ out'[i] = Append(out[i], e) /\ child'[i] = "closing" /\ ending'[i] = e
        /\ child[i] = "alive" /\ UNCHANGED <<verdict, handle>>
    BY <1>4 DEF Conclude, IInv, ChildrenTyped
  <2>2. DoneIsHonest'
    BY <1>2, <2>1 DEF Running
  <2>3. EndsLast'
    BY <2>1 DEF Honest, EndsLast
  <2>4. out[i] \in Seq(Lines) /\ e \in Lines
    BY DEF IInv, ChildrenTyped, Lines
  <2>5. out'[i] # <<>> /\ out'[i][Len(out'[i])] = e
    BY <2>1, <2>4, LastOfAppend
  <2>6. AbortHeard'
    BY <2>1, <2>5 DEF Honest, AbortHeard
  <2> QED BY <2>2, <2>3, <2>6 DEF Honest
<1>5. ASSUME NEW i \in Tasks, Crash(i) \/ Exit(i) PROVE Honest'
  <2>1. /\ \A k \in Tasks \ {i} : child'[k] = child[k] /\ ending'[k] = ending[k]
        /\ child'[i] = "gone" /\ ending'[i] \in {"crashed", "sigkill", ending[i]}
        /\ child[i] \in Running /\ UNCHANGED <<out, verdict, handle>>
    BY <1>5 DEF Crash, Exit, IInv, ChildrenTyped, Running
  <2>2. DoneIsHonest'
    BY <1>2, <2>1
  <2>3. EndsLast' /\ AbortHeard'
    BY <2>1 DEF Honest, EndsLast, AbortHeard
  <2> QED BY <2>2, <2>3 DEF Honest
\* The driving task.
<1>6. ASSUME NEW i \in Tasks, PumpLine(i) PROVE Honest'
  <2>1. out[i] \in Seq(Lines) /\ out[i] # <<>>
    BY <1>6 DEF PumpLine, IInv, ChildrenTyped
  <2>2. /\ \A k \in Tasks \ {i} : out'[k] = out[k] /\ verdict'[k] = verdict[k]
        /\ out'[i] = Tail(out[i])
        /\ UNCHANGED <<child, ending, handle>>
    BY <1>6 DEF PumpLine, IInv, ChildrenTyped
  <2>3. /\ Head(out[i]) = "aborted" => verdict'[i] = "killed"
        /\ verdict[i] # "done" => verdict'[i] # "done"
    BY <1>6 DEF PumpLine, IInv, ChildrenTyped
  <2>4. ASSUME ending[i] = "aborted", verdict'[i] = "done"
        PROVE  out'[i] # <<>> /\ out'[i][Len(out'[i])] = "aborted"
    <3>1. out[i][Len(out[i])] = "aborted" /\ Head(out[i]) # "aborted"
      BY <2>3, <2>4 DEF Honest, AbortHeard
    <3> QED BY <2>1, <2>2, <3>1, LastOfTail
  <2>5. AbortHeard'
    <3> SUFFICES ASSUME NEW k \in Tasks, ending'[k] = "aborted"
                 PROVE  \/ verdict'[k] # "done"
                        \/ out'[k] # <<>> /\ out'[k][Len(out'[k])] = "aborted"
      BY DEF AbortHeard
    <3>1. CASE k = i
      BY <2>2, <2>4, <3>1
    <3>2. CASE k # i
      BY <2>2, <3>2 DEF Honest, AbortHeard
    <3> QED BY <3>1, <3>2
  <2>6. EndsLast' /\ DoneIsHonest'
    BY <2>2 DEF Honest, EndsLast, DoneIsHonest
  <2> QED BY <2>5, <2>6 DEF Honest
<1>7. ASSUME NEW i \in Tasks, DriveEnds(i) PROVE Honest'
  <2> DEFINE st == IF ~ExitCodeZero(i) /\ verdict[i] = "done" THEN "error" ELSE verdict[i]
  <2>1. /\ UNCHANGED <<child, ending, out, verdict>> /\ out[i] = <<>>
        /\ MarkDone(i, [status |-> st, text |-> texts[i]])
    BY <1>7 DEF DriveEnds
  <2>2. st = "done" => ending[i] = "done"
    BY <2>1 DEF ExitCodeZero, Honest, AbortHeard
  <2> HIDE DEF st
  <2>3. \A k \in Tasks : result'[k].status = "done" =>
          result[k].status = "done" \/ (k = i /\ st = "done")
    BY <2>1 DEF MarkDone, IInv, ChildrenTyped
  <2> QED BY <2>1, <2>2, <2>3 DEF Honest, EndsLast, AbortHeard, DoneIsHonest
<1>8. ASSUME NEW i \in Tasks, DriveReaped(i) PROVE Honest'
  <2>1. UNCHANGED <<child, ending, out, verdict>>
        /\ MarkDone(i, [status |-> "timeout", text |-> texts[i]])
    BY <1>8 DEF DriveReaped
  <2> QED BY <2>1, MarkedOnly, KeepHonest DEF IInv
<1>9. ASSUME NEW i \in Tasks, Kill(i) \/ KillRaises(i), UNCHANGED <<verdict, handle>> PROVE Honest'
  BY <1>9, KeepHonest DEF Kill, KillRaises, IInv, ChildrenTyped
\* The callers of stop().
<1>10. ASSUME NEW s \in Stoppers, Stopping(s) PROVE Honest'
  <2>1. CASE StopSettled(s)
    BY <2>1, KeepHonest DEF StopSettled
  <2>2. CASE StopTimesOut(s)
    <3>1. stopper[s].task \in Tasks
      BY <2>2 DEF StopTimesOut, IInv, StoppersPlaced
    <3> QED BY <2>2, <3>1, <1>9 DEF StopTimesOut
  <2>3. CASE StopReaped(s)
    <3>1. stopper[s].task \in Tasks /\ UNCHANGED <<child, ending, out, verdict>>
      BY <2>3 DEF StopReaped, IInv, StoppersPlaced
    <3>2. CASE UNCHANGED handle
      BY <3>1, <3>2, KeepHonest
    <3>3. CASE MarkDone(stopper[s].task, [status |-> "killed", text |-> 0])
      BY <3>1, <3>3, MarkedOnly, KeepHonest DEF IInv
    <3> QED BY <2>3, <3>2, <3>3 DEF StopReaped
  <2> QED BY <1>10, <2>1, <2>2, <2>3 DEF Stopping
<1>11. ASSUME NEW i \in Tasks, NEW s \in Stoppers, Stop(s, i) PROVE Honest'
  BY <1>11, KeepHonest DEF Stop
<1>12. CASE Return \/ UNCHANGED vars
  BY <1>12, KeepHonest DEF Return, vars, subagentVars
<1>13. ASSUME NEW i \in Tasks, DriveTimesOut(i) PROVE Honest'
  BY <1>13, <1>9 DEF DriveTimesOut
<1> QED BY <1>1, <1>3, <1>4, <1>5, <1>6, <1>7, <1>8, <1>10, <1>11, <1>12, <1>13 DEF Next, Driver

(* A child is reported done only if its last line said so: for every order *)
(* in which its lines are read, its process ends and timers fire.          *)
THEOREM DoneIsAlwaysHonest == Spec => []DoneIsHonest
<1>1. Honest => DoneIsHonest
  BY DEF Honest
<1> QED BY <1>1, InitHonest, HonestStep, IInvAlways, PTL DEF Spec

(* The run's invariant: types, handles and permits together.               *)
THEOREM ChildrenAlwaysAccounted == Spec => []ChildrenAccounted
<1>1. ChildrenTyped /\ ResolvedMeansGone /\ AtMostConcurrent => ChildrenAccounted
  BY DEF ChildrenAccounted
<1> QED BY <1>1, TypeCorrect, AlwaysResolvedMeansGone, AlwaysAtMostConcurrent, PTL
=============================================================================
