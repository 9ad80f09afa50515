-------------------------- MODULE ExperimentProofs --------------------------
(***************************************************************************)
(* Proofs about Experiment, for any number of subpaths of any lengths and  *)
(* any number of threads on them.                                          *)
(***************************************************************************)
EXTENDS ScheduledExperiment, ChasingPathProofs, FiniteSetTheorems, TLAPS

-----------------------------------------------------------------------------
(* The inductive invariant.                                                *)

\* Threads that have counted themselves at the barrier.
Arrived == {t \in Threads : pc[t] \in {"spinning", "looping", "done"}}

\* The counter of the barrier is the number of threads that passed it.
BarrierInv == numAtBarrior = Cardinality(Arrived)

\* What the main thread's progress says of the threads and of the flag.
MainInv ==
  /\ mainPc \in {"split", "spawn"} => spawned < NumThreads
  /\ \A t \in Threads : t >= spawned => pc[t] = "unborn"
  /\ \A t \in Threads : t < joined => pc[t] = "done"
  /\ mainPc \notin {"join", "stop", "report", "exit", "failed"} => joined = 0
  /\ mainPc = "join" => joined < NumThreads
  /\ mainPc \in {"stop", "report", "exit"} => joined = NumThreads
  /\ mainPc \notin {"split", "spawn", "gather"} => Arrived = Threads
  /\ mainPc \in {"join", "stop", "report", "exit"} => startExperiment
  /\ startExperiment => mainPc \in {"join", "stop", "report", "exit", "failed"}
  /\ mainPc = "exit" => output = loopResults
  /\ mainPc # "exit" => output = [t \in Threads |-> 0]

\* Threads loop only after they were let loose and end with their result.
WorkerInv ==
  \A t \in Threads :
    /\ pc[t] \in {"looping", "done"} => startExperiment
    /\ pc[t] = "done" => index[t] = Stop /\ loopResults[t] = accesscount[t]

\* The counters are on while threads loop, and have seen every load.
CounterInv ==
  /\ mainPc \in {"loose", "join", "stop"} => counting = MeasuredEvents
  /\ MeasuredEvents => counted = accesscount

\* The handler runs once, in a thread that lives until it has returned.
AlarmInv ==
  /\ mainPc \in {"split", "spawn", "gather", "evict", "timeout"} => alarm = "off"
  /\ alarm # "fired" => handlerOn = Nobody /\ handlerAt = 0
  /\ \A t \in Threads : handlerOn = t => pc[t] # "done"
  /\ mainPc \in {"stop", "report", "exit"} =>
       alarm = "fired" /\ handlerOn = Nobody

\* After the split the path is one cycle per subpath, but for the first
\* entries of the subpaths that the handler has broken.
PathInv ==
  /\ mainPc = "split" => mem = LinkedPath
  /\ mainPc # "split" =>
       \A e \in Entries :
         \/ mem[e] = CyclePath[e]
         \/ e[2] = 0 /\ mem[e] = Stop /\ alarm = "fired"

\* Loads a thread still makes once its path is broken.
Remaining(t) ==
  IF index[t] = Stop THEN 0
  ELSE IF index[t][2] = 0 THEN 1 ELSE Length[SubpathOf[t]] - index[t][2] + 1

\* A thread that has stopped was stopped by the handler, and one that has
\* not will be within its lap.
OverrunInv ==
  \A t \in Threads :
    /\ index[t] = Stop => Broken(mem, SubpathOf[t])
    /\ ~Broken(mem, SubpathOf[t]) => overrun[t] = 0
    /\ overrun[t] + Remaining(t) <= Length[SubpathOf[t]]

IInv ==
  /\ TypeOK
  /\ BarrierInv /\ MainInv /\ WorkerInv /\ CounterInv /\ AlarmInv
  /\ PathInv /\ StaysInSubpath /\ CountsWholeLaps /\ OverrunInv
-----------------------------------------------------------------------------
(* Facts used in several of the proofs below.                              *)

LEMMA ThreadsFinite == IsFiniteSet(Threads) /\ Cardinality(Threads) = NumThreads
BY ThreadAssumption, FS_Interval DEF Threads

\* Only the handler breaks a subpath.
LEMMA BrokenByHandler ==
  ASSUME IInv, NEW t \in Threads, Broken(mem, SubpathOf[t])
  PROVE  alarm = "fired" /\ mainPc # "split"
<1>1. SubpathOf[t] \in Subpaths
  BY ThreadAssumption
<1>2. StartIdx(SubpathOf[t]) \in Entries
  BY <1>1, StartIsEntry
<1>3. LinkedPath[StartIdx(SubpathOf[t])] # Stop /\ CyclePath[StartIdx(SubpathOf[t])] # Stop
  BY <1>2, LinkedPathType, CyclePathType, StopAssumption
<1> QED BY <1>2, <1>3 DEF IInv, PathInv, Broken

\* Every step preserves the type invariant.
LEMMA TypeOKStep ==
  ASSUME IInv, [Next]_vars
  PROVE  TypeOK'
<1> USE DEF IInv, TypeOK, MainGoes, Goes, Runs, Alive, mainVars, loopVars,
       alarmVars
<1>1. CASE Split
  <2>1. mem' = CyclePath
    BY <1>1, SplitLinkedPath DEF Split, PathInv
  <2>2. CyclePath \in Paths
    <3>1. \A e \in Entries : CyclePath[e] \in Entries
      BY CyclePathType
    <3> QED BY <3>1 DEF CyclePath, Paths
  <2> QED BY <1>1, <2>1, <2>2 DEF Split
<1>2. CASE Spawn
  <2>1. spawned + 1 \in 0 .. NumThreads
    BY <1>2, ThreadAssumption DEF Spawn, MainInv
  <2>2. mainPc' \in {"gather", "spawn"}
    BY <1>2 DEF Spawn
  <2> QED BY <1>2, <2>1, <2>2 DEF Spawn
<1>3. CASE PerfStart
  BY <1>3, OptionAssumption DEF PerfStart
<1>4. CASE Join
  <2>1. joined + 1 \in 0 .. NumThreads
    BY <1>4, ThreadAssumption DEF Join, MainInv
  <2>2. mainPc' \in {"stop", "join"}
    BY <1>4 DEF Join, AfterJoin
  <2> QED BY <1>4, <2>1, <2>2 DEF Join
<1>5. CASE BreakSubpath
  <2>1. handlerAt \in Subpaths
    BY <1>5, SubpathAssumption DEF BreakSubpath, Subpaths
  <2>2. Break(mem, handlerAt) \in Paths
    BY <2>1, StartIsEntry DEF Break, Paths
  <2>3. handlerAt + 1 \in 0 .. NumSubpaths
    BY <1>5, SubpathAssumption DEF BreakSubpath
  <2> QED BY <1>5, <2>2, <2>3 DEF BreakSubpath
<1>6. CASE Gather \/ Evict \/ SetupTimeout \/ LetLoose \/ PerfStop \/
       Report \/ AlarmFires \/ HandlerReturns
  <2>1. CASE Gather \/ Evict \/ SetupTimeout \/ LetLoose
    BY <2>1 DEF Gather, AllAtBarrior, Evict, SetupTimeout, ArmAlarm, LetLoose
  <2>2. CASE PerfStop \/ Report
    BY <2>2 DEF PerfStop, Report
  <2>3. CASE AlarmFires \/ HandlerReturns
    BY <2>3 DEF AlarmFires, LiveThreads, HandlerReturns
  <2> QED BY <1>6, <2>1, <2>2, <2>3
<1>7. ASSUME NEW t \in Threads, Arrive(t)
      PROVE  TypeOK'
  <2>1. t \notin Arrived /\ Arrived \subseteq Threads
    BY <1>7 DEF Arrive, Arrived
  <2>2. IsFiniteSet(Arrived)
    BY <2>1, ThreadsFinite, FS_Subset
  <2>3. Cardinality(Arrived \cup {t}) = Cardinality(Arrived) + 1
    BY <2>1, <2>2, FS_AddElement
  <2>4. Cardinality(Arrived \cup {t}) <= NumThreads
    BY <2>1, ThreadsFinite, FS_Subset, Arrived \cup {t} \subseteq Threads
  <2>5. numAtBarrior + 1 \in 0 .. NumThreads
    BY <2>3, <2>4, ThreadAssumption DEF BarrierInv
  <2> QED BY <1>7, <2>5 DEF Arrive, CountAtBarrior
<1>8. ASSUME NEW t \in Threads, Load(t)
      PROVE  TypeOK'
  <2>1. mem[index[t]] \in Entries \cup {Stop}
    BY <1>8 DEF Load, Paths
  <2> QED BY <1>8, <2>1 DEF Load, CountAccess
<1>9. ASSUME NEW t \in Threads, LockLog(t) \/ UnlockLog(t) \/ Enter(t) \/
       Leave(t)
      PROVE  TypeOK'
  BY <1>9
     DEF LockLog, UnlockLog, Enter, Loose, Leave, StoreResult
<1>10. CASE UNCHANGED vars
  BY <1>10 DEF vars
<1> QED BY <1>1, <1>2, <1>3, <1>4, <1>5, <1>6, <1>7, <1>8, <1>9, <1>10
     DEF Next, MainStep, Worker, Handler, Terminated

\* Only Arrive changes who has arrived, and it counts.
LEMMA BarrierInvStep ==
  ASSUME IInv, [Next]_vars
  PROVE  BarrierInv'
<1> USE DEF IInv, TypeOK, BarrierInv, Arrived, MainGoes, Goes, Runs, Alive,
       mainVars, loopVars, alarmVars
<1>1. CASE Spawn
  <2>1. spawned \in Threads /\ pc[spawned] = "unborn"
    BY <1>1, ThreadAssumption DEF Spawn, MainInv, Threads
  <2>2. Arrived' = Arrived
    BY <1>1, <2>1 DEF Spawn
  <2> HIDE DEF Arrived
  <2> QED BY <1>1, <2>2 DEF Spawn
<1>2. CASE Split \/ Gather \/ Evict \/ SetupTimeout \/ PerfStart \/
       LetLoose \/ Join \/ PerfStop \/ Report \/ AlarmFires \/
       BreakSubpath \/ HandlerReturns
  BY <1>2
     DEF Split, Gather, AllAtBarrior, Evict, SetupTimeout, ArmAlarm,
       PerfStart, LetLoose, Join, AfterJoin, PerfStop, Report, AlarmFires,
       LiveThreads, BreakSubpath, Break, HandlerReturns
<1>3. ASSUME NEW t \in Threads, Arrive(t)
      PROVE  BarrierInv'
  <2>1. Arrived' = Arrived \cup {t} /\ t \notin Arrived
    BY <1>3 DEF Arrive
  <2>2. IsFiniteSet(Arrived)
    BY ThreadsFinite, FS_Subset
  <2>3. Cardinality(Arrived \cup {t}) = Cardinality(Arrived) + 1
    BY <2>1, <2>2, FS_AddElement
  <2> HIDE DEF Arrived
  <2> QED BY <1>3, <2>1, <2>3 DEF Arrive, CountAtBarrior
<1>4. ASSUME NEW t \in Threads, LockLog(t) \/ UnlockLog(t) \/ Enter(t) \/
       Load(t) \/ Leave(t)
      PROVE  BarrierInv'
  BY <1>4
     DEF LockLog, UnlockLog, Enter, Loose, Load, CountAccess, Leave,
       StoreResult
<1>5. CASE UNCHANGED vars
  BY <1>5 DEF vars
<1> QED BY <1>1, <1>2, <1>3, <1>4, <1>5
     DEF Next, MainStep, Worker, Handler, Terminated

\* The main thread passes the barrier with every thread, and joins them all.
LEMMA MainInvStep ==
  ASSUME IInv, [Next]_vars
  PROVE  MainInv'
<1> USE DEF IInv, TypeOK, MainInv, Arrived, MainGoes, Goes, Runs, Alive,
       mainVars, loopVars, alarmVars
<1>1. CASE Spawn
  BY <1>1, ThreadAssumption, SMTT(30) DEF Spawn, Threads
<1>2. CASE Gather
  <2>1. Arrived = Threads
    <3>1. Arrived \subseteq Threads
      OBVIOUS
    <3>2. Cardinality(Arrived) = NumThreads
      BY <1>2 DEF Gather, AllAtBarrior, BarrierInv
    <3> HIDE DEF Arrived
    <3> QED BY <3>1, <3>2, ThreadsFinite, FS_Subset
  <2> QED BY <1>2, <2>1 DEF Gather
<1>3. CASE LetLoose
  BY <1>3, ThreadAssumption DEF LetLoose, WorkerInv
<1>4. CASE Join
  <2>1. \A t \in Threads : t < joined + 1 => t < joined \/ t = joined
    BY DEF Threads
  <2> QED BY <1>4, <2>1, ThreadAssumption, SMTT(30)
          DEF Join, AfterJoin, Threads
<1>5. CASE Split \/ Evict \/ SetupTimeout \/ PerfStart \/ PerfStop \/
       Report \/ AlarmFires \/ BreakSubpath \/ HandlerReturns
  BY <1>5
     DEF Split, Evict, SetupTimeout, ArmAlarm, PerfStart, PerfStop, Report,
       AlarmFires, LiveThreads, BreakSubpath, Break, HandlerReturns
<1>6. ASSUME NEW t \in Threads, Leave(t)
      PROVE  MainInv'
  BY <1>6 DEF Leave, StoreResult, WorkerInv
<1>7. ASSUME NEW t \in Threads, LockLog(t) \/ UnlockLog(t) \/ Arrive(t) \/
       Enter(t) \/ Load(t)
      PROVE  MainInv'
  BY <1>7
     DEF LockLog, UnlockLog, Arrive, CountAtBarrior, Enter, Loose, Load,
       CountAccess
<1>8. CASE UNCHANGED vars
  BY <1>8 DEF vars
<1> QED BY <1>1, <1>2, <1>3, <1>4, <1>5, <1>6, <1>7, <1>8
     DEF Next, MainStep, Worker, Handler, Terminated

\* Threads enter the loop when they are let loose and leave it with -1.
LEMMA WorkerInvStep ==
  ASSUME IInv, [Next]_vars
  PROVE  WorkerInv'
<1> USE DEF IInv, TypeOK, WorkerInv, MainGoes, Goes, Runs, Alive, mainVars,
       loopVars, alarmVars
<1>1. CASE Split \/ Spawn \/ Gather \/ Evict \/ SetupTimeout \/
       PerfStart \/ LetLoose \/ Join \/ PerfStop \/ Report \/ AlarmFires \/
       BreakSubpath \/ HandlerReturns
  BY <1>1
     DEF Split, Spawn, Gather, AllAtBarrior, Evict, SetupTimeout, ArmAlarm,
       PerfStart, LetLoose, Join, AfterJoin, PerfStop, Report, AlarmFires,
       LiveThreads, BreakSubpath, Break, HandlerReturns
<1>2. ASSUME NEW t \in Threads, Load(t)
      PROVE  WorkerInv'
  BY <1>2 DEF Load, CountAccess
<1>3. ASSUME NEW t \in Threads, Leave(t)
      PROVE  WorkerInv'
  BY <1>3 DEF Leave, StoreResult
<1>4. ASSUME NEW t \in Threads, LockLog(t) \/ UnlockLog(t) \/ Arrive(t) \/
       Enter(t)
      PROVE  WorkerInv'
  BY <1>4
     DEF LockLog, UnlockLog, Arrive, CountAtBarrior, Enter, Loose
<1>5. CASE UNCHANGED vars
  BY <1>5 DEF vars
<1> QED BY <1>1, <1>2, <1>3, <1>4, <1>5
     DEF Next, MainStep, Worker, Handler, Terminated

\* A thread that loops has not been joined, so the counters are on.
LEMMA CounterInvStep ==
  ASSUME IInv, [Next]_vars
  PROVE  CounterInv'
<1> USE DEF IInv, TypeOK, CounterInv, MainGoes, Goes, Runs, Alive,
       mainVars, loopVars, alarmVars
<1>1. CASE PerfStart
  BY <1>1, OptionAssumption DEF PerfStart
<1>2. CASE Split \/ Spawn \/ Gather \/ Evict \/ SetupTimeout \/ LetLoose \/
       Join \/ PerfStop \/ Report \/ AlarmFires \/ BreakSubpath \/
       HandlerReturns
  BY <1>2
     DEF Split, Spawn, Gather, AllAtBarrior, Evict, SetupTimeout, ArmAlarm,
       LetLoose, Join, AfterJoin, PerfStop, Report, AlarmFires,
       LiveThreads, BreakSubpath, Break, HandlerReturns
<1>3. ASSUME NEW t \in Threads, Load(t)
      PROVE  CounterInv'
  <2>1. mainPc = "join"
    <3>1. mainPc \in {"join", "stop", "report"}
      BY <1>3 DEF Load, MainInv, WorkerInv
    <3>2. ~(t < joined)
      BY <1>3 DEF Load, MainInv
    <3>3. joined # NumThreads
      BY <3>2, ThreadAssumption DEF Threads
    <3> QED BY <3>1, <3>3 DEF MainInv
  <2>2. ASSUME MeasuredEvents
        PROVE  counted' = accesscount'
    <3>1. counting = TRUE /\ counted = accesscount
      BY <2>1, <2>2, OptionAssumption
    <3>2. counted' = [counted EXCEPT ![t] = @ + 1]
      BY <1>3, <3>1 DEF Load
    <3> QED BY <1>3, <3>1, <3>2 DEF Load, CountAccess
  <2>3. UNCHANGED <<mainPc, counting>>
    BY <1>3 DEF Load
  <2> QED BY <2>2, <2>3
<1>4. ASSUME NEW t \in Threads, LockLog(t) \/ UnlockLog(t) \/ Arrive(t) \/
       Enter(t) \/ Leave(t)
      PROVE  CounterInv'
  BY <1>4
     DEF LockLog, UnlockLog, Arrive, CountAtBarrior, Enter, Loose, Leave,
       StoreResult
<1>5. CASE UNCHANGED vars
  BY <1>5 DEF vars
<1> QED BY <1>1, <1>2, <1>3, <1>4, <1>5
     DEF Next, MainStep, Worker, Handler, Terminated

\* The thread that runs the handler cannot end, nor be joined, before it.
LEMMA AlarmInvStep ==
  ASSUME IInv, [Next]_vars
  PROVE  AlarmInv'
<1> USE DEF IInv, TypeOK, AlarmInv, MainGoes, Goes, Runs, Alive, mainVars,
       loopVars, alarmVars
<1>1. CASE Spawn
  BY <1>1 DEF Spawn
<1>2. CASE Join
  <2>1. CASE joined + 1 = NumThreads
    <3>1. \A t \in Threads : pc[t] = "done"
      BY <1>2, <2>1 DEF Join, MainInv, Threads
    <3>2. 0 \in Threads
      BY ThreadAssumption DEF Threads
    <3>3. Broken(mem, SubpathOf[0])
      BY <3>1, <3>2 DEF WorkerInv, OverrunInv
    <3>4. alarm = "fired"
      BY <3>2, <3>3, BrokenByHandler
    <3>5. handlerOn = Nobody
      BY <1>2, <3>1 DEF Join
    <3> QED BY <1>2, <3>4, <3>5 DEF Join, AfterJoin
  <2>2. CASE joined + 1 # NumThreads
    BY <1>2, <2>2 DEF Join, AfterJoin
  <2> QED BY <2>1, <2>2
<1>3. CASE AlarmFires
  BY <1>3, DistinctAssumption DEF AlarmFires, LiveThreads
<1>4. CASE BreakSubpath
  BY <1>4 DEF BreakSubpath
<1>5. CASE Split \/ Gather \/ Evict \/ PerfStart \/ LetLoose
  BY <1>5 DEF Split, Gather, Evict, PerfStart, LetLoose
<1>8. CASE SetupTimeout
  BY <1>8 DEF SetupTimeout, ArmAlarm
<1>9. CASE PerfStop
  BY <1>9 DEF PerfStop
<1>10. CASE Report
  BY <1>10 DEF Report
<1>11. CASE HandlerReturns
  BY <1>11, DistinctAssumption DEF HandlerReturns
<1>6. ASSUME NEW t \in Threads, LockLog(t) \/ UnlockLog(t) \/ Arrive(t) \/
       Enter(t) \/ Load(t) \/ Leave(t)
      PROVE  AlarmInv'
  BY <1>6
     DEF LockLog, UnlockLog, Arrive, CountAtBarrior, Enter, Loose, Load,
       CountAccess, Leave, StoreResult
<1>7. CASE UNCHANGED vars
  BY <1>7 DEF vars
<1> QED BY <1>1, <1>2, <1>3, <1>4, <1>5, <1>6, <1>7, <1>8, <1>9, <1>10, <1>11
     DEF Next, MainStep, Worker, Handler, Terminated

\* Where a load takes a thread: on in its subpath, round to the first entry
\* or, from the first entry, to -1.
LEMMA LoadTarget ==
  ASSUME IInv, NEW t \in Threads, Load(t)
  PROVE  LET s == SubpathOf[t]
             e == index[t]
             n == mem[index[t]]
         IN  /\ Length[s] \in Nat \ {0}
             /\ e \in Entries /\ e[1] = s /\ e[2] \in 0 .. Length[s] - 1
             /\ \/ n = Stop /\ e[2] = 0 /\ Broken(mem, s)
                \/ /\ n \in Entries /\ n # Stop /\ n[1] = s
                   /\ \/ n[2] = e[2] + 1
                      \/ n[2] = 0 /\ e[2] + 1 = Length[s]
                   /\ e[2] = 0 => ~Broken(mem, s)
<1> DEFINE s == SubpathOf[t]
           e == index[t]
           n == mem[index[t]]
<1>1. s \in Subpaths /\ Length[s] \in Nat \ {0}
  BY ThreadAssumption, SubpathAssumption
<1>2. e \in Entries /\ e # Stop
  BY DEF IInv, TypeOK, Load
<1>3. e[1] = s
  BY <1>2 DEF IInv, StaysInSubpath
<1>4. e[2] \in 0 .. Length[s] - 1 /\ e = <<e[1], e[2]>>
  BY <1>2, <1>3, EntryForm
<1>5. mainPc # "split"
  BY DEF IInv, MainInv, WorkerInv, Load
<1>6. CASE n = CyclePath[e]
  <2>1. n \in Entries /\ n # Stop /\ n[1] = s
    BY <1>2, <1>3, <1>6, CyclePathType, StopAssumption
  <2>2. n[2] = e[2] + 1 \/ (n[2] = 0 /\ e[2] + 1 = Length[s])
    BY <1>2, <1>3, <1>6, CyclePathType
  <2>3. e[2] = 0 => ~Broken(mem, s)
    BY <1>3, <1>4, <2>1 DEF Broken, StartIdx
  <2> QED BY <1>1, <1>2, <1>3, <1>4, <2>1, <2>2, <2>3
<1>7. CASE e[2] = 0 /\ n = Stop
  <2>1. Broken(mem, s)
    BY <1>3, <1>4, <1>7 DEF Broken, StartIdx
  <2> QED BY <1>1, <1>2, <1>3, <1>4, <1>7, <2>1
<1> QED BY <1>2, <1>5, <1>6, <1>7 DEF IInv, PathInv

\* Only the split and the handler write the path.
LEMMA PathInvStep ==
  ASSUME IInv, [Next]_vars
  PROVE  PathInv'
<1> USE DEF IInv, PathInv, MainGoes, Goes, Runs, Alive, mainVars, loopVars,
       alarmVars
<1>1. CASE Split
  BY <1>1, SplitLinkedPath DEF Split
<1>2. CASE BreakSubpath
  <2>1. StartIdx(handlerAt) \in Entries /\ StartIdx(handlerAt)[2] = 0
    <3>1. handlerAt \in Subpaths
      BY <1>2, SubpathAssumption DEF BreakSubpath, TypeOK, Subpaths
    <3> QED BY <3>1, StartIsEntry
  <2>2. alarm' = "fired" /\ mainPc # "split" /\ mainPc' = mainPc
    BY <1>2 DEF BreakSubpath, AlarmInv
  <2>3. ASSUME NEW e \in Entries
        PROVE  mem'[e] = mem[e] \/ (e[2] = 0 /\ mem'[e] = Stop)
    BY <1>2, <2>1 DEF BreakSubpath, Break, TypeOK, Paths
  <2> QED BY <2>2, <2>3
<1>3. CASE AlarmFires
  BY <1>3 DEF AlarmFires
<1>4. CASE SetupTimeout
  BY <1>4 DEF SetupTimeout, AlarmInv
<1>5. CASE Spawn \/ Gather \/ Evict \/ PerfStart \/ LetLoose \/ Join \/
       PerfStop \/ Report \/ HandlerReturns
  BY <1>5
     DEF Spawn, Gather, Evict, PerfStart, LetLoose, Join, AfterJoin,
       PerfStop, Report, HandlerReturns
<1>6. ASSUME NEW t \in Threads, Worker(t)
      PROVE  PathInv'
  BY <1>6
     DEF Worker, LockLog, UnlockLog, Arrive, Enter, Load, Leave
<1>7. CASE UNCHANGED vars
  BY <1>7 DEF vars
<1> QED BY <1>1, <1>2, <1>3, <1>4, <1>5, <1>6, <1>7
     DEF Next, MainStep, Handler, Terminated

\* A load keeps a thread in its subpath, by the shape of the path.
LEMMA StaysInSubpathStep ==
  ASSUME IInv, [Next]_vars
  PROVE  StaysInSubpath'
<1> USE DEF IInv, StaysInSubpath
<1>1. ASSUME NEW t \in Threads, Load(t)
      PROVE  StaysInSubpath'
  <2>1. index'[t] = Stop \/ index'[t][1] = SubpathOf[t]
    BY <1>1, LoadTarget DEF Load, TypeOK
  <2>2. \A u \in Threads : u # t => index'[u] = index[u]
    BY <1>1 DEF Load, TypeOK
  <2> QED BY <2>1, <2>2
<1>2. ASSUME ~\E t \in Threads : Load(t)
      PROVE  UNCHANGED index
  BY <1>2 DEF Next, MainStep, Worker, Handler, Terminated, vars, loopVars,
       Split, Spawn, Gather, Evict, SetupTimeout, PerfStart, LetLoose, Join,
       PerfStop, Report, LockLog, UnlockLog, Arrive, Enter, Leave,
       AlarmFires, BreakSubpath, HandlerReturns
<1> QED BY <1>1, <1>2

\* A load adds one access and one entry, or one access and the rest of a lap.
LEMMA CountsWholeLapsStep ==
  ASSUME IInv, [Next]_vars
  PROVE  CountsWholeLaps'
<1> USE DEF IInv
<1>1. ASSUME NEW t \in Threads, Load(t)
      PROVE  CountsWholeLaps'
  <2> DEFINE L == Length[SubpathOf[t]]
             k == index[t][2]
  <2>1. PICK laps \in 0 .. accesscount[t] : accesscount[t] = laps * L + k
    <3>1. index[t] # Stop
      BY <1>1 DEF Load
    <3> QED BY <3>1 DEF CountsWholeLaps
  <2>2. accesscount[t] \in Nat /\ accesscount'[t] = accesscount[t] + 1
    BY <1>1 DEF Load, TypeOK, CountAccess
  <2>3. index'[t] = mem[index[t]]
    BY <1>1 DEF Load, TypeOK
  <2>4. L \in Nat \ {0} /\ k \in 0 .. L - 1
    BY <1>1, LoadTarget
  <2>5. \/ index'[t] = Stop /\ k = 0
        \/ index'[t] # Stop /\ index'[t][2] = k + 1
        \/ index'[t] # Stop /\ index'[t][2] = 0 /\ k + 1 = L
    BY <1>1, <2>3, LoadTarget
  <2> DEFINE at == IF index'[t] = Stop THEN 1 ELSE index'[t][2]
  <2>6. \E m \in 0 .. accesscount'[t] : accesscount'[t] = m * L + at
    <3> HIDE DEF L, k
    <3>1. CASE at = k + 1
      <4>1. accesscount'[t] = laps * L + at
        BY <2>1, <2>2, <2>4, <3>1
      <4> QED BY <2>2, <4>1
    <3>2. CASE at = 0 /\ k + 1 = L
      <4>1. (laps + 1) * L = laps * L + L
        BY <2>4
      <4>2. accesscount'[t] = (laps + 1) * L + at
        <5> HIDE DEF at
        <5> QED BY <2>1, <2>2, <2>4, <3>2, <4>1
      <4>3. laps + 1 \in 0 .. accesscount'[t]
        BY <2>2
      <4> QED BY <4>2, <4>3
    <3> QED BY <2>4, <2>5, <3>1, <3>2
  <2>7. \A u \in Threads : u # t =>
          index'[u] = index[u] /\ accesscount'[u] = accesscount[u]
    BY <1>1 DEF Load, TypeOK
  <2> QED BY <2>6, <2>7 DEF CountsWholeLaps
<1>2. ASSUME ~\E t \in Threads : Load(t)
      PROVE  UNCHANGED <<index, accesscount>>
  BY <1>2 DEF Next, MainStep, Worker, Handler, Terminated, vars, loopVars,
       Split, Spawn, Gather, Evict, SetupTimeout, PerfStart, LetLoose, Join,
       PerfStop, Report, LockLog, UnlockLog, Arrive, Enter, Leave,
       AlarmFires, BreakSubpath, HandlerReturns
<1> QED BY <1>1, <1>2 DEF CountsWholeLaps

\* Breaking a path adds nothing, and each load after it comes closer to -1.
LEMMA OverrunInvStep ==
  ASSUME IInv, [Next]_vars
  PROVE  OverrunInv'
<1> USE DEF IInv
<1>1. CASE Split
  <2>1. \A t \in Threads : ~Broken(mem, SubpathOf[t])
    BY <1>1, BrokenByHandler DEF Split, MainGoes
  <2>2. UNCHANGED <<index, overrun>>
    BY <1>1 DEF Split, loopVars
  <2>3. \A t \in Threads : index[t] # Stop /\ overrun[t] = 0
    BY <2>1 DEF OverrunInv
  <2> QED BY <2>2, <2>3 DEF OverrunInv, Remaining
<1>2. CASE BreakSubpath
  <2>1. UNCHANGED <<index, overrun>>
    BY <1>2 DEF BreakSubpath, loopVars
  <2>2. ASSUME NEW t \in Threads, Broken(mem, SubpathOf[t])
        PROVE  Broken(mem, SubpathOf[t])'
    <3>1. handlerAt \in Subpaths
      BY <1>2, SubpathAssumption DEF BreakSubpath, TypeOK, Subpaths
    <3>2. StartIdx(SubpathOf[t]) \in Entries /\ StartIdx(handlerAt) \in Entries
      BY <3>1, StartIsEntry, ThreadAssumption
    <3> QED BY <1>2, <2>2, <3>2 DEF BreakSubpath, Break, Broken, TypeOK, Paths
  <2> QED BY <2>1, <2>2 DEF OverrunInv, Remaining
<1>3. ASSUME NEW t \in Threads, Load(t)
      PROVE  OverrunInv'
  <2> DEFINE L == Length[SubpathOf[t]]
             k == index[t][2]
             broken == Broken(mem, SubpathOf[t])
  <2>1. UNCHANGED mem
    BY <1>3 DEF Load
  <2>2. \A u \in Threads : u # t =>
          index'[u] = index[u] /\ overrun'[u] = overrun[u]
    BY <1>3 DEF Load, TypeOK
  <2>3. overrun[t] \in Nat
        /\ overrun'[t] = (IF broken THEN overrun[t] + 1 ELSE overrun[t])
    BY <1>3 DEF Load, TypeOK
  <2>4. index'[t] = mem[index[t]] /\ index[t] # Stop
    BY <1>3 DEF Load, TypeOK
  <2>5. L \in Nat \ {0} /\ k \in 0 .. L - 1
    BY <1>3, LoadTarget
  <2>6. \/ index'[t] = Stop /\ k = 0 /\ broken
        \/ /\ index'[t] # Stop
           /\ index'[t][2] = k + 1 /\ k + 1 \in 0 .. L - 1
           /\ k = 0 => ~broken
        \/ /\ index'[t] # Stop /\ index'[t][2] = 0 /\ k + 1 = L
           /\ k = 0 => ~broken
    <3>1. mem[index[t]] # Stop => mem[index[t]][2] \in 0 .. L - 1
      BY <1>3, LoadTarget, EntryForm
    <3> QED BY <1>3, <2>4, <3>1, LoadTarget
  <2>7. /\ ~broken => overrun[t] = 0
        /\ overrun[t] + (IF k = 0 THEN 1 ELSE L - k + 1) <= L
    BY <2>4 DEF OverrunInv, Remaining
  <2>8. /\ index'[t] = Stop => broken
        /\ ~broken => overrun'[t] = 0
        /\ overrun'[t] + Remaining(t)' <= L
    <3> HIDE DEF L, k, broken
    <3>1. Remaining(t)' = IF index'[t] = Stop THEN 0
                          ELSE IF index'[t][2] = 0 THEN 1
                          ELSE L - index'[t][2] + 1
      BY DEF Remaining, L
    <3> QED BY <2>3, <2>5, <2>6, <2>7, <3>1
  <2> QED BY <2>1, <2>2, <2>8 DEF OverrunInv, Remaining, Broken
<1>4. ASSUME ~Split, ~BreakSubpath, ~\E t \in Threads : Load(t)
      PROVE  UNCHANGED <<mem, index, overrun>>
  BY <1>4 DEF Next, MainStep, Worker, Handler, Terminated, vars, loopVars,
       Spawn, Gather, Evict, SetupTimeout, PerfStart, LetLoose, Join,
       PerfStop, Report, LockLog, UnlockLog, Arrive, Enter, Leave,
       AlarmFires, HandlerReturns
<1>5. CASE UNCHANGED <<mem, index, overrun>>
  BY <1>5 DEF OverrunInv, Remaining, Broken
<1> QED BY <1>1, <1>2, <1>3, <1>4, <1>5

LEMMA InitInv == Init => IInv
<1> SUFFICES ASSUME Init PROVE IInv
  OBVIOUS
<1> USE DEF Init
<1>1. \A t \in Threads : /\ SubpathOf[t] \in Subpaths
                         /\ Length[SubpathOf[t]] \in Nat \ {0}
                         /\ StartIdx(SubpathOf[t]) \in Entries
                         /\ StartIdx(SubpathOf[t])[1] = SubpathOf[t]
                         /\ StartIdx(SubpathOf[t])[2] = 0
  BY ThreadAssumption, SubpathAssumption, StartIsEntry
<1>2. TypeOK
  <2>1. LinkedPath \in Paths
    BY LinkedPathType DEF Paths, LinkedPath
  <2>2. index \in [Threads -> Entries \cup {Stop}]
    BY <1>1
  <2>3. 0 \in 0 .. NumThreads /\ 0 \in 0 .. NumSubpaths
    BY ThreadAssumption, SubpathAssumption
  <2> QED BY <2>1, <2>2, <2>3 DEF TypeOK
<1>3. BarrierInv
  <2>1. Arrived = {}
    BY DEF Arrived
  <2> QED BY <2>1, FS_EmptySet DEF BarrierInv
<1>4. MainInv /\ WorkerInv
  <2>1. \A t \in Threads : pc[t] = "unborn" /\ ~(t < 0)
    BY DEF Threads
  <2> QED BY <2>1, ThreadAssumption DEF MainInv, WorkerInv
<1>5. CounterInv /\ AlarmInv /\ PathInv
  BY DistinctAssumption DEF CounterInv, AlarmInv, PathInv
<1>6. StaysInSubpath
  BY <1>1 DEF StaysInSubpath
<1>7. CountsWholeLaps
  <2> SUFFICES ASSUME NEW t \in Threads
               PROVE  accesscount[t] = 0 * Length[SubpathOf[t]]
                        + (IF index[t] = Stop THEN 1 ELSE index[t][2])
                      /\ 0 \in 0 .. accesscount[t]
    BY DEF CountsWholeLaps
  <2> QED BY <1>1, StopAssumption
<1>8. OverrunInv
  <2> SUFFICES ASSUME NEW t \in Threads
               PROVE  /\ index[t] # Stop /\ overrun[t] = 0
                      /\ Remaining(t) = 1
    BY <1>1 DEF OverrunInv
  <2> QED BY <1>1, StopAssumption DEF Remaining
<1> QED BY <1>2, <1>3, <1>4, <1>5, <1>6, <1>7, <1>8 DEF IInv

\* IInv holds in every reachable state.
THEOREM Invariance == Spec => []IInv
<1>1. IInv /\ [Next]_vars => IInv'
  BY TypeOKStep, BarrierInvStep, MainInvStep, WorkerInvStep, CounterInvStep,
     AlarmInvStep, PathInvStep, StaysInSubpathStep, CountsWholeLapsStep,
     OverrunInvStep DEF IInv
<1> QED BY InitInv, <1>1, PTL DEF Spec

-----------------------------------------------------------------------------
(* What the invariant says of the properties that the runs check.          *)

\* Every variable keeps its type, so for instance the barrier never counts
\* more threads than there are.
THEOREM TypeCorrect == Spec => []TypeOK
<1>1. IInv => TypeOK
  BY DEF IInv
<1> QED BY Invariance, <1>1, PTL

\* No thread of threadTest() ever leaves the subpath it was given, neither
\* before nor after the split, nor when the handler breaks the path.
THEOREM Confinement == Spec => []StaysInSubpath
<1>1. IInv => StaysInSubpath
  BY DEF IInv
<1> QED BY Invariance, <1>1, PTL

\* loop() counts whole laps, its position and, when stopped, one access more.
THEOREM Accounting == Spec => []CountsWholeLaps
<1>1. IInv => CountsWholeLaps
  BY DEF IInv
<1> QED BY Invariance, <1>1, PTL

\* One write of alarm_handler() per subpath stops its threads within a lap.
THEOREM PromptStop == Spec => []OverrunBounded
<1>1. ASSUME IInv
      PROVE  OverrunBounded
  <2> SUFFICES ASSUME NEW t \in Threads
               PROVE  overrun[t] <= Length[SubpathOf[t]]
    BY DEF OverrunBounded
  <2>1. Length[SubpathOf[t]] \in Nat /\ overrun[t] \in Nat
    BY <1>1, ThreadAssumption, SubpathAssumption DEF IInv, TypeOK
  <2>2. Remaining(t) >= 0 /\ Remaining(t) \in Int
    <3>1. CASE index[t] = Stop
      BY <3>1 DEF Remaining
    <3>2. CASE index[t] # Stop
      <4>1. index[t] \in Entries /\ index[t][1] = SubpathOf[t]
        BY <1>1, <3>2 DEF IInv, TypeOK, StaysInSubpath
      <4>2. index[t][2] \in 0 .. Length[SubpathOf[t]] - 1
        BY <4>1, EntryForm
      <4> QED BY <2>1, <3>2, <4>2 DEF Remaining
    <3> QED BY <3>1, <3>2
  <2>3. overrun[t] + Remaining(t) <= Length[SubpathOf[t]]
    BY <1>1 DEF IInv, OverrunInv
  <2> QED BY <2>1, <2>2, <2>3
<1> QED BY Invariance, <1>1, PTL

\* The performance counters count each access of every loop.
THEOREM CountersComplete == Spec => []CountersSeeAllLoads
<1>1. IInv => CountersSeeAllLoads
  BY DEF IInv, CounterInv, CountersSeeAllLoads
<1> QED BY Invariance, <1>1, PTL

LEMMA AllDone ==
  ASSUME IInv, mainPc \in {"stop", "report", "exit"}
  PROVE  \A t \in Threads : pc[t] = "done" /\ loopResults[t] = accesscount[t]
<1>1. joined = NumThreads
  BY DEF IInv, MainInv
<1>2. \A t \in Threads : t < joined
  BY <1>1, ThreadAssumption DEF Threads
<1> QED BY <1>2 DEF IInv, MainInv, WorkerInv

\* The results are written when all threads and the handler have ended.
THEOREM FinalReport == Spec => []ReportIsFinal
<1>1. ASSUME IInv
      PROVE  ReportIsFinal
  <2> SUFFICES ASSUME mainPc \in {"report", "exit"}
               PROVE  /\ \A t \in Threads : pc[t] = "done"
                      /\ alarm = "fired" /\ handlerOn = Nobody
                      /\ loopResults = accesscount
                      /\ mainPc = "exit" => output = accesscount
    BY DEF ReportIsFinal
  <2>1. \A t \in Threads : pc[t] = "done" /\ loopResults[t] = accesscount[t]
    BY <1>1, AllDone
  <2>2. loopResults = accesscount
    BY <1>1, <2>1 DEF IInv, TypeOK
  <2>3. alarm = "fired" /\ handlerOn = Nobody
    BY <1>1 DEF IInv, AlarmInv
  <2>4. mainPc = "exit" => output = accesscount
    BY <1>1, <2>2 DEF IInv, MainInv
  <2> QED BY <2>1, <2>2, <2>3, <2>4
<1> QED BY Invariance, <1>1, PTL

\* Where a load can happen.
LEMMA LoadWhen ==
  ASSUME IInv, NEW t \in Threads, Load(t)
  PROVE  mainPc = "join" /\ Arrived = Threads /\ startExperiment
<1>1. startExperiment /\ pc[t] = "looping" /\ mainPc \notin {"exit", "failed"}
  BY DEF IInv, WorkerInv, Load, Runs, Alive
<1>2. mainPc \notin {"stop", "report"}
  BY <1>1, AllDone
<1>3. mainPc = "join"
  BY <1>1, <1>2 DEF IInv, MainInv
<1> QED BY <1>1, <1>3 DEF IInv, MainInv

\* While main() wipes the caches, arms the alarm and starts the counters no
\* thread reads the buffer.
THEOREM QuietMeasurement == Spec => QuietSetup
<1>1. ASSUME IInv, [Next]_vars, NEW t \in Threads,
             accesscount'[t] # accesscount[t]
      PROVE  /\ mainPc \in {"join", "stop"}
             /\ \A u \in Threads : pc[u] \in {"spinning", "looping", "done"}
  <2>1. PICK v \in Threads : Load(v)
    BY <1>1 DEF Next, MainStep, Worker, Handler, Terminated, vars, loopVars,
         Split, Spawn, Gather, Evict, SetupTimeout, PerfStart, LetLoose,
         Join, PerfStop, Report, LockLog, UnlockLog, Arrive, Enter, Leave,
         AlarmFires, BreakSubpath, HandlerReturns
  <2>2. mainPc = "join" /\ Arrived = Threads
    BY <1>1, <2>1, LoadWhen
  <2> QED BY <2>2 DEF Arrived
<1>2. IInv /\ [Next]_vars =>
        [\A t \in Threads : accesscount'[t] # accesscount[t] =>
           /\ mainPc \in {"join", "stop"}
           /\ \A u \in Threads : pc[u] \in {"spinning", "looping", "done"}]_vars
  BY <1>1
<1> QED BY Invariance, <1>2, PTL DEF Spec, QuietSetup

-----------------------------------------------------------------------------
(* The thread variant implements Benchmark.                                *)

LEMMA PromiseInit == Init => Promise!Init
<1> SUFFICES ASSUME Init PROVE Promise!Init
  OBVIOUS
<1>1. Finished = {} /\ Phase = "setup"
  BY DEF Init, Finished, Phase, Alive
<1> QED BY <1>1
     DEF Init, Promise!Init, Promise!NothingReported

LEMMA PromiseStep ==
  ASSUME IInv, [Next]_vars
  PROVE  [Promise!Next]_(Promise!bvars)
<1> USE DEF Promise!bvars, Promise!Next, MainGoes, Goes, Runs, Alive, Phase,
       Finished, mainVars, loopVars, alarmVars
<1>1. CASE LetLoose
  <2>1. mainPc = "loose" /\ startExperiment = FALSE
    BY <1>1 DEF LetLoose, IInv, TypeOK, MainInv
  <2>2. Promise!Begin
    BY <1>1, <2>1 DEF LetLoose, Promise!Begin
  <2> QED BY <2>2
<1>2. CASE AlarmFires
  <2>1. Promise!Timeout
    BY <1>2 DEF AlarmFires, Promise!Timeout
  <2> QED BY <2>1
<1>3. CASE Report
  <2>1. \A t \in Threads : pc[t] = "done" /\ loopResults[t] = accesscount[t]
    BY <1>3, AllDone DEF Report
  <2>2. Finished = Threads
    BY <2>1
  <2>3. loopResults = accesscount
    BY <2>1 DEF IInv, TypeOK
  <2>4. startExperiment = TRUE
    BY <1>3 DEF Report, IInv, TypeOK, MainInv
  <2>5. CASE mainPc' = "exit"
    <3>1. Promise!Report
      BY <1>3, <2>2, <2>3, <2>4, <2>5 DEF Report, Promise!Report
    <3> QED BY <3>1
  <2>6. CASE mainPc' = "failed"
    <3>1. Promise!Fail
      BY <1>3, <2>4, <2>6 DEF Report, Promise!Fail
    <3> QED BY <3>1
  <2> QED BY <1>3, <2>5, <2>6 DEF Report
<1>4. CASE Evict \/ PerfStart \/ PerfStop
  <2>1. CASE mainPc' = "failed"
    <3>1. Promise!Fail
      BY <1>4, <2>1 DEF Evict, PerfStart, PerfStop, Promise!Fail
    <3> QED BY <3>1
  <2>2. CASE mainPc' # "failed"
    BY <1>4, <2>2 DEF Evict, PerfStart, PerfStop
  <2> QED BY <2>1, <2>2
<1>5. CASE Spawn
  <2>1. spawned \in Threads /\ pc[spawned] = "unborn"
    BY <1>5, ThreadAssumption DEF Spawn, IInv, TypeOK, MainInv, Threads
  <2>2. Finished' = Finished
    BY <1>5, <2>1 DEF Spawn, IInv, TypeOK
  <2>3. mainPc = "spawn" /\ mainPc' \in {"gather", "spawn"}
    BY <1>5 DEF Spawn
  <2> QED BY <1>5, <2>2, <2>3 DEF Spawn
<1>6. CASE Split \/ Gather \/ SetupTimeout \/ Join \/ BreakSubpath \/
       HandlerReturns
  <2>1. (alarm = "fired")' = (alarm = "fired")
    BY <1>6
       DEF Split, Gather, SetupTimeout, ArmAlarm, Join, BreakSubpath,
         HandlerReturns, IInv, AlarmInv
  <2> QED BY <1>6, <2>1
       DEF Split, Gather, SetupTimeout, Join, AfterJoin, BreakSubpath,
         HandlerReturns
<1>7. ASSUME NEW t \in Threads, Load(t)
      PROVE  Promise!Next
  <2>1. mainPc = "join" /\ startExperiment
    BY <1>7, LoadWhen
  <2>2. Promise!Access(t)
    BY <1>7, <2>1 DEF Load, CountAccess, Promise!Access
  <2> QED BY <2>2
<1>8. ASSUME NEW t \in Threads, Leave(t)
      PROVE  Promise!Next
  <2>1. startExperiment /\ alarm = "fired"
    <3>1. Broken(mem, SubpathOf[t])
      BY <1>8 DEF Leave, IInv, OverrunInv
    <3> QED BY <1>8, <3>1, BrokenByHandler DEF Leave, IInv, WorkerInv
  <2>2. accesscount[t] > 0
    <3>1. PICK laps \in 0 .. accesscount[t] :
            accesscount[t] = laps * Length[SubpathOf[t]] + 1
      BY <1>8 DEF Leave, IInv, CountsWholeLaps
    <3>2. laps * Length[SubpathOf[t]] \in Nat
      BY ThreadAssumption, SubpathAssumption
    <3> QED BY <3>1, <3>2
  <2>3. t \notin Finished /\ Finished' = Finished \cup {t}
    BY <1>8 DEF Leave, IInv, TypeOK
  <2>4. Promise!Finish(t)
    BY <1>8, <2>1, <2>2, <2>3 DEF Leave, Promise!Finish
  <2> QED BY <2>4
<1>9. ASSUME NEW t \in Threads,
             LockLog(t) \/ UnlockLog(t) \/ Arrive(t) \/ Enter(t)
      PROVE  UNCHANGED Promise!bvars
  <2>1. Finished' = Finished
    BY <1>9 DEF LockLog, UnlockLog, Arrive, Enter, IInv, TypeOK
  <2> QED BY <1>9, <2>1
       DEF LockLog, UnlockLog, Arrive, Enter
<1>10. CASE UNCHANGED vars
  BY <1>10 DEF vars
<1> QED BY <1>1, <1>2, <1>3, <1>4, <1>5, <1>6, <1>7, <1>8, <1>9, <1>10
     DEF Next, MainStep, Worker, Handler, Terminated

\* threadTest() keeps the promises of a benchmark run: accesses only while
\* the measurement is on, no thread gives up before the timeout or without
\* an access, and one report, of the final counts of threads that all ended.
THEOREM Refinement == Spec => KeepsPromise
<1>1. IInv /\ [Next]_vars => [Promise!Next]_(Promise!bvars)
  BY PromiseStep
<1> QED BY Invariance, PromiseInit, <1>1, PTL DEF Spec, KeepsPromise, Promise!Spec

-----------------------------------------------------------------------------
\* Fewer CPUs and another policy only take steps away: whatever holds in
\* every run of the threads holds of the benchmark however it is started.
THEOREM HoweverStarted == ScheduledSpec => Spec /\ KeepsPromise /\ []ReportIsFinal
<1>1. ScheduledInit => Init
  BY DEF ScheduledInit
<1>2. [ScheduledNext]_scheduledVars => [Next]_vars
  <2>1. CASE MainRuns \/ SignalSent \/ HandlerRuns \/ Terminated
    BY <2>1 DEF MainRuns, SignalSent, HandlerRuns, Next
  <2>2. CASE Spin \/ UNCHANGED scheduledVars
    BY <2>2 DEF Spin, scheduledVars
  <2>3. ASSUME NEW t \in Threads, ThreadRuns(t)
        PROVE  Next
    BY <2>3 DEF ThreadRuns, Next
  <2> QED BY <2>1, <2>2, <2>3 DEF ScheduledNext
<1>3. ScheduledSpec => Spec
  BY <1>1, <1>2, PTL DEF ScheduledSpec, Spec
<1> QED BY <1>3, Refinement, FinalReport, PTL
=============================================================================
