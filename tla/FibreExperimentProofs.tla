----------------------- MODULE FibreExperimentProofs ------------------------
(* Proofs about FibreExperiment, for any number of subpaths of any lengths, *)
(* any number of fibres, any clusters, with and without migration.          *)
EXTENDS ScheduledFibreExperiment, ChasingPathProofs, FiniteSetTheorems, TLAPS

(* The inductive invariant.                                                 *)

\* Fibres that have counted themselves, and those that are at testBarrier or
\* through it; what the main fibre adds to them.
Counted == {f \in Fibres : pc[f] \in {"arriving", "waiting", "looping", "done"}}
Past == {f \in Fibres : pc[f] \in {"waiting", "looping", "done"}}
Open == mainPc \in {"notserial", "join", "stop", "report", "exit"}
MainIn == IF mainPc = "blocked" \/ Open THEN 1 ELSE 0

\* Both barriers count who has come. A fibre goes on only when all have, and
\* the main fibre is among them.
BarrierInv ==
  /\ numAtBarrior = Cardinality(Counted)
  /\ mainPc # "failed" =>
       /\ atBarrier = Cardinality(Past) + MainIn
       /\ (\E f \in Fibres : pc[f] \in {"looping", "done"}) => Open
       /\ Open => \A f \in Fibres : pc[f] \in {"looping", "done"}
       /\ mainPc = "blocked" => atBarrier <= NumFibres

\* What the main fibre's progress says of the others.
MainInv ==
  /\ mainPc \in {"split", "create"} => created < NumFibres
  /\ \A f \in Fibres : f >= created => pc[f] = "unborn"
  /\ \A f \in Fibres : f < joined => pc[f] = "done"
  /\ mainPc \notin {"join", "stop", "report", "exit", "failed"} => joined = 0
  /\ mainPc = "join" => joined < NumFibres
  /\ mainPc \in {"stop", "report", "exit"} => joined = NumFibres
  /\ mainPc = "exit" => output = loopResults
  /\ mainPc # "exit" => output = [f \in Fibres |-> 0]

\* A worker runs a fibre of its cluster that is not blocked, and no other
\* worker runs it.
RunInv ==
  /\ \A w \in Workers : running[w] # Nobody =>
       /\ pc[running[w]] \in {"starting", "logging", "counting", "arriving", "looping"}
       /\ subpathIdx[running[w]] = ClusterOf[w]
  /\ \A w, v \in Workers :
       running[w] = running[v] /\ running[w] # Nobody => w = v

\* Fibres stop on the invalid index, which the handler has written.
StopInv ==
  \A f \in Fibres :
    /\ index[f] = Stop => alarm = "fired" /\ accesscount[f] > 0
    /\ pc[f] = "done" => index[f] = Stop /\ loopResults[f] = accesscount[f]

CounterInv ==
  /\ mainPc \in {"barrier", "blocked", "notserial", "join", "stop"} =>
       counting = MeasuredEvents
  /\ MeasuredEvents => counted = accesscount

AlarmInv ==
  /\ mainPc \in {"split", "create", "gather", "evict", "timeout"} => alarm = "off"
  /\ mainPc \notin {"split", "create", "gather", "evict", "timeout", "failed"} => alarm # "off"
  /\ handlerOn # Nobody => alarm = "fired"

\* The path of the test, but for the entries that the handler has broken.
TestPath == IF Migrate THEN LinkedPath ELSE CyclePath
PathInv ==
  /\ mainPc = "split" => mem = LinkedPath
  /\ mainPc # "split" =>
       \A e \in Entries :
         \/ mem[e] = TestPath[e]
         \/ e[2] = 0 /\ mem[e] = Stop /\ alarm = "fired"

\* The registers of the loop tell where it is.
PositionInv ==
  \A f \in Fibres : index[f] # Stop => index[f] = <<subpathIdx[f], curStep[f]>>

\* Loads a fibre still makes once all paths are broken.
Remaining(f) ==
  IF index[f] = Stop THEN 0
  ELSE IF curStep[f] = 0 THEN 1 ELSE Length[subpathIdx[f]] - curStep[f] + 1
OverrunInv ==
  /\ ~AllBroken => \A f \in Fibres : overrun[f] = 0
  /\ \A f \in Fibres : \E s \in Subpaths : overrun[f] + Remaining(f) <= Length[s]

IInv ==
  /\ TypeOK
  /\ BarrierInv /\ MainInv /\ RunInv /\ StopInv /\ CounterInv /\ AlarmInv
  /\ PathInv /\ PositionInv /\ OverrunInv

-----------------------------------------------------------------------------
(* Facts used in several of the proofs below.                               *)

LEMMA FibresFinite == IsFiniteSet(Fibres) /\ Cardinality(Fibres) = NumFibres
BY FibreAssumption, FS_Interval DEF Fibres

\* A set of fibres that grows by one, and one that has all of them.
LEMMA OneMore ==
  ASSUME NEW F \in SUBSET Fibres, NEW f \in Fibres \ F
  PROVE  /\ Cardinality(F \cup {f}) = Cardinality(F) + 1
         /\ Cardinality(F) \in 0 .. NumFibres - 1
         /\ Cardinality(F) = NumFibres - 1 => F \cup {f} = Fibres
<1>1. IsFiniteSet(F) /\ IsFiniteSet(F \cup {f})
  BY FibresFinite, FS_Subset
<1>2. Cardinality(F \cup {f}) = Cardinality(F) + 1
  BY <1>1, FS_AddElement
<1>3. Cardinality(F \cup {f}) <= NumFibres /\ Cardinality(F) \in Nat
  BY <1>1, FibresFinite, FS_Subset, FS_CardinalityType
<1>4. Cardinality(F \cup {f}) = NumFibres => F \cup {f} = Fibres
  BY FibresFinite, FS_Subset
<1> QED
  BY <1>2, <1>3, <1>4, FibreAssumption

LEMMA AllOfThem ==
  ASSUME NEW F \in SUBSET Fibres
  PROVE  /\ Cardinality(F) \in 0 .. NumFibres
         /\ Cardinality(F) = NumFibres => F = Fibres
<1>1. IsFiniteSet(F)
  BY FibresFinite, FS_Subset
<1>2. Cardinality(F) <= NumFibres /\ Cardinality(F) \in Nat
  BY <1>1, FibresFinite, FS_Subset, FS_CardinalityType
<1> QED
  BY <1>2, FibresFinite, FS_Subset, FibreAssumption

LEMMA AfterIsModulo ==
  ASSUME NEW s \in Subpaths
  PROVE  SubpathAfter(s) = (s + 1) % NumSubpaths /\ SubpathAfter(s) \in Subpaths
<1>1. NumSubpaths \in Nat \ {0} /\ s \in Nat /\ s < NumSubpaths
  BY SubpathAssumption DEF Subpaths
<1>2. CASE s + 1 = NumSubpaths
  <2>1. (s + 1) % NumSubpaths = 0
    BY <1>1, <1>2, SMTT(30)
  <2> QED
    BY <1>1, <1>2, <2>1 DEF SubpathAfter, Subpaths
<1>3. CASE s + 1 < NumSubpaths
  <2>1. (s + 1) % NumSubpaths = s + 1
    BY <1>1, <1>3, SMTT(30)
  <2> QED
    BY <1>1, <1>3, <2>1 DEF SubpathAfter, Subpaths
<1> QED
  BY <1>1, <1>2, <1>3

LEMMA TestPathType ==
  /\ TestPath \in [Entries -> Entries]
  /\ \A e \in Entries : TestPath[e] # Stop
<1>1. \A e \in Entries : CyclePath[e] \in Entries
  BY CyclePathType
<1>2. CyclePath \in [Entries -> Entries]
  BY <1>1 DEF CyclePath
<1> QED
  BY <1>2, LinkedPathType, StopAssumption DEF TestPath

LEMMA PathAfterSplit == mem = LinkedPath => PathForTest = TestPath
BY SplitLinkedPath DEF PathForTest, TestPath

\* Before the handler has run nothing is broken.
LEMMA BrokenByHandler ==
  ASSUME TypeOK, PathInv, NEW s \in Subpaths, Broken(mem, s)
  PROVE  alarm = "fired" /\ mainPc # "split"
<1>1. StartIdx(s) \in Entries
  BY StartIsEntry
<1>2. LinkedPath[StartIdx(s)] # Stop /\ TestPath[StartIdx(s)] # Stop
  BY <1>1, LinkedPathType, TestPathType, StopAssumption
<1> QED
  BY <1>1, <1>2 DEF PathInv, Broken

\* Where a load takes a fibre: on in its subpath, or at the end of its lap to
\* the first entry of the subpath it goes to, or from a first entry to -1.
LEMMA LoadTarget ==
  ASSUME IInv, mainPc # "split", NEW f \in Fibres, index[f] # Stop
  PROVE  LET s == subpathIdx[f]
             k == curStep[f]
             n == mem[index[f]]
             t == IF Migrate /\ LapEnds(f) THEN SubpathAfter(s) ELSE s
         IN  /\ s \in Subpaths /\ t \in Subpaths /\ Length[s] \in Nat \ {0}
             /\ k \in 0 .. Length[s] - 1
             /\ \/ n = Stop /\ k = 0 /\ Broken(mem, s) /\ alarm = "fired"
                \/ /\ n # Stop /\ n \in Entries
                   /\ k + 1 < Length[s] => n = <<s, k + 1>>
                   /\ k + 1 = Length[s] => n = <<t, 0>>
                   /\ k = 0 => ~Broken(mem, s)
<1> DEFINE s == subpathIdx[f]
           k == curStep[f]
           e == index[f]
           n == mem[index[f]]
           t == IF Migrate /\ LapEnds(f) THEN SubpathAfter(s) ELSE s
<1>1. s \in Subpaths /\ Length[s] \in Nat \ {0} /\ t \in Subpaths
  BY SubpathAssumption, AfterIsModulo DEF IInv, TypeOK
<1>2. e \in Entries /\ e = <<s, k>>
  BY DEF IInv, TypeOK, PositionInv
<1>3. k \in 0 .. Length[s] - 1 /\ e[1] = s /\ e[2] = k
  BY <1>2, EntryForm
<1>4. LapEnds(f) <=> k + 1 = Length[s]
  BY <1>1, <1>3 DEF LapEnds
<1>5. CASE n = TestPath[e]
  <2>1. n # Stop /\ n \in Entries
    BY <1>2, <1>5, TestPathType
  <2>2. k = 0 => ~Broken(mem, s)
    BY <1>2, <2>1 DEF Broken, StartIdx
  <2>3. k + 1 < Length[s] => n = <<s, k + 1>>
    BY <1>2, <1>3, <1>5, LinkedPathTarget, CyclePathTarget DEF TestPath
  <2>4. k + 1 = Length[s] => n = <<t, 0>>
    <3>1. ASSUME k + 1 = Length[s], Migrate PROVE n = <<t, 0>>
      <4>1. n = StartIdx((s + 1) % NumSubpaths)
        BY <1>2, <1>3, <1>5, <3>1, LinkedPathTarget DEF TestPath
      <4> QED
        BY <1>1, <1>4, <3>1, <4>1, AfterIsModulo DEF StartIdx
    <3>2. ASSUME k + 1 = Length[s], ~Migrate PROVE n = <<t, 0>>
      BY <1>2, <1>3, <1>5, <3>2, CyclePathTarget DEF TestPath, StartIdx
    <3> QED
      BY <3>1, <3>2
  <2> QED
    BY <1>1, <1>3, <2>1, <2>2, <2>3, <2>4
<1>6. CASE k = 0 /\ n = Stop /\ alarm = "fired"
  <2>1. Broken(mem, s)
    BY <1>2, <1>6 DEF Broken, StartIdx
  <2> QED
    BY <1>1, <1>3, <1>6, <2>1
<1>7. mem[e] = TestPath[e] \/ (e[2] = 0 /\ mem[e] = Stop /\ alarm = "fired")
  BY <1>2 DEF IInv, PathInv
<1> QED
  BY <1>3, <1>5, <1>6, <1>7

\* A fibre loads while the main fibre joins or has yet to find that it was
\* not the serial one.
LEMMA LoadWhen ==
  ASSUME IInv, NEW w \in Workers, NEW f \in Fibres, Load(w, f) \/ Leave(w, f)
  PROVE  /\ pc[f] = "looping" /\ running[w] = f
         /\ mainPc \in {"notserial", "join"} /\ atBarrier = NumFibres + 1
         /\ \A g \in Fibres : pc[g] \in {"looping", "done"}
<1>1. pc[f] = "looping" /\ running[w] = f /\ mainPc \notin {"exit", "failed"}
  BY DEF Load, Leave, Goes, Steps, WorkerRuns, Alive
<1>2. Open /\ \A g \in Fibres : pc[g] \in {"looping", "done"}
  BY <1>1 DEF IInv, BarrierInv
<1>3. ~(f < joined)
  BY <1>1 DEF IInv, MainInv
<1>4. joined # NumFibres
  BY <1>3, FibreAssumption DEF Fibres
<1>5. mainPc \in {"notserial", "join"}
  BY <1>2, <1>4 DEF Open, IInv, MainInv
<1>6. Past = Fibres
  BY <1>2 DEF Past
<1>7. atBarrier = NumFibres + 1
  BY <1>1, <1>2, <1>6, FibresFinite DEF IInv, BarrierInv, MainIn
<1> QED
  BY <1>1, <1>2, <1>5, <1>7

-----------------------------------------------------------------------------
(* Every step preserves every part of the invariant.                        *)

LEMMA TypeOKStep ==
  ASSUME IInv, [Next]_vars
  PROVE  TypeOK'
<1> USE DEF IInv, TypeOK, MainGoes, Goes, Steps, WorkerRuns, Alive, Release,
       mainVars, loopVars, alarmVars
<1>1. CASE Split
  <2>1. mem' = TestPath
    BY <1>1, PathAfterSplit DEF Split, PathInv
  <2>2. TestPath \in Paths
    BY TestPathType DEF Paths
  <2> QED BY <1>1, <2>1, <2>2 DEF Split
<1>2. CASE Create
  <2>1. created + 1 \in 0 .. NumFibres
    BY <1>2, FibreAssumption DEF Create, MainInv
  <2>2. mainPc' \in {"gather", "create"}
    BY <1>2 DEF Create
  <2> QED BY <1>2, <2>1, <2>2 DEF Create
<1>3. CASE PerfStart
  BY <1>3, OptionAssumption DEF PerfStart
<1>4. CASE MainAtBarrier
  <2>1. mainPc = "barrier"
    BY <1>4 DEF MainAtBarrier
  <2>2. atBarrier = Cardinality(Past)
    BY <2>1, AllOfThem DEF BarrierInv, MainIn, Open, Past
  <2>3. atBarrier + 1 \in 0 .. NumFibres + 1
    <3>1. Past \subseteq Fibres
      BY DEF Past
    <3>2. Cardinality(Past) \in 0 .. NumFibres /\ NumFibres \in Nat
      BY <3>1, AllOfThem, FibreAssumption
    <3> QED BY <2>2, <3>2
  <2>4. Freed(pc) \in [Fibres -> {"unborn", "starting", "locking", "logging",
                        "counting", "arriving", "waiting", "looping", "done"}]
    BY DEF Freed
  <2> QED BY <1>4, <2>3, <2>4 DEF MainAtBarrier
<1>5. CASE Join
  <2>1. joined + 1 \in 0 .. NumFibres
    BY <1>5, FibreAssumption DEF Join, MainInv
  <2>2. mainPc' \in {"stop", "join"}
    BY <1>5 DEF Join, AfterJoin
  <2> QED BY <1>5, <2>1, <2>2 DEF Join
<1>6. CASE BreakSubpath
  <2>1. handlerAt \in Subpaths
    BY <1>6, SubpathAssumption DEF BreakSubpath, Subpaths
  <2>2. Break(mem, handlerAt) \in Paths
    BY <2>1, StartIsEntry DEF Break, Paths
  <2>3. handlerAt + 1 \in 0 .. NumSubpaths
    BY <1>6, SubpathAssumption DEF BreakSubpath
  <2> QED BY <1>6, <2>2, <2>3 DEF BreakSubpath
<1>7. CASE Gather \/ Evict \/ SetupTimeout \/ AssertFails \/ PerfStop \/ Report
  BY <1>7 DEF Gather, Evict, SetupTimeout, ArmAlarm, AssertFails, PerfStop, Report
<1>8. CASE AlarmFires \/ HandlerReturns
  BY <1>8 DEF AlarmFires, HandlerReturns
<1>9. ASSUME NEW w \in Workers, Dispatch(w)
      PROVE  TypeOK'
  BY <1>9 DEF Dispatch
<1>10. ASSUME NEW w \in Workers, NEW f \in Fibres, LockLog(w, f) \/ UnlockLog(w, f)
       PROVE  TypeOK'
  BY <1>10 DEF LockLog, UnlockLog
<1>11. ASSUME NEW w \in Workers, NEW f \in Fibres, Arrive(w, f)
       PROVE  TypeOK'
  <2>1. f \notin Counted /\ Counted \subseteq Fibres
    BY <1>11 DEF Arrive, Counted
  <2>2. numAtBarrior + 1 \in 0 .. NumFibres
    <3>1. Cardinality(Counted) \in 0 .. NumFibres - 1 /\ NumFibres \in Nat
      BY <2>1, OneMore, FibreAssumption
    <3>2. numAtBarrior = Cardinality(Counted)
      BY DEF BarrierInv
    <3> QED BY <3>1, <3>2
  <2> QED BY <1>11, <2>2 DEF Arrive
<1>12. ASSUME NEW w \in Workers, NEW f \in Fibres, Wait(w, f)
       PROVE  TypeOK'
  <2>1. f \notin Past /\ Past \subseteq Fibres /\ mainPc # "failed"
    BY <1>12 DEF Wait, Past
  <2>2. MainIn \in {0, 1}
    BY DEF MainIn
  <2>3. atBarrier + 1 \in 0 .. NumFibres + 1
    <3>1. Cardinality(Past) \in 0 .. NumFibres - 1 /\ NumFibres \in Nat
      BY <2>1, OneMore, FibreAssumption
    <3>2. atBarrier = Cardinality(Past) + MainIn
      BY <2>1 DEF BarrierInv
    <3> QED BY <2>2, <3>1, <3>2
  <2>4. Freed(pc) \in [Fibres -> {"unborn", "starting", "locking", "logging",
                        "counting", "arriving", "waiting", "looping", "done"}]
    BY DEF Freed
  <2> QED BY <1>12, <2>3, <2>4 DEF Wait
<1>13. ASSUME NEW w \in Workers, NEW f \in Fibres, Load(w, f)
       PROVE  TypeOK'
  <2>1. mem[index[f]] \in Entries \cup {Stop}
    BY <1>13 DEF Load, Paths
  <2>2. /\ subpathIdx' \in [Fibres -> Subpaths] /\ curStep' \in [Fibres -> Nat]
        /\ running' \in [Workers -> Fibres \cup {Nobody}]
    <3>1. SubpathAfter(subpathIdx[f]) \in Subpaths
      BY AfterIsModulo
    <3> QED BY <1>13, <3>1 DEF Load, EndLap
  <2>3. index' \in [Fibres -> Entries \cup {Stop}]
    BY <1>13, <2>1 DEF Load
  <2>4. /\ accesscount' \in [Fibres -> Nat] /\ counted' \in [Fibres -> Nat]
        /\ overrun' \in [Fibres -> Nat]
    BY <1>13 DEF Load
  <2> QED BY <1>13, <2>2, <2>3, <2>4 DEF Load
<1>14. ASSUME NEW w \in Workers, NEW f \in Fibres, Leave(w, f)
       PROVE  TypeOK'
  BY <1>14 DEF Leave, StoreResult
<1>15. CASE UNCHANGED vars
  BY <1>15 DEF vars
<1> QED BY <1>1, <1>2, <1>3, <1>4, <1>5, <1>6, <1>7, <1>8, <1>9, <1>10, <1>11,
           <1>12, <1>13, <1>14, <1>15
     DEF Next, MainStep, Worker, Handler, Terminated

\* Only Arrive and Wait change who has come, and they count.
LEMMA BarrierInvStep ==
  ASSUME IInv, [Next]_vars
  PROVE  BarrierInv'
<1> USE DEF IInv, TypeOK, MainGoes, Goes, Steps, WorkerRuns, Alive, Release,
       mainVars, loopVars, alarmVars
<1>1. CASE Create
  <2>1. created \in Fibres /\ pc[created] = "unborn" /\ mainPc = "create"
    BY <1>1, FibreAssumption DEF Create, MainInv, Fibres
  <2>2. Counted' = Counted /\ Past' = Past
    BY <1>1, <2>1 DEF Create, Counted, Past
  <2>3. mainPc' \in {"create", "gather"}
    BY <1>1 DEF Create
  <2>4. \A f \in Fibres : pc'[f] \in {"looping", "done"} => pc[f] \in {"looping", "done"}
    BY <1>1, <2>1 DEF Create
  <2> QED BY <1>1, <2>1, <2>2, <2>3, <2>4 DEF Create, BarrierInv, Open, MainIn
<1>2. CASE MainAtBarrier
  <2>1. mainPc = "barrier" /\ ~Open /\ MainIn = 0
    BY <1>2 DEF MainAtBarrier, Open, MainIn
  <2>2. atBarrier = Cardinality(Past) /\ Cardinality(Past) \in 0 .. NumFibres
    BY <2>1, AllOfThem DEF BarrierInv, Past
  <2>3. \A f \in Fibres : pc[f] \notin {"looping", "done"}
    BY <2>1 DEF BarrierInv
  <2>4. CASE LastAtBarrier
    <3>0. Cardinality(Past) = NumFibres
      <4>1. atBarrier + 1 = NumFibres + 1 /\ atBarrier \in Nat /\ NumFibres \in Nat
        BY <2>4, FibreAssumption DEF LastAtBarrier
      <4>2. atBarrier = NumFibres
        BY <4>1
      <4> QED BY <2>2, <4>2
    <3>1. Past = Fibres
      <4>1. Past \subseteq Fibres
        BY DEF Past
      <4> QED BY <3>0, <4>1, AllOfThem
    <3>2. \A f \in Fibres : pc[f] = "waiting" /\ pc'[f] = "looping"
      BY <1>2, <2>3, <2>4, <3>1 DEF MainAtBarrier, Past, Freed
    <3>3. Past' = Past /\ Counted' = Counted
      BY <3>2 DEF Past, Counted
    <3>4. mainPc' = "join" /\ atBarrier' = atBarrier + 1
      BY <1>2, <2>4 DEF MainAtBarrier
    <3> QED BY <1>2, <2>2, <3>2, <3>3, <3>4 DEF MainAtBarrier, BarrierInv, Open, MainIn
  <2>5. CASE ~LastAtBarrier
    <3>1. mainPc' = "blocked" /\ atBarrier' = atBarrier + 1 /\ pc' = pc
      BY <1>2, <2>5 DEF MainAtBarrier
    <3>2. Past' = Past /\ Counted' = Counted
      BY <3>1 DEF Past, Counted
    <3>3. atBarrier' <= NumFibres
      BY <2>2, <2>5, <3>1, FibreAssumption DEF LastAtBarrier
    <3> QED BY <1>2, <2>2, <2>3, <3>1, <3>2, <3>3 DEF MainAtBarrier, BarrierInv, Open, MainIn
  <2> QED BY <2>4, <2>5
<1>3. CASE AssertFails \/ Join \/ PerfStop \/ Report
  <2>1. Past' = Past /\ Counted' = Counted /\ UNCHANGED <<pc, atBarrier, numAtBarrior>>
    BY <1>3 DEF AssertFails, Join, PerfStop, Report, Past, Counted
  <2>2. Open /\ (mainPc' = "failed" \/ Open') /\ mainPc' # "blocked" /\ mainPc # "failed"
    BY <1>3 DEF AssertFails, Join, AfterJoin, PerfStop, Report, Open
  <2> QED BY <2>1, <2>2 DEF BarrierInv, MainIn
<1>4. CASE Split \/ Gather \/ Evict \/ SetupTimeout \/ PerfStart
  <2>1. Past' = Past /\ Counted' = Counted /\ UNCHANGED <<pc, atBarrier, numAtBarrior>>
    BY <1>4 DEF Split, Gather, Evict, SetupTimeout, PerfStart, Past, Counted
  <2>2. ~Open /\ ~Open' /\ mainPc' # "blocked" /\ mainPc \notin {"blocked", "failed"}
    BY <1>4 DEF Split, Gather, Evict, SetupTimeout, PerfStart, Open
  <2> QED BY <2>1, <2>2 DEF BarrierInv, MainIn
<1>5. CASE AlarmFires \/ Handler
  BY <1>5 DEF AlarmFires, Handler, BreakSubpath, HandlerReturns, BarrierInv, MainIn,
       Open, Past, Counted
<1>6. ASSUME NEW w \in Workers, Dispatch(w)
      PROVE  BarrierInv'
  BY <1>6 DEF Dispatch, BarrierInv, MainIn, Open, Past, Counted
<1>7. ASSUME NEW w \in Workers, NEW f \in Fibres, LockLog(w, f) \/ UnlockLog(w, f)
      PROVE  BarrierInv'
  <2>1. \A g \in Fibres : pc'[g] = pc[g]
          \/ {pc[g], pc'[g]} \subseteq {"starting", "logging", "locking", "counting"}
    BY <1>7 DEF LockLog, UnlockLog
  <2>2. /\ Past' = Past /\ Counted' = Counted
        /\ \A g \in Fibres : pc'[g] \in {"looping", "done"} <=> pc[g] \in {"looping", "done"}
    BY <2>1 DEF Past, Counted
  <2>3. UNCHANGED <<mainPc, atBarrier, numAtBarrior>>
    BY <1>7 DEF LockLog, UnlockLog
  <2> QED BY <2>2, <2>3 DEF BarrierInv, MainIn, Open
<1>8. ASSUME NEW w \in Workers, NEW f \in Fibres, Arrive(w, f)
      PROVE  BarrierInv'
  <2>1. f \in Fibres \ Counted /\ Counted \subseteq Fibres /\ Counted' = Counted \cup {f}
    BY <1>8 DEF Arrive, Counted
  <2>2. /\ Past' = Past
        /\ \A g \in Fibres : pc'[g] \in {"looping", "done"} <=> pc[g] \in {"looping", "done"}
    BY <1>8 DEF Arrive, Past
  <2>3. numAtBarrior' = numAtBarrior + 1 /\ UNCHANGED <<mainPc, atBarrier>>
    BY <1>8 DEF Arrive
  <2>4. Cardinality(Counted') = Cardinality(Counted) + 1
    BY <2>1, OneMore
  <2> QED BY <2>2, <2>3, <2>4 DEF BarrierInv, MainIn, Open
<1>9. ASSUME NEW w \in Workers, NEW f \in Fibres, Wait(w, f)
      PROVE  BarrierInv'
  <2>1. f \in Fibres \ Past /\ Past \subseteq Fibres /\ mainPc # "failed" /\ pc[f] = "arriving"
    BY <1>9 DEF Wait, Past
  <2>2. ~Open /\ \A g \in Fibres : pc[g] \notin {"looping", "done"}
    BY <2>1 DEF BarrierInv
  <2>3. /\ Cardinality(Past \cup {f}) = Cardinality(Past) + 1
        /\ Cardinality(Past) \in 0 .. NumFibres - 1
        /\ Cardinality(Past) = NumFibres - 1 => Past \cup {f} = Fibres
    BY <2>1, OneMore
  <2>4. atBarrier = Cardinality(Past) + MainIn /\ atBarrier' = atBarrier + 1
        /\ UNCHANGED numAtBarrior
    BY <1>9, <2>1 DEF BarrierInv, Wait
  <2>5. MainIn = IF mainPc = "blocked" THEN 1 ELSE 0
    BY <2>2 DEF MainIn
  <2>6. CASE LastAtBarrier
    <3>0. atBarrier = NumFibres /\ NumFibres \in Nat
      BY <2>6, FibreAssumption DEF LastAtBarrier
    <3>1. mainPc = "blocked" /\ Past \cup {f} = Fibres
      <4>1. MainIn # 0
        BY <2>3, <2>4, <3>0
      <4>2. MainIn = 1 /\ mainPc = "blocked"
        BY <2>5, <4>1
      <4>3. Cardinality(Past) = NumFibres - 1
        BY <2>3, <2>4, <3>0, <4>2
      <4> QED BY <2>3, <4>2, <4>3
    <3>2. mainPc' = "notserial" /\ \A g \in Fibres : pc'[g] = "looping"
      <4>1. \A g \in Fibres : g = f \/ pc[g] = "waiting"
        BY <2>2, <3>1 DEF Past
      <4>2. /\ pc' = [Freed(pc) EXCEPT ![f] = "looping"]
            /\ mainPc' = IF mainPc = "blocked" THEN "notserial" ELSE mainPc
        BY <1>9, <2>6 DEF Wait
      <4> QED BY <3>1, <4>1, <4>2 DEF Freed
    <3>3. Past' = Past \cup {f} /\ Counted' = Counted
      BY <2>1, <3>1, <3>2 DEF Past, Counted
    <3> QED BY <2>3, <2>4, <2>5, <3>1, <3>2, <3>3 DEF BarrierInv, MainIn, Open
  <2>7. CASE ~LastAtBarrier
    <3>1. mainPc' = mainPc /\ pc' = [pc EXCEPT ![f] = "waiting"]
      BY <1>9, <2>7 DEF Wait
    <3>2. Past' = Past \cup {f} /\ Counted' = Counted
      BY <2>1, <3>1 DEF Past, Counted
    <3>3. \A g \in Fibres : pc'[g] \notin {"looping", "done"}
      BY <2>2, <3>1
    <3>4. mainPc = "blocked" => atBarrier' <= NumFibres
      BY <2>4, <2>7, FibreAssumption DEF LastAtBarrier, BarrierInv
    <3>5. ~Open' /\ MainIn' = MainIn
      BY <2>2, <3>1 DEF Open, MainIn
    <3>6. atBarrier' = Cardinality(Past') + MainIn'
      <4>1. MainIn \in {0, 1} /\ Cardinality(Past) \in Nat
        BY <2>3, <2>5
      <4> HIDE DEF MainIn
      <4> QED BY <2>3, <2>4, <3>2, <3>5, <4>1
    <3> QED BY <2>4, <3>1, <3>2, <3>3, <3>4, <3>5, <3>6 DEF BarrierInv
  <2> QED BY <2>6, <2>7
<1>10. ASSUME NEW w \in Workers, NEW f \in Fibres, Load(w, f)
       PROVE  BarrierInv'
  BY <1>10 DEF Load, BarrierInv, MainIn, Open, Past, Counted
<1>11. ASSUME NEW w \in Workers, NEW f \in Fibres, Leave(w, f)
       PROVE  BarrierInv'
  <2>1. /\ Past' = Past /\ Counted' = Counted
        /\ \A g \in Fibres : pc'[g] \in {"looping", "done"} <=> pc[g] \in {"looping", "done"}
    BY <1>11 DEF Leave, Past, Counted
  <2> QED BY <1>11, <2>1 DEF Leave, BarrierInv, MainIn, Open
<1>12. CASE UNCHANGED vars
  BY <1>12 DEF vars, BarrierInv, MainIn, Open, Past, Counted
<1> QED BY <1>1, <1>2, <1>3, <1>4, <1>5, <1>6, <1>7, <1>8, <1>9, <1>10, <1>11, <1>12
     DEF Next, MainStep, Worker, Handler, Terminated

\* What a worker's step leaves alone, and what the main fibre's.
LEMMA WorkerStep ==
  ASSUME TypeOK, NEW w \in Workers, Worker(w)
  PROVE  /\ Alive
         /\ mainPc' = mainPc \/ (mainPc = "blocked" /\ mainPc' = "notserial")
         /\ UNCHANGED <<mem, created, joined, output, alarmVars, counting>>
         /\ \A g \in Fibres : pc[g] \in {"unborn", "done"} => pc'[g] = pc[g]
<1> USE DEF Goes, Steps, WorkerRuns, mainVars, loopVars, alarmVars, TypeOK
<1>1. CASE Dispatch(w)
  BY <1>1 DEF Dispatch
<1>2. ASSUME NEW f \in Fibres, LockLog(w, f) \/ UnlockLog(w, f)
      PROVE  \A g \in Fibres : pc[g] \in {"unborn", "done"} => pc'[g] = pc[g]
  BY <1>2 DEF LockLog, UnlockLog
<1>3. ASSUME NEW f \in Fibres, Wait(w, f)
      PROVE  \A g \in Fibres : pc[g] \in {"unborn", "done"} => pc'[g] = pc[g]
  BY <1>3 DEF Wait, Freed
<1>4. ASSUME NEW f \in Fibres, Arrive(w, f) \/ Load(w, f) \/ Leave(w, f)
      PROVE  \A g \in Fibres : pc[g] \in {"unborn", "done"} => pc'[g] = pc[g]
  BY <1>4 DEF Arrive, Load, Leave
<1>5. ASSUME NEW f \in Fibres, LockLog(w, f) \/ UnlockLog(w, f) \/ Arrive(w, f)
                               \/ Wait(w, f) \/ Load(w, f) \/ Leave(w, f)
      PROVE  /\ Alive
             /\ mainPc' = mainPc \/ (mainPc = "blocked" /\ mainPc' = "notserial")
             /\ UNCHANGED <<mem, created, joined, output, alarmVars, counting>>
  BY <1>5 DEF LockLog, UnlockLog, Arrive, Wait, Load, Leave
<1> QED BY <1>1, <1>2, <1>3, <1>4, <1>5 DEF Worker

LEMMA MainStepElse ==
  ASSUME TypeOK, MainStep
  PROVE  UNCHANGED <<running, loggingMutex, numAtBarrior, loopVars, loopResults,
                     handlerOn, handlerAt>>
BY DEF MainStep, Split, Create, Gather, Evict, SetupTimeout, PerfStart, MainAtBarrier,
   AssertFails, Join, PerfStop, Report, alarmVars

LEMMA MainInvStep ==
  ASSUME IInv, [Next]_vars
  PROVE  MainInv'
<1> USE DEF IInv, TypeOK, MainInv, MainGoes, WorkerRuns, Alive, alarmVars, mainVars
<1>1. CASE Create
  <2>1. created \in Fibres /\ mainPc = "create" /\ joined = 0
    BY <1>1, FibreAssumption DEF Create, Fibres
  <2>2. created' = created + 1 /\ joined' = joined /\ output' = output
    BY <1>1 DEF Create
  <2>3. \A f \in Fibres : f >= created' => pc'[f] = "unborn"
    <3>1. \A f \in Fibres : f >= created + 1 => f >= created /\ f # created
      BY <2>1 DEF Fibres
    <3> QED BY <1>1, <2>2, <3>1 DEF Create
  <2>4. \A f \in Fibres : f < joined' => pc'[f] = "done"
    BY <2>1, <2>2 DEF Fibres
  <2>5. mainPc' = IF created + 1 = NumFibres THEN "gather" ELSE "create"
    BY <1>1 DEF Create
  <2>6. mainPc' \in {"split", "create"} => created' < NumFibres
    BY <2>1, <2>2, <2>5, FibreAssumption
  <2> QED BY <2>1, <2>2, <2>3, <2>4, <2>5, <2>6
<1>2. CASE MainAtBarrier
  <2>1. \A f \in Fibres : pc[f] \in {"unborn", "done"} => pc'[f] = pc[f]
    BY <1>2 DEF MainAtBarrier, Freed
  <2>2. mainPc = "barrier" /\ mainPc' \in {"join", "blocked"}
    BY <1>2 DEF MainAtBarrier
  <2>3. joined < NumFibres
    BY <2>2, FibreAssumption
  <2> QED BY <1>2, <2>1, <2>2, <2>3 DEF MainAtBarrier
<1>3. CASE Join
  <2>1. joined \in Fibres /\ pc[joined] = "done" /\ mainPc = "join"
    BY <1>3, FibreAssumption DEF Join, Fibres
  <2>2. /\ joined' = joined + 1 /\ UNCHANGED <<created, pc, output, loopResults>>
        /\ mainPc' = IF joined + 1 = NumFibres THEN "stop" ELSE "join"
    BY <1>3 DEF Join, AfterJoin
  <2>3. \A f \in Fibres : f < joined + 1 => f < joined \/ f = joined
    BY <2>1 DEF Fibres
  <2>4. mainPc' = "join" => joined' < NumFibres
    BY <2>1, <2>2, FibreAssumption DEF Fibres
  <2> QED BY <2>1, <2>2, <2>3, <2>4
<1>4. CASE Split \/ Gather \/ Evict \/ SetupTimeout \/ PerfStart
  BY <1>4 DEF Split, Gather, Evict, SetupTimeout, PerfStart
<1>5. CASE AssertFails \/ PerfStop \/ Report
  BY <1>5 DEF AssertFails, PerfStop, Report
<1>6. CASE AlarmFires \/ Handler
  BY <1>6 DEF AlarmFires, Handler, BreakSubpath, HandlerReturns
<1>7. ASSUME NEW w \in Workers, Worker(w)
      PROVE  MainInv'
  <2>1. /\ mainPc \notin {"exit", "failed"} /\ UNCHANGED <<created, joined, output>>
        /\ mainPc' = mainPc \/ (mainPc = "blocked" /\ mainPc' = "notserial")
        /\ \A g \in Fibres : pc[g] \in {"unborn", "done"} => pc'[g] = pc[g]
    BY <1>7, WorkerStep
  <2> QED BY <2>1
<1>8. CASE UNCHANGED vars
  BY <1>8 DEF vars
<1> QED BY <1>1, <1>2, <1>3, <1>4, <1>5, <1>6, <1>7, <1>8 DEF Next, MainStep, Terminated

LEMMA AlarmInvStep ==
  ASSUME IInv, [Next]_vars
  PROVE  AlarmInv'
<1> USE DEF IInv, TypeOK, AlarmInv, MainGoes, WorkerRuns, Alive, alarmVars
<1>1. CASE Split \/ Create \/ Gather \/ Evict
  BY <1>1 DEF Split, Create, Gather, Evict
<1>2. CASE SetupTimeout
  BY <1>2 DEF SetupTimeout, ArmAlarm
<1>3. CASE PerfStart \/ MainAtBarrier \/ AssertFails \/ Join \/ PerfStop \/ Report
  BY <1>3 DEF PerfStart, MainAtBarrier, AssertFails, Join, AfterJoin, PerfStop, Report
<1>4. CASE AlarmFires \/ Handler
  BY <1>4 DEF AlarmFires, Handler, BreakSubpath, HandlerReturns, mainVars
<1>5. ASSUME NEW w \in Workers, Worker(w)
      PROVE  AlarmInv'
  <2>1. /\ mainPc' = mainPc \/ (mainPc = "blocked" /\ mainPc' = "notserial")
        /\ UNCHANGED <<alarm, handlerOn>>
    BY <1>5, WorkerStep
  <2> QED BY <2>1
<1>6. CASE UNCHANGED vars
  BY <1>6 DEF vars, mainVars
<1> QED BY <1>1, <1>2, <1>3, <1>4, <1>5, <1>6 DEF Next, MainStep, Terminated

\* A load is counted: it happens between PerfStart and PerfStop.
LEMMA CounterInvStep ==
  ASSUME IInv, [Next]_vars
  PROVE  CounterInv'
<1> USE DEF IInv, TypeOK, CounterInv, MainGoes, WorkerRuns, Alive, alarmVars, loopVars
<1>1. CASE Split \/ Create \/ Gather \/ Evict \/ SetupTimeout
  BY <1>1 DEF Split, Create, Gather, Evict, SetupTimeout
<1>2. CASE PerfStart
  BY <1>2 DEF PerfStart
<1>3. CASE MainAtBarrier \/ AssertFails \/ Join
  BY <1>3 DEF MainAtBarrier, AssertFails, Join, AfterJoin
<1>4. CASE PerfStop \/ Report
  BY <1>4 DEF PerfStop, Report
<1>5. CASE AlarmFires \/ Handler
  BY <1>5 DEF AlarmFires, Handler, BreakSubpath, HandlerReturns, mainVars
<1>6. ASSUME NEW w \in Workers, Worker(w)
      PROVE  CounterInv'
  <2>1. /\ mainPc' = mainPc \/ (mainPc = "blocked" /\ mainPc' = "notserial")
        /\ UNCHANGED counting
    BY <1>6, WorkerStep
  <2>2. ASSUME NEW f \in Fibres, Load(w, f), MeasuredEvents
        PROVE  counted' = accesscount'
    <3>1. mainPc \in {"notserial", "join"} /\ counting
      BY <2>2, LoadWhen
    <3> QED BY <2>2, <3>1 DEF Load
  <2>3. CASE Dispatch(w) \/ \E f \in Fibres : LockLog(w, f) \/ UnlockLog(w, f) \/ Arrive(w, f)
                                       \/ Wait(w, f) \/ Leave(w, f)
    <3>1. UNCHANGED <<counted, accesscount>>
      BY <2>3 DEF Dispatch, LockLog, UnlockLog, Arrive, Wait, Leave
    <3> QED BY <2>1, <3>1
  <2> QED BY <1>6, <2>1, <2>2, <2>3 DEF Worker
<1>7. CASE UNCHANGED vars
  BY <1>7 DEF vars, mainVars
<1> QED BY <1>1, <1>2, <1>3, <1>4, <1>5, <1>6, <1>7 DEF Next, MainStep, Terminated

\* The loops change only by a Load, their results only by a Leave.
LEMMA LoopStep ==
  ASSUME TypeOK, [Next]_vars,
         ~\E w \in Workers, f \in Fibres : Load(w, f) \/ Leave(w, f)
  PROVE  /\ UNCHANGED <<loopVars, loopResults>>
         /\ \A f \in Fibres : pc'[f] = "done" => pc[f] = "done"
<1> USE DEF Goes, Steps, TypeOK
<1>1. CASE MainStep
  BY <1>1 DEF MainStep, Split, Create, Gather, Evict, SetupTimeout, PerfStart,
     MainAtBarrier, AssertFails, Join, PerfStop, Report, Freed
<1>2. ASSUME NEW w \in Workers, Dispatch(w)
      PROVE  UNCHANGED <<loopVars, loopResults, pc>>
  BY <1>2 DEF Dispatch
<1>3. ASSUME NEW w \in Workers, NEW f \in Fibres,
             LockLog(w, f) \/ UnlockLog(w, f) \/ Arrive(w, f) \/ Wait(w, f)
      PROVE  /\ UNCHANGED <<loopVars, loopResults>>
             /\ \A g \in Fibres : pc'[g] = "done" => pc[g] = "done"
  BY <1>3 DEF LockLog, UnlockLog, Arrive, Wait, Freed
<1>4. CASE AlarmFires \/ Handler \/ UNCHANGED vars
  BY <1>4 DEF AlarmFires, Handler, BreakSubpath, HandlerReturns, vars
<1> QED BY <1>1, <1>2, <1>3, <1>4 DEF Next, Worker, Terminated

LEMMA AlarmStays ==
  ASSUME IInv, [Next]_vars, alarm = "fired"
  PROVE  alarm' = "fired"
<1>1. CASE MainStep
  BY <1>1 DEF MainStep, Split, Create, Gather, Evict, SetupTimeout, PerfStart,
     MainAtBarrier, AssertFails, Join, PerfStop, Report, alarmVars, MainGoes, IInv, AlarmInv
<1>2. CASE AlarmFires \/ Handler \/ UNCHANGED vars
  BY <1>2 DEF AlarmFires, Handler, BreakSubpath, HandlerReturns, vars, alarmVars
<1>3. ASSUME NEW w \in Workers, Worker(w)
      PROVE  alarm' = "fired"
  BY <1>3, WorkerStep DEF alarmVars, IInv
<1> QED BY <1>1, <1>2, <1>3 DEF Next, Terminated

LEMMA StopInvStep ==
  ASSUME IInv, [Next]_vars
  PROVE  StopInv'
<1> USE DEF IInv, TypeOK, StopInv, loopVars
<1>1. ASSUME NEW w \in Workers, NEW f \in Fibres, Load(w, f)
      PROVE  StopInv'
  <2>1. pc[f] = "looping" /\ mainPc # "split" /\ index[f] # Stop
    BY <1>1, LoadWhen DEF Load
  <2>2. index'[f] = Stop => alarm' = "fired"
    BY <1>1, <2>1, LoadTarget, AlarmStays DEF Load
  <2>3. accesscount'[f] > 0
    BY <1>1 DEF Load
  <2>4. \A g \in Fibres : g # f => index'[g] = index[g] /\ accesscount'[g] = accesscount[g]
    BY <1>1 DEF Load
  <2>5. pc' = pc /\ loopResults' = loopResults
    BY <1>1 DEF Load
  <2> QED BY <2>1, <2>2, <2>3, <2>4, <2>5, AlarmStays
<1>2. ASSUME NEW w \in Workers, NEW f \in Fibres, Leave(w, f)
      PROVE  StopInv'
  <2>1. UNCHANGED <<index, accesscount>> /\ index[f] = Stop
    BY <1>2 DEF Leave
  <2>2. /\ loopResults' = [loopResults EXCEPT ![f] = accesscount[f]]
        /\ pc' = [pc EXCEPT ![f] = "done"]
    BY <1>2 DEF Leave, StoreResult, Goes
  <2> QED BY <2>1, <2>2, AlarmStays
<1>3. CASE ~\E w \in Workers, f \in Fibres : Load(w, f) \/ Leave(w, f)
  BY <1>3, LoopStep, AlarmStays
<1> QED BY <1>1, <1>2, <1>3

\* Only main(), once, and the handler write to the path.
LEMMA MemStays ==
  ASSUME TypeOK, [Next]_vars, ~Split, ~BreakSubpath
  PROVE  mem' = mem /\ (mainPc' = "split" <=> mainPc = "split")
<1>1. CASE MainStep
  BY <1>1 DEF MainStep, MainGoes, Create, Gather, Evict, SetupTimeout, PerfStart,
     MainAtBarrier, AssertFails, Join, AfterJoin, PerfStop, Report
<1>2. CASE AlarmFires \/ HandlerReturns \/ UNCHANGED vars
  BY <1>2 DEF AlarmFires, HandlerReturns, vars, mainVars
<1>3. ASSUME NEW w \in Workers, Worker(w)
      PROVE  mem' = mem /\ (mainPc' = "split" <=> mainPc = "split")
  BY <1>3, WorkerStep
<1> QED BY <1>1, <1>2, <1>3 DEF Next, Handler, Terminated

\* Only alarm_handler() writes the path after the split, -1 at first entries.
LEMMA PathInvStep ==
  ASSUME IInv, [Next]_vars
  PROVE  PathInv'
<1> USE DEF IInv, TypeOK, PathInv
<1>1. CASE Split
  <2>1. mem' = TestPath /\ mainPc' # "split"
    BY <1>1, PathAfterSplit DEF Split, MainGoes
  <2> QED BY <2>1
<1>2. CASE BreakSubpath
  <2>1. alarm = "fired" /\ mainPc # "split" /\ mainPc' = mainPc
    BY <1>2 DEF BreakSubpath, AlarmInv, mainVars
  <2>2. handlerAt \in Subpaths
    BY <1>2, SubpathAssumption DEF BreakSubpath, Subpaths
  <2>3. StartIdx(handlerAt) \in Entries /\ StartIdx(handlerAt)[2] = 0
    BY <2>2, StartIsEntry DEF StartIdx
  <2>4. mem' = [mem EXCEPT ![StartIdx(handlerAt)] = Stop]
    BY <1>2 DEF BreakSubpath, Break
  <2>5. \A e \in Entries : mem'[e] = mem[e] \/ (e[2] = 0 /\ mem'[e] = Stop)
    BY <2>3, <2>4 DEF Paths
  <2> QED BY <2>1, <2>5, AlarmStays
<1>3. ASSUME ~Split, ~BreakSubpath
      PROVE  mem' = mem /\ (mainPc' = "split" <=> mainPc = "split")
  BY <1>3, MemStays
<1>4. CASE mem' = mem /\ (mainPc' = "split" <=> mainPc = "split")
  BY <1>4, AlarmStays
<1> QED BY <1>1, <1>2, <1>3, <1>4

\* What a Load does to the registers of its fibre and to those of others.
LEMMA LoadRegisters ==
  ASSUME IInv, NEW w \in Workers, NEW f \in Fibres, Load(w, f)
  PROVE  /\ subpathIdx'[f] = IF Migrate /\ LapEnds(f) THEN SubpathAfter(subpathIdx[f])
                                                     ELSE subpathIdx[f]
         /\ curStep'[f] = IF curStep[f] + 1 = Length[subpathIdx[f]] THEN 0 ELSE curStep[f] + 1
         /\ index'[f] = mem[index[f]]
         /\ \A g \in Fibres : g # f =>
              /\ index'[g] = index[g] /\ subpathIdx'[g] = subpathIdx[g]
              /\ curStep'[g] = curStep[g] /\ overrun'[g] = overrun[g]
         /\ curStep[f] \in 0 .. Length[subpathIdx[f]] - 1
         /\ mem' = mem /\ index[f] # Stop
<1> USE DEF IInv, TypeOK
<1>1. mainPc # "split" /\ index[f] # Stop
  BY LoadWhen DEF Load
<1>2. curStep[f] \in 0 .. Length[subpathIdx[f]] - 1 /\ Length[subpathIdx[f]] \in Nat
  BY <1>1, LoadTarget
<1>3. LapEnds(f) <=> curStep[f] + 1 = Length[subpathIdx[f]]
  BY <1>2 DEF LapEnds
<1>4. curStep' = [curStep EXCEPT ![f] = IF LapEnds(f) THEN 0 ELSE @ + 1]
  BY DEF Load, EndLap
<1>5. subpathIdx' = [subpathIdx EXCEPT ![f] = IF Migrate /\ LapEnds(f)
                                              THEN SubpathAfter(@) ELSE @]
  BY DEF Load, EndLap
<1>6. /\ index' = [index EXCEPT ![f] = mem[index[f]]] /\ mem' = mem
      /\ overrun' = [overrun EXCEPT ![f] = IF AllBroken THEN @ + 1 ELSE @]
  BY DEF Load
<1> QED BY <1>1, <1>2, <1>3, <1>4, <1>5, <1>6

LEMMA PositionInvStep ==
  ASSUME IInv, [Next]_vars
  PROVE  PositionInv'
<1> USE DEF IInv, TypeOK, PositionInv
<1>1. ASSUME NEW w \in Workers, NEW f \in Fibres, Load(w, f)
      PROVE  PositionInv'
  <2>1. mainPc # "split" /\ index[f] # Stop
    BY <1>1, LoadWhen DEF Load
  <2>2. index'[f] # Stop => index'[f] = <<subpathIdx'[f], curStep'[f]>>
    <3> SUFFICES ASSUME index'[f] # Stop
                 PROVE  index'[f] = <<subpathIdx'[f], curStep'[f]>>
      OBVIOUS
    <3> DEFINE s == subpathIdx[f]
               k == curStep[f]
               t == IF Migrate /\ LapEnds(f) THEN SubpathAfter(s) ELSE s
    <3>1. /\ k \in 0 .. Length[s] - 1 /\ Length[s] \in Nat
          /\ k + 1 < Length[s] => mem[index[f]] = <<s, k + 1>>
          /\ k + 1 = Length[s] => mem[index[f]] = <<t, 0>>
      BY <1>1, <2>1, LoadTarget, LoadRegisters
    <3>2. k + 1 < Length[s] => t = s
      BY <3>1 DEF LapEnds
    <3>3. /\ subpathIdx'[f] = t /\ index'[f] = mem[index[f]]
          /\ curStep'[f] = IF k + 1 = Length[s] THEN 0 ELSE k + 1
      BY <1>1, LoadRegisters
    <3> HIDE DEF s, k, t
    <3>4. k + 1 < Length[s] \/ k + 1 = Length[s]
      <4> DEFINE L == Length[s]
      <4>1. k \in 0 .. L - 1 /\ L \in Nat
        BY <3>1
      <4> HIDE DEF L, IInv, TypeOK, PositionInv
      <4>2. k + 1 < L \/ k + 1 = L
        BY <4>1
      <4> QED BY <4>2 DEF L
    <3> QED BY <3>1, <3>2, <3>3, <3>4
  <2> QED BY <1>1, <2>2, LoadRegisters
<1>2. ASSUME NEW w \in Workers, NEW f \in Fibres, Leave(w, f)
      PROVE  PositionInv'
  BY <1>2 DEF Leave, loopVars
<1>3. CASE ~\E w \in Workers, f \in Fibres : Load(w, f) \/ Leave(w, f)
  BY <1>3, LoopStep DEF loopVars
<1> QED BY <1>1, <1>2, <1>3

\* A worker gives up a fibre when it blocks, leaves its cluster or ends.
LEMMA RunInvStep ==
  ASSUME IInv, [Next]_vars
  PROVE  RunInv'
<1> DEFINE MayRun == {"starting", "logging", "counting", "arriving", "looping"}
<1> USE DistinctAssumption DEF IInv, TypeOK, RunInv, Goes, Steps, Release
<1>1. ASSUME UNCHANGED <<running, subpathIdx>>,
             \A f \in Fibres : pc[f] \in MayRun => pc'[f] \in MayRun
      PROVE  RunInv'
  BY <1>1
<1>2. CASE Create
  <2>1. mainPc = "create" /\ pc[created] = "unborn" /\ UNCHANGED <<running, subpathIdx>>
    BY <1>2, FibreAssumption DEF Create, MainGoes, MainInv, Fibres, loopVars
  <2>2. \A f \in Fibres : pc[f] \in MayRun => pc'[f] \in MayRun
    BY <1>2 DEF Create
  <2> QED BY <1>1, <2>1, <2>2
<1>3. CASE MainAtBarrier
  <2>1. \A f \in Fibres : pc[f] \in MayRun => pc'[f] \in MayRun
    BY <1>3 DEF MainAtBarrier, Freed
  <2> QED BY <1>1, <1>3, <2>1 DEF MainAtBarrier, loopVars
<1>4. CASE Split \/ Gather \/ Evict \/ SetupTimeout \/ PerfStart \/ AssertFails
           \/ Join \/ PerfStop \/ Report
  <2>1. UNCHANGED <<running, subpathIdx, pc>>
    BY <1>4 DEF Split, Gather, Evict, SetupTimeout, PerfStart, AssertFails, Join, PerfStop,
       Report, loopVars
  <2> QED BY <1>1, <2>1
<1>5. CASE AlarmFires \/ Handler \/ UNCHANGED vars
  <2>1. UNCHANGED <<running, subpathIdx, pc>>
    BY <1>5 DEF AlarmFires, Handler, BreakSubpath, HandlerReturns, loopVars, vars
  <2> QED BY <1>1, <2>1
<1>6. ASSUME NEW w \in Workers, Dispatch(w)
      PROVE  RunInv'
  <2>1. PICK f \in Fibres : /\ Ready(f) /\ subpathIdx[f] = ClusterOf[w]
                            /\ running' = [running EXCEPT ![w] = f]
    BY <1>6 DEF Dispatch
  <2>2. pc[f] \in MayRun /\ \A v \in Workers : running[v] # f
    BY <2>1 DEF Ready
  <2>3. UNCHANGED <<pc, subpathIdx>> /\ running'[w] = f
    BY <1>6, <2>1 DEF Dispatch, loopVars
  <2>4. \A v \in Workers : v # w => running'[v] = running[v]
    BY <2>1
  <2>5. \A v \in Workers : running'[v] # Nobody =>
          pc'[running'[v]] \in MayRun /\ subpathIdx'[running'[v]] = ClusterOf[v]
    BY <2>1, <2>2, <2>3, <2>4
  <2>6. \A u, v \in Workers : running'[u] = running'[v] /\ running'[u] # Nobody => u = v
    BY <2>2, <2>3, <2>4
  <2> QED BY <2>5, <2>6
\* The other steps change the state of one fibre, which its worker keeps
\* while it is runnable and in the cluster.
<1>7. ASSUME NEW w \in Workers, NEW f \in Fibres, running[w] = f,
             \A g \in Fibres : g # f => subpathIdx'[g] = subpathIdx[g]
                                 /\ (pc[g] \in MayRun => pc'[g] \in MayRun),
             \/ Release(w)
             \/ UNCHANGED running /\ pc'[f] \in MayRun /\ subpathIdx'[f] = subpathIdx[f]
      PROVE  RunInv'
  <2>1. CASE Release(w)
    <3>1. /\ running'[w] = Nobody
          /\ \A v \in Workers : v # w => running'[v] = running[v] /\ running[v] # f
      BY <1>7, <2>1
    <3>2. \A v \in Workers : running'[v] # Nobody =>
            pc'[running'[v]] \in MayRun /\ subpathIdx'[running'[v]] = ClusterOf[v]
      BY <1>7, <3>1
    <3>3. \A u, v \in Workers : running'[u] = running'[v] /\ running'[u] # Nobody => u = v
      BY <3>1
    <3> QED BY <3>2, <3>3
  <2>2. CASE UNCHANGED running /\ pc'[f] \in MayRun /\ subpathIdx'[f] = subpathIdx[f]
    BY <1>7, <2>2
  <2> QED BY <1>7, <2>1, <2>2
<1>8. ASSUME NEW w \in Workers, NEW f \in Fibres, LockLog(w, f)
      PROVE  RunInv'
  <2>1. running[w] = f /\ subpathIdx' = subpathIdx
    BY <1>8 DEF LockLog, loopVars
  <2>2. \A g \in Fibres : g # f => pc'[g] = pc[g]
    BY <1>8 DEF LockLog
  <2>3. Release(w) \/ (UNCHANGED running /\ pc'[f] \in MayRun)
    BY <1>8 DEF LockLog
  <2> QED BY <1>7, <2>1, <2>2, <2>3
<1>9. ASSUME NEW w \in Workers, NEW f \in Fibres, UnlockLog(w, f) \/ Arrive(w, f)
      PROVE  RunInv'
  <2>1. running[w] = f /\ UNCHANGED <<running, subpathIdx>>
    BY <1>9 DEF UnlockLog, Arrive, loopVars
  <2>2. \A g \in Fibres : pc[g] \in MayRun => pc'[g] \in MayRun
    BY <1>9 DEF UnlockLog, Arrive
  <2> QED BY <1>1, <2>1, <2>2
<1>10. ASSUME NEW w \in Workers, NEW f \in Fibres, Wait(w, f)
       PROVE  RunInv'
  <2>1. running[w] = f /\ subpathIdx' = subpathIdx
    BY <1>10 DEF Wait, loopVars
  <2>2. \A g \in Fibres : g # f => (pc[g] \in MayRun => pc'[g] \in MayRun)
    BY <1>10 DEF Wait, Freed
  <2>3. Release(w) \/ (UNCHANGED running /\ pc'[f] \in MayRun)
    BY <1>10 DEF Wait, Freed
  <2> QED BY <1>7, <2>1, <2>2, <2>3
<1>11. ASSUME NEW w \in Workers, NEW f \in Fibres, Load(w, f)
       PROVE  RunInv'
  <2>1. running[w] = f /\ pc[f] = "looping" /\ pc' = pc
    BY <1>11 DEF Load
  <2>2. \A g \in Fibres : g # f => subpathIdx'[g] = subpathIdx[g]
    BY <1>11, LoadRegisters
  <2>3. Release(w) \/ (UNCHANGED running /\ subpathIdx'[f] = subpathIdx[f])
    BY <1>11, LoadRegisters DEF Load, EndLap
  <2> QED BY <1>7, <2>1, <2>2, <2>3
<1>12. ASSUME NEW w \in Workers, NEW f \in Fibres, Leave(w, f)
       PROVE  RunInv'
  <2>1. running[w] = f /\ subpathIdx' = subpathIdx /\ Release(w)
    BY <1>12 DEF Leave, loopVars
  <2>2. \A g \in Fibres : g # f => pc'[g] = pc[g]
    BY <1>12 DEF Leave
  <2> QED BY <1>7, <2>1, <2>2
<1> HIDE DEF IInv, TypeOK, RunInv
<1> QED BY <1>2, <1>3, <1>4, <1>5, <1>6, <1>8, <1>9, <1>10, <1>11, <1>12
     DEF Next, MainStep, Worker, Handler, Terminated

LEMMA OverrunInvStep ==
  ASSUME IInv, [Next]_vars
  PROVE  OverrunInv'
<1> USE DEF IInv
<1>1. CASE Split
  <2>1. ~AllBroken
    <3>1. mainPc = "split" /\ 0 \in Subpaths
      BY <1>1, SubpathAssumption DEF Split, MainGoes, Subpaths
    <3> QED BY <3>1, BrokenByHandler DEF AllBroken
  <2>2. UNCHANGED <<index, overrun, curStep, subpathIdx>>
    BY <1>1 DEF Split, loopVars
  <2>3. \A f \in Fibres : overrun'[f] = 0
    BY <2>1, <2>2 DEF OverrunInv
  <2> QED BY <2>2, <2>3 DEF OverrunInv, Remaining
<1>2. CASE BreakSubpath
  <2>1. UNCHANGED <<index, overrun, curStep, subpathIdx>>
    BY <1>2 DEF BreakSubpath, loopVars
  <2>2. ASSUME NEW s \in Subpaths, Broken(mem, s)
        PROVE  Broken(mem, s)'
    <3>1. handlerAt \in Subpaths
      BY <1>2, SubpathAssumption DEF BreakSubpath, TypeOK, Subpaths
    <3>2. StartIdx(s) \in Entries /\ StartIdx(handlerAt) \in Entries
      BY <3>1, StartIsEntry
    <3> QED BY <1>2, <2>2, <3>2 DEF BreakSubpath, Break, Broken, TypeOK, Paths
  <2>3. AllBroken => AllBroken'
    BY <2>2 DEF AllBroken
  <2> QED BY <2>1, <2>3 DEF OverrunInv, Remaining
<1>3. ASSUME NEW w \in Workers, NEW f \in Fibres, Load(w, f)
      PROVE  OverrunInv'
  <2> DEFINE s == subpathIdx[f]
             L == Length[s]
             k == curStep[f]
             n == mem[index[f]]
  <2>1. /\ \A g \in Fibres : g # f =>
             /\ index'[g] = index[g] /\ subpathIdx'[g] = subpathIdx[g]
             /\ curStep'[g] = curStep[g] /\ overrun'[g] = overrun[g]
        /\ k \in 0 .. L - 1 /\ mem' = mem /\ index[f] # Stop /\ index'[f] = n
        /\ curStep'[f] = IF k + 1 = L THEN 0 ELSE k + 1
    BY <1>3, LoadRegisters
  <2>2. AllBroken' = AllBroken
    BY <2>1 DEF AllBroken, Broken
  <2>3. overrun[f] \in Nat
        /\ overrun'[f] = IF AllBroken THEN overrun[f] + 1 ELSE overrun[f]
    BY <1>3 DEF Load, TypeOK
  <2>4. mainPc # "split"
    BY <1>3, LoadWhen
  <2>5. /\ s \in Subpaths /\ L \in Nat \ {0}
        /\ n # Stop /\ k = 0 => ~Broken(mem, s)
        /\ n = Stop => k = 0
    BY <2>1, <2>4, LoadTarget
  <2>6. AllBroken => Broken(mem, s)
    BY <2>5 DEF AllBroken
  <2>7. PICK r \in Subpaths : overrun[f] + Remaining(f) <= Length[r]
    BY DEF OverrunInv
  <2>8. Length[r] \in Nat
    BY SubpathAssumption
  <2>9. Remaining(f) = IF k = 0 THEN 1 ELSE L - k + 1
    BY <2>1 DEF Remaining
  <2>10. subpathIdx'[f] = IF k + 1 = L THEN subpathIdx'[f] ELSE s
    <3>1. k + 1 # L => ~LapEnds(f)
      BY <2>1, <2>5 DEF LapEnds
    <3> QED BY <1>3, <3>1, LoadRegisters
  <2>11. Remaining(f)' = IF n = Stop THEN 0 ELSE IF k + 1 = L THEN 1 ELSE L - k
    <3>1. Remaining(f)' = IF index'[f] = Stop THEN 0 ELSE IF curStep'[f] = 0 THEN 1
                          ELSE Length[subpathIdx'[f]] - curStep'[f] + 1
      BY DEF Remaining
    <3>2. k + 1 # L => L - (k + 1) + 1 = L - k /\ k + 1 # 0
      BY <2>1, <2>5
    <3> QED BY <2>1, <2>10, <3>1, <3>2
  <2>12. \E q \in Subpaths : overrun'[f] + Remaining(f)' <= Length[q]
    <3>1. CASE AllBroken
      <4>1. n # Stop => k # 0
        BY <2>5, <2>6, <3>1
      <4>2. overrun'[f] + Remaining(f)' <= Length[r]
        <5> HIDE DEF n, k, L
        <5>1. overrun'[f] = overrun[f] + 1
          BY <2>3, <3>1
        <5>2. Remaining(f)' + 1 <= Remaining(f)
          BY <2>1, <2>5, <2>9, <2>11, <4>1
        <5>3. Remaining(f)' \in Int /\ Remaining(f) \in Int
          BY <2>1, <2>5, <2>9, <2>11
        <5> QED BY <2>3, <2>7, <2>8, <5>1, <5>2, <5>3
      <4> QED BY <4>2
    <3>2. CASE ~AllBroken
      <4>1. overrun'[f] = 0
        BY <2>3, <3>2 DEF OverrunInv
      <4>2. overrun'[f] + Remaining(f)' <= L
        <5> HIDE DEF n, k, L
        <5> QED BY <2>1, <2>5, <2>11, <4>1
      <4> QED BY <2>5, <4>2
    <3> QED BY <3>1, <3>2
  <2>13. ~AllBroken' => \A g \in Fibres : overrun'[g] = 0
    BY <2>1, <2>2, <2>3 DEF OverrunInv
  <2>14. \A g \in Fibres : \E q \in Subpaths : overrun'[g] + Remaining(g)' <= Length[q]
    <3>1. ASSUME NEW g \in Fibres, g # f
          PROVE  \E q \in Subpaths : overrun'[g] + Remaining(g)' <= Length[q]
      BY <2>1, <3>1 DEF OverrunInv, Remaining
    <3> QED BY <2>12, <3>1
  <2> QED BY <2>13, <2>14 DEF OverrunInv
<1>4. ASSUME ~Split, ~BreakSubpath, ~\E w \in Workers, f \in Fibres : Load(w, f)
      PROVE  UNCHANGED <<mem, index, overrun, curStep, subpathIdx>>
  <2>1. CASE MainStep
    BY <1>4, <2>1, MainStepElse DEF MainStep, Create, Gather, Evict, SetupTimeout,
       PerfStart, MainAtBarrier, AssertFails, Join, PerfStop, Report, loopVars
  <2>2. CASE AlarmFires \/ HandlerReturns \/ UNCHANGED vars
    BY <2>2 DEF AlarmFires, HandlerReturns, vars, loopVars
  <2>3. ASSUME NEW w \in Workers, Worker(w)
        PROVE  UNCHANGED <<mem, index, overrun, curStep, subpathIdx>>
    BY <1>4, <2>3 DEF Worker, Dispatch, LockLog, UnlockLog, Arrive, Wait, Leave, loopVars
  <2> QED BY <1>4, <2>1, <2>2, <2>3 DEF Next, Handler, Terminated
<1>5. CASE UNCHANGED <<mem, index, overrun, curStep, subpathIdx>>
  <2>1. AllBroken' = AllBroken
    BY <1>5 DEF AllBroken, Broken
  <2> QED BY <1>5, <2>1 DEF OverrunInv, Remaining
<1> QED BY <1>1, <1>2, <1>3, <1>4, <1>5

LEMMA InitInv == Init => IInv
<1> SUFFICES ASSUME Init PROVE IInv
  OBVIOUS
<1> USE DEF Init
<1>1. \A f \in Fibres : /\ SubpathOf[f] \in Subpaths
                        /\ Length[SubpathOf[f]] \in Nat \ {0}
                        /\ StartIdx(SubpathOf[f]) \in Entries
  BY FibreAssumption, SubpathAssumption, StartIsEntry
<1>2. TypeOK
  <2>1. LinkedPath \in Paths
    BY LinkedPathType DEF Paths, LinkedPath
  <2>2. index \in [Fibres -> Entries \cup {Stop}] /\ subpathIdx \in [Fibres -> Subpaths]
    BY <1>1, FibreAssumption
  <2>3. 0 \in 0 .. NumFibres /\ 0 \in 0 .. NumFibres + 1 /\ 0 \in 0 .. NumSubpaths
    BY FibreAssumption, SubpathAssumption
  <2> QED BY <2>1, <2>2, <2>3 DEF TypeOK
<1>3. BarrierInv
  <2>1. Counted = {} /\ Past = {} /\ MainIn = 0 /\ ~Open
    BY DEF Counted, Past, MainIn, Open
  <2> QED BY <2>1, FS_EmptySet DEF BarrierInv
<1>4. MainInv
  <2>1. \A f \in Fibres : pc[f] = "unborn" /\ ~(f < 0)
    BY DEF Fibres
  <2> QED BY <2>1, FibreAssumption DEF MainInv
<1>5. RunInv
  BY DEF RunInv
<1>6. StopInv
  BY <1>1, StopAssumption DEF StopInv
<1>7. CounterInv /\ AlarmInv /\ PathInv
  BY DEF CounterInv, AlarmInv, PathInv
<1>8. PositionInv
  BY FibreAssumption DEF PositionInv, StartIdx
<1>9. OverrunInv
  <2>1. \A f \in Fibres : index[f] # Stop /\ overrun[f] = 0 /\ Remaining(f) = 1
    BY <1>1, StopAssumption DEF Remaining
  <2>2. \A f \in Fibres : overrun[f] + Remaining(f) <= Length[SubpathOf[f]]
    BY <1>1, <2>1
  <2> QED BY <1>1, <2>1, <2>2 DEF OverrunInv
<1> QED BY <1>2, <1>3, <1>4, <1>5, <1>6, <1>7, <1>8, <1>9 DEF IInv

\* IInv holds in every reachable state.
THEOREM Invariance == Spec => []IInv
<1>1. IInv /\ [Next]_vars => IInv'
  BY TypeOKStep, BarrierInvStep, MainInvStep, RunInvStep, StopInvStep, CounterInvStep,
     AlarmInvStep, PathInvStep, PositionInvStep, OverrunInvStep DEF IInv
<1> QED BY InitInv, <1>1, PTL DEF Spec

-----------------------------------------------------------------------------
(* What the invariant says of the properties that the runs check.           *)

\* Every variable keeps its type; neither barrier counts anyone twice.
THEOREM TypeCorrect == Spec => []TypeOK
<1>1. IInv => TypeOK
  BY DEF IInv
<1> QED BY Invariance, <1>1, PTL

\* A fibre is loaded from and run on one cluster only, the one of the subpath
\* it is in, however it migrates and whichever fibres the workers pick.
THEOREM Clusters == Spec => []OnOwnCluster
<1>1. ASSUME IInv
      PROVE  OnOwnCluster
  <2>1. ASSUME NEW f \in Fibres, index[f] # Stop
        PROVE  index[f][1] = subpathIdx[f]
    BY <1>1, <2>1 DEF IInv, PositionInv
  <2>2. ASSUME NEW w \in Workers, NEW f \in Fibres, running[w] = f
        PROVE  ClusterOf[w] = subpathIdx[f]
    BY <1>1, <2>2, DistinctAssumption DEF IInv, RunInv
  <2> QED BY <2>1, <2>2 DEF OnOwnCluster
<1> QED BY Invariance, <1>1, PTL

\* Once alarm_handler() has broken every subpath, a fibre ends within a lap
\* of one of them.
THEOREM PromptStop == Spec => []OverrunBounded
<1>1. ASSUME IInv
      PROVE  OverrunBounded
  <2> SUFFICES ASSUME NEW f \in Fibres
               PROVE  \E s \in Subpaths : overrun[f] <= Length[s]
    BY DEF OverrunBounded
  <2>1. PICK s \in Subpaths : overrun[f] + Remaining(f) <= Length[s]
    BY <1>1 DEF IInv, OverrunInv
  <2>2. Length[s] \in Nat /\ overrun[f] \in Nat
    BY <1>1, SubpathAssumption DEF IInv, TypeOK
  <2>3. Remaining(f) \in Int /\ Remaining(f) >= 0
    <3>1. CASE index[f] = Stop
      BY <3>1 DEF Remaining
    <3>2. CASE index[f] # Stop
      <4>1. index[f] \in Entries /\ index[f] = <<subpathIdx[f], curStep[f]>>
        BY <1>1, <3>2 DEF IInv, TypeOK, PositionInv
      <4>2. /\ curStep[f] \in 0 .. Length[subpathIdx[f]] - 1
            /\ Length[subpathIdx[f]] \in Nat
        BY <1>1, <4>1, EntryForm, SubpathAssumption DEF IInv, TypeOK
      <4> QED BY <3>2, <4>2 DEF Remaining
    <3> QED BY <3>1, <3>2
  <2> QED BY <2>1, <2>2, <2>3
<1> QED BY Invariance, <1>1, PTL

\* The counters are enabled before the first access and disabled after the
\* last one, of every fibre.
THEOREM CountersComplete == Spec => []CountersSeeAllLoads
<1>1. IInv => CountersSeeAllLoads
  BY DEF IInv, CounterInv, CountersSeeAllLoads
<1> QED BY Invariance, <1>1, PTL

LEMMA AllDone ==
  ASSUME IInv, mainPc \in {"stop", "report", "exit"}
  PROVE  /\ \A f \in Fibres : pc[f] = "done"
         /\ loopResults = accesscount /\ alarm = "fired"
<1>1. joined = NumFibres
  BY DEF IInv, MainInv
<1>2. \A f \in Fibres : f < joined
  BY <1>1, FibreAssumption DEF Fibres
<1>3. \A f \in Fibres : pc[f] = "done"
  BY <1>2 DEF IInv, MainInv
<1>4. \A f \in Fibres : loopResults[f] = accesscount[f] /\ alarm = "fired"
  BY <1>3 DEF IInv, StopInv
<1>5. 0 \in Fibres
  BY FibreAssumption DEF Fibres
<1> QED BY <1>3, <1>4, <1>5 DEF IInv, TypeOK

\* What stopped the fibres, and where the handler is once they are joined.
LastInv ==
  /\ ~Migrate => subpathIdx = SubpathOf
  /\ \A f \in Fibres : index[f] = Stop => StoppedByHandler(f)
  /\ mainPc \in {"stop", "report", "exit"} => handlerOn # Main

LEMMA LastInvInit == Init => LastInv
<1>1. \A f \in Fibres : StartIdx(SubpathOf[f]) # Stop
  BY FibreAssumption, StartIsEntry, StopAssumption
<1> QED BY <1>1, DistinctAssumption DEF Init, LastInv

\* A load that reads -1 reads it where the handler has broken the subpath of
\* the fibre, which stays broken.
LEMMA StoppedStep ==
  ASSUME IInv, LastInv, [Next]_vars
  PROVE  /\ ~Migrate => subpathIdx' = SubpathOf
         /\ \A f \in Fibres : index'[f] = Stop => StoppedByHandler(f)'
<1> USE DEF IInv, TypeOK
<1>1. ASSUME NEW f \in Fibres, index[f] = Stop
      PROVE  StoppedByHandler(f)'
  <2>1. PICK s \in Subpaths : Broken(mem, s) /\ (Migrate \/ s = SubpathOf[f])
    BY <1>1 DEF LastInv, StoppedByHandler
  <2>2. mainPc # "split" /\ StartIdx(s) \in Entries
    BY <2>1, BrokenByHandler, StartIsEntry
  <2>3. Broken(mem, s)'
    <3>1. CASE BreakSubpath
      <4>1. mem' = [mem EXCEPT ![StartIdx(handlerAt)] = Stop]
        BY <3>1 DEF BreakSubpath, Break
      <4> QED BY <2>1, <2>2, <4>1 DEF Broken, Paths
    <3>2. CASE ~BreakSubpath
      <4>1. mem' = mem
        BY <2>2, <3>2, MemStays DEF Split, MainGoes
      <4> QED BY <2>1, <4>1 DEF Broken
    <3> QED BY <3>1, <3>2
  <2> QED BY <2>1, <2>3 DEF StoppedByHandler
<1>2. ASSUME NEW w \in Workers, NEW f \in Fibres, Load(w, f)
      PROVE  /\ ~Migrate => subpathIdx' = SubpathOf
             /\ \A g \in Fibres : index'[g] = Stop => StoppedByHandler(g)'
  <2>1. ~Migrate => subpathIdx' = SubpathOf
    <3>1. ~Migrate => subpathIdx' = [subpathIdx EXCEPT ![f] = subpathIdx[f]]
      BY <1>2 DEF Load, EndLap
    <3> QED BY <3>1 DEF LastInv
  <2>2. ASSUME NEW g \in Fibres, index'[g] = Stop
        PROVE  StoppedByHandler(g)'
    <3>1. CASE index[g] = Stop
      BY <1>1, <3>1
    <3>2. CASE index[g] # Stop
      <4>1. g = f /\ mem[index[f]] = Stop /\ mem' = mem /\ index[f] # Stop
        BY <1>2, <2>2, <3>2, LoadRegisters
      <4>2. subpathIdx[f] \in Subpaths /\ Broken(mem, subpathIdx[f])
        BY <1>2, <4>1, LoadWhen, LoadTarget
      <4>3. Broken(mem', subpathIdx[f])
        BY <4>1, <4>2 DEF Broken
      <4> QED BY <4>1, <4>2, <4>3 DEF LastInv, StoppedByHandler, Broken
    <3> QED BY <3>1, <3>2
  <2> QED BY <2>1, <2>2
<1>3. ASSUME NEW w \in Workers, NEW f \in Fibres, Leave(w, f)
      PROVE  subpathIdx' = subpathIdx /\ index' = index
  BY <1>3 DEF Leave, loopVars
<1>4. CASE ~\E w \in Workers, f \in Fibres : Load(w, f) \/ Leave(w, f)
  <2>1. subpathIdx' = subpathIdx /\ index' = index
    BY <1>4, LoopStep DEF loopVars
  <2> QED BY <1>1, <2>1 DEF LastInv
<1> QED BY <1>1, <1>2, <1>3, <1>4 DEF LastInv

\* The alarm goes off once: when main() is through with joining it has, and
\* the handler is not on main(), which would not have joined.
LEMMA MainUninterrupted ==
  ASSUME IInv, LastInv, [Next]_vars, mainPc' \in {"stop", "report", "exit"}
  PROVE  handlerOn' # Main
<1> USE DEF IInv, TypeOK, LastInv
<1>1. CASE Join
  BY <1>1 DEF Join, MainGoes, WorkerRuns, alarmVars
<1>2. CASE mainPc \in {"stop", "report", "exit"} /\ ~Join
  <2>1. handlerOn # Main /\ alarm = "fired"
    BY <1>2, AllDone
  <2>2. CASE MainStep
    BY <2>1, <2>2, MainStepElse
  <2>3. CASE Handler \/ UNCHANGED vars
    BY <2>1, <2>3, DistinctAssumption DEF Handler, BreakSubpath, HandlerReturns, vars, alarmVars
  <2>4. ASSUME NEW w \in Workers, Worker(w)
        PROVE  handlerOn' = handlerOn
    BY <2>4, WorkerStep DEF alarmVars
  <2>5. ~AlarmFires
    BY <2>1 DEF AlarmFires
  <2> QED BY <2>1, <2>2, <2>3, <2>4, <2>5 DEF Next, Terminated
<1>3. CASE mainPc \notin {"stop", "report", "exit"} /\ ~Join
  <2>1. CASE MainStep
    BY <1>3, <2>1 DEF MainStep, MainGoes, Split, Create, Gather, Evict, SetupTimeout, PerfStart,
       MainAtBarrier, AssertFails, PerfStop, Report
  <2>2. CASE AlarmFires \/ Handler \/ UNCHANGED vars
    BY <1>3, <2>2 DEF AlarmFires, Handler, BreakSubpath, HandlerReturns, vars, mainVars
  <2>3. ASSUME NEW w \in Workers, Worker(w)
        PROVE  FALSE
    BY <1>3, <2>3, WorkerStep
  <2> QED BY <2>1, <2>2, <2>3 DEF Next, Terminated
<1> QED BY <1>1, <1>2, <1>3

\* main() reports the final counts of fibres that have all ended because the
\* handler broke their subpaths, and is not interrupted any more.
THEOREM FinalReport == Spec => []ReportIsFinal
<1>1. ASSUME IInv, LastInv, mainPc \in {"report", "exit"}
      PROVE  /\ \A f \in Fibres : pc[f] = "done" /\ StoppedByHandler(f)
             /\ \A w \in Workers : running[w] = Nobody
             /\ alarm = "fired" /\ handlerOn # Main
             /\ loopResults = accesscount
             /\ mainPc = "exit" => output = accesscount
  <2>1. \A f \in Fibres : pc[f] = "done" /\ index[f] = Stop
    BY <1>1, AllDone DEF IInv, StopInv
  <2>2. \A w \in Workers : running[w] # Nobody => running[w] \in Fibres
    BY <1>1 DEF IInv, TypeOK
  <2>3. \A w \in Workers : running[w] = Nobody
    BY <1>1, <2>1, <2>2 DEF IInv, RunInv
  <2>4. alarm = "fired" /\ loopResults = accesscount
    BY <1>1, AllDone
  <2> QED BY <1>1, <2>1, <2>3, <2>4 DEF IInv, MainInv, LastInv
<1>2. IInv /\ LastInv => ReportIsFinal
  BY <1>1 DEF ReportIsFinal
<1>3. IInv /\ LastInv /\ [Next]_vars => LastInv'
  BY StoppedStep, MainUninterrupted DEF LastInv
<1> QED BY Invariance, LastInvInit, <1>2, <1>3, PTL DEF Spec

\* What a change of an access count takes.
LEMMA CountsByLoad ==
  ASSUME IInv, [Next]_vars, NEW f \in Fibres, accesscount'[f] # accesscount[f]
  PROVE  \E w \in Workers, g \in Fibres : Load(w, g)
<1>1. \A w \in Workers, g \in Fibres : Leave(w, g) => accesscount' = accesscount
  BY DEF Leave, loopVars
<1> QED BY <1>1, LoopStep DEF loopVars, IInv

\* Nothing is read before every fibre and the main fibre have arrived, the
\* caches are wiped, the alarm is set and the counters run.
THEOREM QuietMeasurement == Spec => QuietSetup
<1>1. ASSUME IInv, [Next]_vars, NEW f \in Fibres, accesscount'[f] # accesscount[f]
      PROVE  /\ counting = MeasuredEvents /\ alarm # "off"
             /\ \A g \in Fibres : pc[g] \in {"looping", "done"}
  <2>1. PICK w \in Workers, g \in Fibres : Load(w, g)
    BY <1>1, CountsByLoad
  <2>2. mainPc \in {"notserial", "join"} /\ \A h \in Fibres : pc[h] \in {"looping", "done"}
    BY <1>1, <2>1, LoadWhen
  <2> QED BY <1>1, <2>2 DEF IInv, CounterInv, AlarmInv
<1>2. IInv /\ [Next]_vars =>
        [\A f \in Fibres : accesscount'[f] # accesscount[f] =>
           /\ counting = MeasuredEvents /\ alarm # "off"
           /\ \A g \in Fibres : pc[g] \in {"looping", "done"}]_vars
  BY <1>1
<1> QED BY Invariance, <1>2, PTL DEF Spec, QuietSetup

-----------------------------------------------------------------------------
(* The fibre variant implements Benchmark.                                  *)

LEMMA PromiseInit == Init => Promise!Init
<1> SUFFICES ASSUME Init PROVE Promise!Init
  OBVIOUS
<1>1. Finished = {} /\ Phase = "setup"
  BY FibreAssumption DEF Init, Finished, Phase, Alive
<1> QED BY <1>1 DEF Init, Promise!Init, Promise!NothingReported

\* The barrier has opened once the main fibre is through it.
LEMMA OpenBarrier ==
  ASSUME IInv, Open
  PROVE  atBarrier = NumFibres + 1
<1>1. Past = Fibres /\ MainIn = 1 /\ mainPc # "failed"
  BY DEF IInv, BarrierInv, Past, MainIn, Open
<1> QED BY <1>1, FibresFinite DEF IInv, BarrierInv

\* Only a Leave adds to the set of fibres that have ended.
LEMMA FinishedByLeave ==
  ASSUME IInv, [Next]_vars, ~\E w \in Workers, f \in Fibres : Leave(w, f)
  PROVE  Finished' = Finished
<1> USE DEF IInv, TypeOK, Finished
<1>1. \A f \in Fibres : pc'[f] = "done" => pc[f] = "done"
  <2>1. \A w \in Workers, f \in Fibres : Load(w, f) => pc' = pc
    BY DEF Load
  <2> QED BY <2>1, LoopStep
<1>2. \A f \in Fibres : pc[f] = "done" => pc'[f] = "done"
  <2>1. CASE Create
    BY <2>1, FibreAssumption DEF Create, MainInv, Fibres, MainGoes
  <2>2. CASE MainStep /\ ~Create
    BY <2>2 DEF MainStep, Split, Gather, Evict, SetupTimeout, PerfStart,
       MainAtBarrier, AssertFails, Join, PerfStop, Report, Freed
  <2>3. CASE AlarmFires \/ Handler \/ UNCHANGED vars
    BY <2>3 DEF AlarmFires, Handler, BreakSubpath, HandlerReturns, vars
  <2>4. ASSUME NEW w \in Workers, Worker(w)
        PROVE  \A f \in Fibres : pc[f] = "done" => pc'[f] = "done"
    BY <2>4, WorkerStep
  <2> QED BY <2>1, <2>2, <2>3, <2>4 DEF Next, Terminated
<1> QED BY <1>1, <1>2

LEMMA PromiseStep ==
  ASSUME IInv, [Next]_vars
  PROVE  [Promise!Next]_(Promise!bvars)
<1> USE DEF Promise!bvars, Promise!Next, MainGoes, Phase, Alive
<1>1. CASE MainAtBarrier
  <2>1. /\ mainPc = "barrier" /\ mainPc' \in {"join", "blocked"}
        /\ atBarrier' = atBarrier + 1 /\ UNCHANGED <<accesscount, output, alarm>>
    BY <1>1 DEF MainAtBarrier, loopVars, alarmVars
  <2>2. Finished' = Finished
    <3>1. ~\E w \in Workers, f \in Fibres : Leave(w, f)
      BY <2>1 DEF Leave, mainVars
    <3> QED BY <3>1, FinishedByLeave
  <2>3. atBarrier # NumFibres + 1
    <3>1. atBarrier = Cardinality(Past) + MainIn /\ MainIn = 0
      BY <2>1 DEF IInv, BarrierInv, MainIn, Open
    <3>2. Past \subseteq Fibres
      BY DEF Past
    <3>3. Cardinality(Past) \in 0 .. NumFibres /\ NumFibres \in Nat
      BY <3>2, AllOfThem, FibreAssumption
    <3> QED BY <3>1, <3>3
  <2>4. CASE atBarrier' = NumFibres + 1
    <3>1. Promise!Begin
      BY <2>1, <2>2, <2>3, <2>4 DEF Promise!Begin
    <3> QED BY <3>1
  <2>5. CASE atBarrier' # NumFibres + 1
    BY <2>1, <2>2, <2>3, <2>5
  <2> QED BY <2>4, <2>5
<1>2. CASE AlarmFires
  <2>1. Finished' = Finished
    BY <1>2 DEF AlarmFires, Finished
  <2>2. Promise!Timeout
    BY <1>2, <2>1 DEF AlarmFires, Promise!Timeout, mainVars, loopVars
  <2> QED BY <2>2
<1>3. CASE Report
  <2>1. Finished = Fibres /\ loopResults = accesscount
    BY <1>3, AllDone DEF Report, Finished
  <2>2. Finished' = Finished /\ UNCHANGED <<accesscount, alarm, atBarrier>>
    BY <1>3 DEF Report, Finished, loopVars, alarmVars
  <2>3. atBarrier = NumFibres + 1
    BY <1>3, OpenBarrier DEF Report, Open
  <2>4. CASE mainPc' = "exit"
    <3>1. output' = loopResults /\ mainPc = "report"
      BY <1>3, <2>4 DEF Report
    <3>2. Promise!Report
      BY <2>1, <2>2, <2>3, <2>4, <3>1 DEF Promise!Report
    <3> QED BY <3>2
  <2>5. CASE mainPc' = "failed"
    <3>1. output' = output /\ mainPc = "report"
      BY <1>3, <2>5 DEF Report
    <3>2. Promise!Fail
      BY <2>2, <2>3, <2>5, <3>1 DEF Promise!Fail
    <3> QED BY <3>2
  <2> QED BY <1>3, <2>4, <2>5 DEF Report
<1>4. CASE Evict \/ PerfStart \/ PerfStop \/ AssertFails
  <2>1. /\ Finished' = Finished /\ UNCHANGED <<accesscount, alarm, atBarrier, output>>
        /\ mainPc \notin {"exit", "failed"} /\ mainPc' # "exit"
    BY <1>4 DEF Evict, PerfStart, PerfStop, AssertFails, Finished, loopVars, alarmVars
  <2>2. CASE mainPc' = "failed"
    <3>1. Promise!Fail
      BY <2>1, <2>2 DEF Promise!Fail
    <3> QED BY <3>1
  <2>3. CASE mainPc' # "failed"
    BY <2>1, <2>3
  <2> QED BY <2>2, <2>3
<1>5. CASE Split \/ Create \/ Gather \/ SetupTimeout \/ Join
  <2>1. /\ UNCHANGED <<accesscount, atBarrier, output>> /\ mainPc \notin {"exit", "failed"}
        /\ mainPc' \notin {"exit", "failed"}
    BY <1>5 DEF Split, Create, Gather, SetupTimeout, Join, AfterJoin, loopVars
  <2>2. (alarm = "fired")' = (alarm = "fired")
    BY <1>5 DEF Split, Create, Gather, SetupTimeout, ArmAlarm, Join, alarmVars, IInv, AlarmInv
  <2>3. Finished' = Finished
    <3>1. ~\E w \in Workers, f \in Fibres : Leave(w, f)
      BY <1>5 DEF Split, Create, Gather, SetupTimeout, Join, Leave, mainVars, Release,
         Goes, Steps, IInv, TypeOK, DistinctAssumption
    <3> QED BY <3>1, FinishedByLeave
  <2> QED BY <2>1, <2>2, <2>3
<1>6. CASE Handler
  BY <1>6 DEF Handler, BreakSubpath, HandlerReturns, mainVars, loopVars, Finished
<1>7. ASSUME NEW w \in Workers, NEW f \in Fibres, Wait(w, f)
      PROVE  [Promise!Next]_(Promise!bvars)
  <2>1. /\ mainPc \notin {"exit", "failed"} /\ mainPc' \notin {"exit", "failed"}
        /\ atBarrier' = atBarrier + 1 /\ UNCHANGED <<accesscount, output, alarm>>
    BY <1>7 DEF Wait, Steps, WorkerRuns, loopVars, alarmVars
  <2>2. Finished' = Finished
    <3>1. ~\E v \in Workers, g \in Fibres : Leave(v, g)
      BY <1>7, <2>1 DEF Leave, Wait, IInv, TypeOK
    <3> QED BY <3>1, FinishedByLeave
  <2>3. atBarrier # NumFibres + 1
    <3>1. ~Open
      BY <1>7 DEF Wait, Steps, IInv, BarrierInv, WorkerRuns
    <3>2. f \in Fibres \ Past /\ Past \subseteq Fibres
      BY <1>7 DEF Wait, Steps, Past
    <3>3. Cardinality(Past) \in 0 .. NumFibres - 1 /\ NumFibres \in Nat
      BY <3>2, OneMore, FibreAssumption
    <3>4. atBarrier = Cardinality(Past) + MainIn /\ MainIn \in {0, 1}
      BY <2>1 DEF IInv, BarrierInv, MainIn
    <3> QED BY <3>3, <3>4
  <2>4. CASE atBarrier' = NumFibres + 1
    <3>1. Promise!Begin
      BY <2>1, <2>2, <2>3, <2>4 DEF Promise!Begin
    <3> QED BY <3>1
  <2>5. CASE atBarrier' # NumFibres + 1
    BY <2>1, <2>2, <2>3, <2>5
  <2> QED BY <2>4, <2>5
<1>8. ASSUME NEW w \in Workers, NEW f \in Fibres, Load(w, f)
      PROVE  [Promise!Next]_(Promise!bvars)
  <2>1. pc[f] = "looping" /\ mainPc \in {"notserial", "join"} /\ atBarrier = NumFibres + 1
    BY <1>8, LoadWhen
  <2>2. /\ accesscount' = [accesscount EXCEPT ![f] = @ + 1]
        /\ UNCHANGED <<mainPc, pc, atBarrier, alarm, output>>
    BY <1>8 DEF Load, mainVars, alarmVars
  <2>3. Promise!Access(f)
    BY <2>1, <2>2 DEF Promise!Access, Finished
  <2> QED BY <2>3
<1>9. ASSUME NEW w \in Workers, NEW f \in Fibres, Leave(w, f)
      PROVE  [Promise!Next]_(Promise!bvars)
  <2>1. pc[f] = "looping" /\ mainPc \in {"notserial", "join"} /\ atBarrier = NumFibres + 1
    BY <1>9, LoadWhen
  <2>2. alarm = "fired" /\ accesscount[f] > 0
    BY <1>9 DEF Leave, IInv, StopInv
  <2>3. /\ pc' = [pc EXCEPT ![f] = "done"]
        /\ UNCHANGED <<mainPc, atBarrier, alarm, output, accesscount>>
    BY <1>9 DEF Leave, Goes, mainVars, alarmVars, loopVars
  <2>4. f \notin Finished /\ Finished' = Finished \cup {f}
    BY <2>1, <2>3 DEF Finished, IInv, TypeOK
  <2>5. Promise!Finish(f)
    BY <2>1, <2>2, <2>3, <2>4 DEF Promise!Finish
  <2> QED BY <2>5
<1>10. ASSUME NEW w \in Workers,
              Dispatch(w) \/ \E f \in Fibres : LockLog(w, f) \/ UnlockLog(w, f) \/ Arrive(w, f)
       PROVE  UNCHANGED Promise!bvars
  <2>1. UNCHANGED <<mainPc, atBarrier, alarm, output, accesscount>>
    BY <1>10 DEF Dispatch, LockLog, UnlockLog, Arrive, mainVars, alarmVars, loopVars
  <2>2. \A g \in Fibres : pc'[g] = "done" <=> pc[g] = "done"
    BY <1>10 DEF Dispatch, LockLog, UnlockLog, Arrive, Goes, Steps, IInv, TypeOK
  <2>3. Finished' = Finished
    BY <2>2 DEF Finished
  <2> QED BY <2>1, <2>3
<1>11. CASE UNCHANGED vars
  BY <1>11 DEF vars, mainVars, loopVars, alarmVars, Finished
<1> QED BY <1>1, <1>2, <1>3, <1>4, <1>5, <1>6, <1>7, <1>8, <1>9, <1>10, <1>11
     DEF Next, MainStep, Worker, Terminated

\* fibreTest() keeps the promises that threadTest() keeps, though another
\* actor may open its barrier: accesses only while the measurement is on, no
\* fibre that gives up before the timeout or without an access, one report.
THEOREM Refinement == Spec => KeepsPromise
<1>1. IInv /\ [Next]_vars => [Promise!Next]_(Promise!bvars)
  BY PromiseStep
<1> QED BY Invariance, PromiseInit, <1>1, PTL DEF Spec, KeepsPromise, Promise!Spec

-----------------------------------------------------------------------------
(* Where on its cycle a fibre is by its access count.                       *)

\* The entries before a subpath add up subpath by subpath.
LEMMA SumOfLengths ==
  ASSUME NEW n \in 0 .. NumSubpaths
  PROVE  \E sum : sum = [s \in 0 .. n |-> IF s = 0 THEN 0 ELSE sum[s - 1] + Length[s - 1]]
<1> DEFINE IsSum(sum, k) ==
             sum = [s \in 0 .. k |-> IF s = 0 THEN 0 ELSE sum[s - 1] + Length[s - 1]]
           Summed == {k \in 0 .. NumSubpaths : \E sum : IsSum(sum, k)}
<1>1. NumSubpaths \in Nat /\ 0 \in 0 .. NumSubpaths
  BY SubpathAssumption
<1>2. 0 \in Summed
  <2> DEFINE zero == [s \in 0 .. 0 |-> 0]
  <2>1. IsSum(zero, 0)
    OBVIOUS
  <2> HIDE DEF zero, IsSum
  <2> QED BY <1>1, <2>1
<1>3. ASSUME NEW k \in 0 .. NumSubpaths - 1, k \in Summed
      PROVE  k + 1 \in Summed
  <2>1. PICK sum : IsSum(sum, k)
    BY <1>3
  <2> DEFINE more == [s \in 0 .. k + 1 |-> IF s = k + 1 THEN sum[k] + Length[k] ELSE sum[s]]
  <2>2. more = [s \in 0 .. k + 1 |-> IF s = 0 THEN 0 ELSE more[s - 1] + Length[s - 1]]
    <3>1. ASSUME NEW s \in 0 .. k + 1
          PROVE  more[s] = IF s = 0 THEN 0 ELSE more[s - 1] + Length[s - 1]
      <4>1. CASE s = k + 1
        BY <1>1, <4>1
      <4>2. CASE s # k + 1
        <5>1. s \in 0 .. k /\ more[s] = sum[s] /\ (s # 0 => s - 1 \in 0 .. k /\ more[s - 1] = sum[s - 1])
          BY <1>1, <4>2
        <5>2. sum[s] = IF s = 0 THEN 0 ELSE sum[s - 1] + Length[s - 1]
          BY <2>1, <5>1
        <5> QED BY <5>1, <5>2
      <4> QED BY <4>1, <4>2
    <3> QED BY <3>1
  <2>3. IsSum(more, k + 1)
    BY <2>2
  <2> HIDE DEF more, IsSum
  <2> QED BY <1>1, <2>3
<1> HIDE DEF Summed
<1>4. 0 .. NumSubpaths \subseteq Summed
  BY <1>1, <1>2, <1>3, Upwards
<1> QED BY <1>4 DEF Summed

LEMMA BeforeStep ==
  /\ Before[0] = 0
  /\ \A s \in Subpaths : Before[s + 1] = Before[s] + Length[s]
<1>1. NumSubpaths \in Nat \ {0} /\ NumSubpaths \in 0 .. NumSubpaths
  BY SubpathAssumption
<1>2. \E sum : sum = [s \in 0 .. NumSubpaths |->
                        IF s = 0 THEN 0 ELSE sum[s - 1] + Length[s - 1]]
  BY <1>1, SumOfLengths
<1>3. Before = [s \in 0 .. NumSubpaths |->
                  IF s = 0 THEN 0 ELSE Before[s - 1] + Length[s - 1]]
  BY <1>2, Zenon DEF Before
<1>4. ASSUME NEW s \in Subpaths
      PROVE  Before[s + 1] = Before[s] + Length[s]
  <2>1. s + 1 \in 0 .. NumSubpaths /\ s + 1 # 0 /\ (s + 1) - 1 = s
    BY <1>1 DEF Subpaths
  <2> DEFINE t == s + 1
  <2>2. t \in 0 .. NumSubpaths /\ t # 0 /\ t - 1 = s
    BY <2>1
  <2> HIDE DEF t
  <2>3. Before[t] = Before[t - 1] + Length[t - 1]
    BY <1>3, <2>2
  <2>4. Before[t] = Before[s] + Length[s]
    BY <2>2, <2>3
  <2> QED BY <2>4 DEF t
<1>5. Before[0] = 0
  BY <1>1, <1>3
<1> QED BY <1>4, <1>5

LEMMA BeforeGrows ==
  /\ \A s \in 0 .. NumSubpaths : Before[s] \in Nat
  /\ \A s \in Subpaths : Before[s] + Length[s] <= Before[NumSubpaths]
<1>1. NumSubpaths \in Nat \ {0} /\ \A s \in Subpaths : Length[s] \in Nat \ {0}
  BY SubpathAssumption
<1>2. \A s \in 0 .. NumSubpaths : Before[s] \in Nat
  <2> DEFINE Naturals == {s \in 0 .. NumSubpaths : Before[s] \in Nat}
  <2>1. 0 \in Naturals
    BY <1>1, BeforeStep
  <2>2. ASSUME NEW s \in 0 .. NumSubpaths - 1, s \in Naturals
        PROVE  s + 1 \in Naturals
    <3>1. s \in Subpaths /\ s + 1 \in 0 .. NumSubpaths
      BY <1>1 DEF Subpaths
    <3> QED BY <1>1, <2>2, <3>1, BeforeStep
  <2> HIDE DEF Naturals
  <2>3. 0 .. NumSubpaths \subseteq Naturals
    BY <1>1, <2>1, <2>2, Upwards
  <2> QED BY <2>3 DEF Naturals
<1>3. ASSUME NEW s \in Subpaths
      PROVE  Before[s] + Length[s] <= Before[NumSubpaths]
  <2> DEFINE D == NumSubpaths - (s + 1)
             Above == {d \in 0 .. D : Before[s + 1] <= Before[s + 1 + d]}
  <2>1. D \in Nat /\ s \in Nat
    BY <1>1 DEF Subpaths
  <2>2. 0 \in Above
    <3>1. s + 1 \in 0 .. NumSubpaths /\ s + 1 + 0 = s + 1
      BY <1>1 DEF Subpaths
    <3> QED BY <1>2, <2>1, <3>1
  <2>3. ASSUME NEW d \in 0 .. D - 1, d \in Above
        PROVE  d + 1 \in Above
    <3>1. /\ s + 1 + d \in Subpaths /\ s + 1 + d + 1 = s + 1 + (d + 1)
          /\ {s + 1, s + 1 + d, s + 1 + d + 1} \subseteq 0 .. NumSubpaths
          /\ d + 1 \in 0 .. D
      BY <1>1, <2>1 DEF Subpaths
    <3>2. Before[s + 1 + d + 1] = Before[s + 1 + d] + Length[s + 1 + d]
      BY <3>1, BeforeStep
    <3>3. Before[s + 1] <= Before[s + 1 + d]
      BY <2>3
    <3>4. Before[s + 1] <= Before[s + 1 + d + 1]
      BY <1>1, <1>2, <3>1, <3>2, <3>3
    <3> QED BY <3>1, <3>4
  <2>4. D \in Above
    <3> HIDE DEF D, Above
    <3>1. 0 .. D \subseteq Above
      BY <2>1, <2>2, <2>3, Upwards
    <3> QED BY <2>1, <3>1
  <2>5. s + 1 + D = NumSubpaths
    BY <1>1, <2>1
  <2> QED BY <2>4, <2>5, BeforeStep
<1> QED BY <1>2, <1>3

\* The loads of a fibre are whole laps of its cycle and the steps since.
LapsInv ==
  \A f \in Fibres :
    index[f] # Stop =>
      IF Migrate
      THEN \E n \in Nat : Before[SubpathOf[f]] + accesscount[f]
                            = Before[NumSubpaths] * n + (Before[subpathIdx[f]] + curStep[f])
      ELSE /\ subpathIdx[f] = SubpathOf[f]
           /\ \E n \in Nat : accesscount[f] = Length[SubpathOf[f]] * n + curStep[f]

LEMMA LapsInvInit == Init => LapsInv
<1> SUFFICES ASSUME Init, NEW f \in Fibres
             PROVE  /\ subpathIdx[f] = SubpathOf[f] /\ accesscount[f] = 0 /\ curStep[f] = 0
                    /\ Before[SubpathOf[f]] + 0 = Before[NumSubpaths] * 0 + (Before[SubpathOf[f]] + 0)
                    /\ 0 = Length[SubpathOf[f]] * 0 + 0
  BY DEF LapsInv
<1>1. SubpathOf[f] \in Subpaths
  BY FibreAssumption
<1>2. /\ Before[SubpathOf[f]] \in Nat /\ Before[NumSubpaths] \in Nat
      /\ Length[SubpathOf[f]] \in Nat
  BY <1>1, BeforeGrows, SubpathAssumption DEF Subpaths
<1> QED BY <1>2 DEF Init

\* A load takes the fibre one step on, or from the end of its cycle to the
\* beginning of the next lap.
LEMMA LapsInvLoad ==
  ASSUME IInv, LapsInv, NEW w \in Workers, NEW f \in Fibres, Load(w, f), index'[f] # Stop
  PROVE  IF Migrate
         THEN \E n \in Nat : Before[SubpathOf[f]] + accesscount'[f]
                               = Before[NumSubpaths] * n + (Before[subpathIdx'[f]] + curStep'[f])
         ELSE /\ subpathIdx'[f] = SubpathOf[f]
              /\ \E n \in Nat : accesscount'[f] = Length[SubpathOf[f]] * n + curStep'[f]
<1> DEFINE s == subpathIdx[f]
           k == curStep[f]
           a == accesscount[f]
           L == Length[s]
<1>1. /\ s \in Subpaths /\ SubpathOf[f] \in Subpaths /\ a \in Nat /\ L \in Nat \ {0}
      /\ NumSubpaths \in Nat \ {0}
  BY FibreAssumption, SubpathAssumption DEF IInv, TypeOK
<1>2. /\ k \in 0 .. L - 1 /\ index[f] # Stop
      /\ subpathIdx'[f] = IF Migrate /\ LapEnds(f) THEN SubpathAfter(s) ELSE s
      /\ curStep'[f] = IF k + 1 = L THEN 0 ELSE k + 1
  BY LoadRegisters
<1>3. accesscount'[f] = a + 1
  BY DEF Load, IInv, TypeOK
<1>4. LapEnds(f) <=> k + 1 = L
  BY <1>1, <1>2 DEF LapEnds
<1>5. CASE Migrate
  <2> DEFINE B == Before[NumSubpaths]
             p == Before[SubpathOf[f]]
             q == Before[s]
  <2>1. PICK n \in Nat : p + a = B * n + (q + k)
    BY <1>2, <1>5 DEF LapsInv
  <2>2. B \in Nat /\ p \in Nat /\ q \in Nat /\ B * n \in Nat
    <3>1. B \in Nat /\ p \in Nat /\ q \in Nat
      BY <1>1, BeforeGrows DEF Subpaths
    <3> HIDE DEF B
    <3> QED BY <3>1
  <2> HIDE DEF B, p, q, s, k, a, L
  <2>3. p + (a + 1) = B * n + (q + (k + 1))
    BY <1>1, <1>2, <2>1, <2>2
  <2>4. CASE k + 1 # L
    <3>1. subpathIdx'[f] = s /\ curStep'[f] = k + 1
      BY <1>2, <1>4, <2>4
    <3> QED BY <1>3, <1>5, <2>3, <3>1 DEF p, q, B
  <2>5. CASE k + 1 = L
    <3>1. subpathIdx'[f] = SubpathAfter(s) /\ curStep'[f] = 0
      BY <1>2, <1>4, <1>5, <2>5
    <3>2. Before[s + 1] = q + L /\ Before[0] = 0
      BY <1>1, BeforeStep DEF q, L
    <3>3. p + (a + 1) = B * n + Before[s + 1]
      BY <2>3, <2>5, <3>2
    <3>4. CASE s + 1 >= NumSubpaths
      <4>1. s + 1 = NumSubpaths /\ SubpathAfter(s) = 0
        BY <1>1, <3>4 DEF Subpaths, SubpathAfter
      <4>2. p + (a + 1) = B * (n + 1) + (Before[0] + 0) /\ n + 1 \in Nat
        <5>1. p + (a + 1) = B * n + B
          BY <3>3, <4>1 DEF B
        <5>2. B * (n + 1) = B * n + B
          BY <2>2
        <5> QED BY <2>2, <3>2, <5>1, <5>2
      <4> QED BY <1>3, <1>5, <3>1, <4>1, <4>2 DEF p, B
    <3>5. CASE ~(s + 1 >= NumSubpaths)
      <4>1. SubpathAfter(s) = s + 1
        BY <3>5 DEF SubpathAfter
      <4>2. p + (a + 1) = B * n + (Before[s + 1] + 0)
        <5>1. Before[s + 1] \in Nat
          BY <1>1, <2>2, <3>2
        <5> QED BY <3>3, <5>1
      <4> QED BY <1>3, <1>5, <3>1, <4>1, <4>2 DEF p, B
    <3> QED BY <3>4, <3>5
  <2> QED BY <2>4, <2>5
<1>6. CASE ~Migrate
  <2>1. s = SubpathOf[f] /\ subpathIdx'[f] = s
    BY <1>2, <1>6 DEF LapsInv
  <2>2. PICK n \in Nat : a = L * n + k
    BY <1>2, <1>6, <2>1 DEF LapsInv
  <2> HIDE DEF s, k, a, L
  <2>3. L * n \in Nat /\ L * (n + 1) = L * n + L
    BY <1>1
  <2>4. \E m \in Nat : a + 1 = L * m + curStep'[f]
    <3>1. CASE k + 1 = L
      <4>1. a + 1 = L * (n + 1) + 0 /\ curStep'[f] = 0
        BY <1>1, <1>2, <2>2, <2>3, <3>1
      <4> QED BY <4>1
    <3>2. CASE k + 1 # L
      <4>1. a + 1 = L * n + (k + 1) /\ curStep'[f] = k + 1
        BY <1>1, <1>2, <2>2, <2>3, <3>2
      <4> QED BY <4>1
    <3> QED BY <3>1, <3>2
  <2> QED BY <1>3, <1>6, <2>1, <2>4 DEF L
<1> QED BY <1>5, <1>6

LEMMA LapsInvStep ==
  ASSUME IInv, LapsInv, [Next]_vars
  PROVE  LapsInv'
<1>1. ASSUME NEW w \in Workers, NEW f \in Fibres, Load(w, f)
      PROVE  LapsInv'
  <2> SUFFICES ASSUME NEW g \in Fibres, index'[g] # Stop
               PROVE  IF Migrate
                      THEN \E n \in Nat :
                             Before[SubpathOf[g]] + accesscount'[g]
                               = Before[NumSubpaths] * n + (Before[subpathIdx'[g]] + curStep'[g])
                      ELSE /\ subpathIdx'[g] = SubpathOf[g]
                           /\ \E n \in Nat :
                                accesscount'[g] = Length[SubpathOf[g]] * n + curStep'[g]
    BY DEF LapsInv
  <2>1. CASE g = f
    BY <1>1, <2>1, LapsInvLoad
  <2>2. CASE g # f
    <3>1. /\ index'[g] = index[g] /\ subpathIdx'[g] = subpathIdx[g]
          /\ curStep'[g] = curStep[g] /\ accesscount'[g] = accesscount[g]
      BY <1>1, <2>2, LoadRegisters DEF Load, IInv, TypeOK
    <3> QED BY <3>1 DEF LapsInv
  <2> QED BY <2>1, <2>2
<1>2. ASSUME NEW w \in Workers, NEW f \in Fibres, Leave(w, f)
      PROVE  LapsInv'
  BY <1>2 DEF Leave, loopVars, LapsInv
<1>3. CASE ~\E w \in Workers, f \in Fibres : Load(w, f) \/ Leave(w, f)
  <2>1. UNCHANGED loopVars
    BY <1>3, LoopStep DEF IInv
  <2> QED BY <2>1 DEF loopVars, LapsInv
<1> QED BY <1>1, <1>2, <1>3

\* The count that is reported is the number of steps along the path: modulo
\* the length of its cycle it is where the fibre is, with and without migration.
THEOREM Position == Spec => []CountGivesPosition
<1>1. ASSUME IInv, LapsInv
      PROVE  CountGivesPosition
  <2> SUFFICES ASSUME NEW f \in Fibres, index[f] # Stop
               PROVE  IF Migrate
                      THEN (Before[SubpathOf[f]] + accesscount[f]) % Before[NumSubpaths]
                             = Before[index[f][1]] + index[f][2]
                      ELSE accesscount[f] % Length[SubpathOf[f]] = index[f][2]
    BY DEF CountGivesPosition
  <2> DEFINE s == subpathIdx[f]
             k == curStep[f]
  <2>1. index[f] \in Entries /\ index[f] = <<s, k>>
    BY <1>1 DEF IInv, TypeOK, PositionInv
  <2>2. s \in Subpaths /\ Length[s] \in Nat \ {0} /\ k \in 0 .. Length[s] - 1
    BY <1>1, <2>1, EntryForm, SubpathAssumption DEF IInv, TypeOK
  <2>3. CASE Migrate
    <3> DEFINE B == Before[NumSubpaths]
               r == Before[s] + k
               total == Before[SubpathOf[f]] + accesscount[f]
    <3>1. PICK n \in Nat : total = B * n + r
      BY <1>1, <2>3 DEF LapsInv
    <3>2. B \in Nat \ {0} /\ r \in 0 .. B - 1
      <4>1. /\ Before[s] \in Nat /\ B \in Nat /\ Before[s] + Length[s] <= B
            /\ NumSubpaths \in Nat
        BY <2>2, BeforeGrows, SubpathAssumption DEF Subpaths
      <4> HIDE DEF s, k, B
      <4> QED BY <2>2, <4>1
    <3> HIDE DEF B, r, total
    <3>3. (B * n + r) % B = r
      BY <3>2, Remainder
    <3>4. total % B = r
      BY <3>1, <3>3
    <3>5. r = Before[index[f][1]] + index[f][2]
      BY <2>1 DEF r
    <3> QED BY <2>3, <3>4, <3>5 DEF B, total
  <2>4. CASE ~Migrate
    <3> DEFINE L == Length[SubpathOf[f]]
    <3>1. s = SubpathOf[f]
      BY <1>1, <2>4 DEF LapsInv
    <3>2. PICK n \in Nat : accesscount[f] = L * n + k
      BY <1>1, <2>4 DEF LapsInv
    <3>3. L \in Nat \ {0} /\ k \in 0 .. L - 1
      BY <2>2, <3>1
    <3> HIDE DEF L, s, k
    <3>4. (L * n + k) % L = k
      BY <3>3, Remainder
    <3>5. accesscount[f] % L = k /\ index[f][2] = k
      BY <2>1, <3>2, <3>4
    <3> QED BY <2>4, <3>5 DEF L
  <2> QED BY <2>3, <2>4
<1>2. Init => LapsInv
  BY LapsInvInit
<1>3. IInv /\ LapsInv /\ [Next]_vars => LapsInv'
  BY LapsInvStep
<1> QED BY Invariance, <1>1, <1>2, <1>3, PTL DEF Spec

-----------------------------------------------------------------------------
\* Fewer CPUs and another policy only take steps away: whatever holds in
\* every run of the fibres holds of the benchmark however it is started.
THEOREM HoweverStarted == ScheduledSpec => Spec /\ KeepsPromise /\ []ReportIsFinal
<1>1. ScheduledInit => Init
  BY DEF ScheduledInit
<1>2. [ScheduledNext]_scheduledVars => [Next]_vars
  <2>1. CASE MainRuns \/ SignalSent \/ HandlerRuns \/ Terminated
    BY <2>1 DEF MainRuns, SignalSent, HandlerRuns, Next
  <2>2. CASE Spin \/ UNCHANGED scheduledVars
    BY <2>2 DEF Spin, scheduledVars
  <2>3. ASSUME NEW w \in Workers, ThreadRuns(w)
        PROVE  Next
    BY <2>3 DEF ThreadRuns, Next
  <2> QED BY <2>1, <2>2, <2>3 DEF ScheduledNext
<1>3. ScheduledSpec => Spec
  BY <1>1, <1>2, PTL DEF ScheduledSpec, Spec
<1> QED BY <1>3, Refinement, FinalReport, PTL
=============================================================================
