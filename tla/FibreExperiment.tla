-------------------------- MODULE FibreExperiment ---------------------------
(***************************************************************************)
(* The fibre variant of the experiment, fibreTest() of cachetest.cc: one   *)
(* cluster of worker threads per subpath, fibres that run loop() or        *)
(* migratingLoop() on them, a mutex for the log and a barrier that lets    *)
(* the fibres loose.                                                       *)
(*                                                                         *)
(* libfibre is not part of the source: its scheduler, mutex, barrier,      *)
(* join and migration are modelled from the way cachetest.cc uses them.  A *)
(* worker runs a fibre until the fibre blocks, migrates, yields or ends;   *)
(* there is no preemption between fibres.                                  *)
(***************************************************************************)
EXTENDS ChasingPath

CONSTANTS
  Workers,          \* the worker threads added to the clusters
  ClusterOf,        \* the cluster, numbered like its subpath, of each worker
  NumFibres,        \* numTotalFibres, the sum of subpathFibreCounts
  SubpathOf,        \* the subpath each fibre starts on, in creation order
  Migrate,          \* option -M: fibres run migratingLoop()
  Yield,            \* built with a FIBRE_YIELD option: loop() yields each lap
  MeasuredEvents,   \* Measured_events != NULL (option -e given)
  MaxLoads,         \* bound: loads a fibre makes before the path is broken
  Main,             \* the main fibre, and the worker that runs it
  Nobody            \* no fibre

Fibres == 0 .. NumFibres - 1

\* A cluster without workers would never run its fibres.
ASSUME FibreAssumption ==
  /\ NumFibres \in Nat \ {0}
  /\ SubpathOf \in [Fibres -> Subpaths]
  /\ \A f, g \in Fibres : f <= g => SubpathOf[f] <= SubpathOf[g]
  /\ ClusterOf \in [Workers -> Subpaths]
  /\ \A s \in Subpaths : (Migrate \/ \E f \in Fibres : SubpathOf[f] = s)
                           => \E w \in Workers : ClusterOf[w] = s
ASSUME OptionAssumption ==
  /\ Migrate \in BOOLEAN /\ Yield \in BOOLEAN /\ MeasuredEvents \in BOOLEAN
  /\ MaxLoads \in Nat
ASSUME DistinctAssumption ==
  /\ Main \notin Workers
  /\ Nobody \notin Fibres \cup Workers \cup {Main}

VARIABLES
  mem,              \* the buffer: the index stored at each entry of the path
  mainPc,           \* what the main fibre does next
  created,          \* fibres created so far
  joined,           \* fibres joined so far
  pc,               \* what each fibre does next
  running,          \* the fibre each worker runs, or Nobody
  loggingMutex,     \* holder of loggingMutex
  numAtBarrior,     \* the atomic counter of arrived fibres
  atBarrier,        \* participants that wait at testBarrier
  index,            \* the register index of the loops
  accesscount,      \* the register accesscount of the loops
  subpathIdx,       \* migratingLoop()'s register, the cluster of the fibre
  curStep,          \* the register curStep of the loops
  loopResults,      \* the accesscount each fibre has returned
  alarm,            \* "off", "armed" by alarm(), or "fired"
  handlerOn,        \* the worker whose execution alarm_handler() interrupts
  handlerAt,        \* the subpath the handler breaks next
  counting,         \* the performance counters are enabled
  counted,          \* loads of each fibre made while they were enabled
  overrun,          \* history: loads made after all subpaths were broken
  output            \* access counts written to the output

mainVars == <<mainPc, created, joined>>
loopVars == <<index, accesscount, subpathIdx, curStep, counted, overrun>>
alarmVars == <<alarm, handlerOn, handlerAt>>
vars == <<mem, mainVars, pc, running, loggingMutex, numAtBarrior, atBarrier,
          loopVars, loopResults, alarmVars, counting, output>>

-----------------------------------------------------------------------------
\* A failed assertion, exit() and the return of main() end every thread.
Alive == mainPc \notin {"exit", "failed"}
WorkerRuns(w) == Alive /\ handlerOn # w

MainGoes(from, to) == WorkerRuns(Main) /\ mainPc = from /\ mainPc' = to

\* The fibre f that worker w runs takes its next step.
Steps(w, f, from) == WorkerRuns(w) /\ running[w] = f /\ pc[f] = from
Goes(w, f, from, to) ==
  Steps(w, f, from) /\ pc' = [pc EXCEPT ![f] = to]

Release(w) == running' = [running EXCEPT ![w] = Nobody]

\* Fibres that their cluster may run: not blocked and not running already.
Ready(f) ==
  /\ pc[f] \notin {"unborn", "locking", "waiting", "done"}
  /\ \A w \in Workers : running[w] # f

Init ==
  /\ mem = LinkedPath
  /\ mainPc = "split" /\ created = 0 /\ joined = 0
  /\ pc = [f \in Fibres |-> "unborn"]
  /\ running = [w \in Workers |-> Nobody]
  /\ loggingMutex = Nobody
  /\ numAtBarrior = 0 /\ atBarrier = 0
  /\ index = [f \in Fibres |-> StartIdx(SubpathOf[f])]
  /\ accesscount = [f \in Fibres |-> 0]
  /\ subpathIdx = SubpathOf
  /\ curStep = [f \in Fibres |-> 0]
  /\ loopResults = [f \in Fibres |-> 0]
  /\ alarm = "off" /\ handlerOn = Nobody /\ handlerAt = 0
  /\ counting = FALSE
  /\ counted = [f \in Fibres |-> 0]
  /\ overrun = [f \in Fibres |-> 0]
  /\ output = [f \in Fibres |-> 0]

-----------------------------------------------------------------------------
(* The main fibre.                                                         *)

\* With migration the path stays one cycle through all subpaths.
\* Mutant: the path is split all the same.
PathAlwaysSplit == SplitPath(mem)
PathForTest == IF Migrate THEN mem ELSE SplitPath(mem)

\* Splits the path, then creates the clusters and their workers.
Split ==
  /\ MainGoes("split", "create")
  /\ mem' = PathForTest
  /\ UNCHANGED <<created, joined, pc, running, loggingMutex, numAtBarrior,
                 atBarrier, loopVars, loopResults, alarmVars, counting,
                 output>>

Create ==
  /\ MainGoes("create", IF created + 1 = NumFibres THEN "gather" ELSE "create")
  /\ created' = created + 1
  /\ pc' = [pc EXCEPT ![created] = "starting"]
  /\ UNCHANGED <<mem, joined, running, loggingMutex, numAtBarrior, atBarrier,
                 loopVars, loopResults, alarmVars, counting, output>>

\* while (numAtBarrior.load() != numTotalFibres);
Gather ==
  /\ MainGoes("gather", "evict")
  /\ numAtBarrior = NumFibres
  /\ UNCHANGED <<mem, created, joined, pc, running, loggingMutex,
                 numAtBarrior, atBarrier, loopVars, loopResults, alarmVars,
                 counting, output>>

\* evictCacheEntries() exits the process when the huge page is refused.
Evict ==
  /\ \/ MainGoes("evict", "timeout")
     \/ MainGoes("evict", "failed")
  /\ UNCHANGED <<mem, created, joined, pc, running, loggingMutex,
                 numAtBarrior, atBarrier, loopVars, loopResults, alarmVars,
                 counting, output>>

\* Mutant: NDEBUG drops the assert() that holds the call of alarm().
ArmNothing == UNCHANGED alarm
ArmAlarm == alarm' = "armed"

SetupTimeout ==
  /\ MainGoes("timeout", "perf")
  /\ ArmAlarm
  /\ UNCHANGED <<mem, created, joined, pc, running, loggingMutex,
                 numAtBarrior, atBarrier, loopVars, loopResults, handlerOn,
                 handlerAt, counting, output>>

PerfStart ==
  /\ \/ MainGoes("perf", "barrier") /\ counting' = MeasuredEvents
     \/ MainGoes("perf", "failed") /\ MeasuredEvents /\ UNCHANGED counting
  /\ UNCHANGED <<mem, created, joined, pc, running, loggingMutex,
                 numAtBarrior, atBarrier, loopVars, loopResults, alarmVars,
                 output>>

\* testBarrier counts all fibres and the main fibre; the last to arrive
\* opens it and is the one told PTHREAD_BARRIER_SERIAL_THREAD.
\* Mutant: the main fibre is not counted.
LastButMain == atBarrier + 1 >= NumFibres
LastAtBarrier == atBarrier + 1 = NumFibres + 1
Freed(p) == [f \in Fibres |-> IF p[f] = "waiting" THEN "looping" ELSE p[f]]

\* assert(PTHREAD_BARRIER_SERIAL_THREAD == fibre_barrier_wait(&testBarrier)).
MainAtBarrier ==
  /\ IF LastAtBarrier
     THEN MainGoes("barrier", "join") /\ pc' = Freed(pc)
     ELSE MainGoes("barrier", "blocked") /\ UNCHANGED pc
  /\ atBarrier' = atBarrier + 1
  /\ UNCHANGED <<mem, created, joined, running, loggingMutex, numAtBarrior,
                 loopVars, loopResults, alarmVars, counting, output>>

\* The main fibre was let through by another one: the assertion fails.
AssertFails ==
  /\ MainGoes("notserial", "failed")
  /\ UNCHANGED <<mem, created, joined, pc, running, loggingMutex,
                 numAtBarrior, atBarrier, loopVars, loopResults, alarmVars,
                 counting, output>>

\* fibre_join(), in the order of creation.  Mutant: only the first is joined.
AfterFirstJoin == "stop"
AfterJoin == IF joined + 1 = NumFibres THEN "stop" ELSE "join"

Join ==
  /\ MainGoes("join", AfterJoin)
  /\ pc[joined] = "done"
  /\ joined' = joined + 1
  /\ UNCHANGED <<mem, created, pc, running, loggingMutex, numAtBarrior,
                 atBarrier, loopVars, loopResults, alarmVars, counting,
                 output>>

PerfStop ==
  /\ \/ MainGoes("stop", "report") /\ counting' = FALSE
     \/ MainGoes("stop", "failed") /\ MeasuredEvents /\ UNCHANGED counting
  /\ UNCHANGED <<mem, created, joined, pc, running, loggingMutex,
                 numAtBarrior, atBarrier, loopVars, loopResults, alarmVars,
                 output>>

\* Reads the counters, which may fail, and writes the results.
Report ==
  /\ \/ MainGoes("report", "exit") /\ output' = loopResults
     \/ MainGoes("report", "failed") /\ MeasuredEvents /\ UNCHANGED output
  /\ UNCHANGED <<mem, created, joined, pc, running, loggingMutex,
                 numAtBarrior, atBarrier, loopVars, loopResults, alarmVars,
                 counting>>

-----------------------------------------------------------------------------
(* The workers, and the fibres they run: fibreCallback() and the loops.    *)

\* An idle worker picks a ready fibre of its cluster.
Dispatch(w) ==
  /\ WorkerRuns(w) /\ running[w] = Nobody
  /\ \E f \in Fibres :
       /\ Ready(f) /\ subpathIdx[f] = ClusterOf[w]
       /\ running' = [running EXCEPT ![w] = f]
  /\ UNCHANGED <<mem, mainVars, pc, loggingMutex, numAtBarrior, atBarrier,
                 loopVars, loopResults, alarmVars, counting, output>>

\* fibre_mutex_lock(): a held mutex blocks the fibre, not the worker.
LockLog(w, f) ==
  /\ \/ /\ Goes(w, f, "starting", "logging")
        /\ loggingMutex = Nobody
        /\ loggingMutex' = f
        /\ UNCHANGED running
     \/ /\ Goes(w, f, "starting", "locking")
        /\ loggingMutex # Nobody
        /\ Release(w)
        /\ UNCHANGED loggingMutex
  /\ UNCHANGED <<mem, mainVars, numAtBarrior, atBarrier, loopVars,
                 loopResults, alarmVars, counting, output>>

\* fibre_mutex_unlock() hands the mutex to a fibre that waits for it.
UnlockLog(w, f) ==
  /\ Steps(w, f, "logging")
  /\ \/ /\ \A g \in Fibres : pc[g] # "locking"
        /\ loggingMutex' = Nobody
        /\ pc' = [pc EXCEPT ![f] = "counting"]
     \/ \E g \in Fibres :
          /\ pc[g] = "locking"
          /\ loggingMutex' = g
          /\ pc' = [pc EXCEPT ![f] = "counting", ![g] = "logging"]
  /\ UNCHANGED <<mem, mainVars, running, numAtBarrior, atBarrier, loopVars,
                 loopResults, alarmVars, counting, output>>

\* numAtBarrior.fetch_add(1)
Arrive(w, f) ==
  /\ Goes(w, f, "counting", "arriving")
  /\ numAtBarrior' = numAtBarrior + 1
  /\ UNCHANGED <<mem, mainVars, running, loggingMutex, atBarrier, loopVars,
                 loopResults, alarmVars, counting, output>>

\* fibre_barrier_wait(): the fibre blocks, or arrives last and lets everyone
\* through, the main fibre included.
Wait(w, f) ==
  /\ Steps(w, f, "arriving")
  /\ IF LastAtBarrier
     THEN /\ pc' = [Freed(pc) EXCEPT ![f] = "looping"]
          /\ mainPc' = IF mainPc = "blocked" THEN "notserial" ELSE mainPc
          /\ UNCHANGED running
     ELSE /\ pc' = [pc EXCEPT ![f] = "waiting"]
          /\ Release(w)
          /\ UNCHANGED mainPc
  /\ atBarrier' = atBarrier + 1
  /\ UNCHANGED <<mem, created, joined, loggingMutex, numAtBarrior, loopVars,
                 loopResults, alarmVars, counting, output>>

AllBroken == \A s \in Subpaths : Broken(mem, s)

\* Mutants: a lap is counted one step late; the last subpath is followed by
\* an index past the end.
LapEndsLate(f) == curStep[f] >= Length[subpathIdx[f]]
LapEnds(f) == curStep[f] + 1 >= Length[subpathIdx[f]]
SubpathAfterEnd(s) == IF s + 1 > NumSubpaths THEN 0 ELSE s + 1
SubpathAfter(s) == IF s + 1 >= NumSubpaths THEN 0 ELSE s + 1

\* The end of a lap: migratingLoop() moves the fibre to the next cluster
\* (fibre_migrate), loop() yields in the builds that ask for it.
EndLap(w, f) ==
  /\ curStep' = [curStep EXCEPT ![f] = IF LapEnds(f) THEN 0 ELSE @ + 1]
  /\ subpathIdx' = [subpathIdx EXCEPT
                      ![f] = IF Migrate /\ LapEnds(f) THEN SubpathAfter(@)
                                                      ELSE @]
  /\ IF LapEnds(f) /\ (Migrate \/ Yield) THEN Release(w) ELSE UNCHANGED running

\* Bounds accesscount, until the path the fibre walks is broken.
MayLoad(f) ==
  \/ accesscount[f] < MaxLoads
  \/ \E s \in Subpaths : Broken(mem, s) /\ (Migrate \/ s = subpathIdx[f])

\* One round of loop() or migratingLoop().
Load(w, f) ==
  /\ Steps(w, f, "looping")
  /\ index[f] # Stop
  /\ MayLoad(f)
  /\ index' = [index EXCEPT ![f] = mem[index[f]]]
  /\ accesscount' = [accesscount EXCEPT ![f] = @ + 1]
  /\ EndLap(w, f)
  /\ counted' = [counted EXCEPT ![f] = IF counting THEN @ + 1 ELSE @]
  /\ overrun' = [overrun EXCEPT ![f] = IF AllBroken THEN @ + 1 ELSE @]
  /\ UNCHANGED <<mem, mainVars, pc, loggingMutex, numAtBarrior, atBarrier,
                 loopResults, alarmVars, counting, output>>

\* The invalid index ends the loop; the fibre stores its result and ends.
\* Mutant: the fibre was handed a copy of its LoopResult.
StoreInCopy(f) == UNCHANGED loopResults
StoreResult(f) == loopResults' = [loopResults EXCEPT ![f] = accesscount[f]]

Leave(w, f) ==
  /\ Goes(w, f, "looping", "done")
  /\ index[f] = Stop
  /\ StoreResult(f)
  /\ Release(w)
  /\ UNCHANGED <<mem, mainVars, loggingMutex, numAtBarrior, atBarrier,
                 loopVars, alarmVars, counting, output>>

Worker(w) ==
  \/ Dispatch(w)
  \/ \E f \in Fibres :
       \/ LockLog(w, f) \/ UnlockLog(w, f) \/ Arrive(w, f) \/ Wait(w, f)
       \/ Load(w, f) \/ Leave(w, f)

-----------------------------------------------------------------------------
(* The alarm.  The TODO in fibreCallback() grants that no worker blocks    *)
(* SIGALRM: any of them, or the thread of the main fibre, is interrupted.  *)

AlarmFires ==
  /\ Alive /\ alarm = "armed"
  /\ alarm' = "fired"
  /\ handlerOn' \in Workers \cup {Main}
  /\ UNCHANGED <<mem, mainVars, pc, running, loggingMutex, numAtBarrior,
                 atBarrier, loopVars, loopResults, handlerAt, counting,
                 output>>

BreakSubpath ==
  /\ Alive /\ handlerOn # Nobody
  /\ handlerAt < NumSubpaths
  /\ mem' = Break(mem, handlerAt)
  /\ handlerAt' = handlerAt + 1
  /\ UNCHANGED <<mainVars, pc, running, loggingMutex, numAtBarrior, atBarrier,
                 loopVars, loopResults, alarm, handlerOn, counting, output>>

HandlerReturns ==
  /\ Alive /\ handlerOn # Nobody
  /\ handlerAt = NumSubpaths
  /\ handlerOn' = Nobody
  /\ UNCHANGED <<mem, mainVars, pc, running, loggingMutex, numAtBarrior,
                 atBarrier, loopVars, loopResults, alarm, handlerAt, counting,
                 output>>

Handler == BreakSubpath \/ HandlerReturns

-----------------------------------------------------------------------------

MainStep ==
  \/ Split \/ Create \/ Gather \/ Evict \/ SetupTimeout \/ PerfStart
  \/ MainAtBarrier \/ AssertFails \/ Join \/ PerfStop \/ Report

Terminated == ~Alive /\ UNCHANGED vars

Next ==
  \/ MainStep
  \/ \E w \in Workers : Worker(w)
  \/ AlarmFires \/ Handler
  \/ Terminated

Spec == Init /\ [][Next]_vars

-----------------------------------------------------------------------------
(* Properties.                                                             *)

TypeOK ==
  /\ mem \in Paths
  /\ mainPc \in {"split", "create", "gather", "evict", "timeout", "perf",
                 "barrier", "blocked", "notserial", "join", "stop", "report",
                 "exit", "failed"}
  /\ created \in 0 .. NumFibres /\ joined \in 0 .. NumFibres
  /\ pc \in [Fibres -> {"unborn", "starting", "locking", "logging",
                        "counting", "arriving", "waiting", "looping",
                        "done"}]
  /\ running \in [Workers -> Fibres \cup {Nobody}]
  /\ loggingMutex \in Fibres \cup {Nobody}
  /\ numAtBarrior \in 0 .. NumFibres /\ atBarrier \in 0 .. NumFibres + 1
  /\ index \in [Fibres -> Entries \cup {Stop}]
  /\ accesscount \in [Fibres -> Nat]
  /\ subpathIdx \in [Fibres -> Subpaths]
  /\ curStep \in [Fibres -> Nat]
  /\ loopResults \in [Fibres -> Nat]
  /\ alarm \in {"off", "armed", "fired"}
  /\ handlerOn \in Workers \cup {Main, Nobody}
  /\ handlerAt \in 0 .. NumSubpaths
  /\ counting \in BOOLEAN
  /\ counted \in [Fibres -> Nat] /\ overrun \in [Fibres -> Nat]
  /\ output \in [Fibres -> Nat]

\* A fibre loads entries of a subpath only on the workers of the cluster of
\* that subpath: what -M is for.  It takes the step counter of
\* migratingLoop(), the lengths counted beforehand and the order in which
\* the subpaths are linked to agree.
OnOwnCluster ==
  /\ \A f \in Fibres : index[f] = Stop \/ index[f][1] = subpathIdx[f]
  /\ \A w \in Workers, f \in Fibres :
       running[w] = f => ClusterOf[w] = subpathIdx[f]

\* Entries of the subpaths before s, in the order of the linked path.
Before[s \in 0 .. NumSubpaths] ==
  IF s = 0 THEN 0 ELSE Before[s - 1] + Length[s - 1]

\* The access count of a fibre tells where on its cycle it is: without
\* migration its own subpath, with migration the whole path.
CountGivesPosition ==
  \A f \in Fibres :
    index[f] # Stop =>
      IF Migrate
      THEN (Before[SubpathOf[f]] + accesscount[f]) % Before[NumSubpaths]
             = Before[index[f][1]] + index[f][2]
      ELSE accesscount[f] % Length[SubpathOf[f]] = index[f][2]

\* Once the handler has broken every subpath a fibre stops within one lap
\* of a subpath, even when it migrates.
OverrunBounded ==
  \A f \in Fibres : \E s \in Subpaths : overrun[f] <= Length[s]

\* The performance counters see every access of every fibre.
CountersSeeAllLoads == MeasuredEvents => counted = accesscount

\* When main() writes the results every fibre has ended, stopped by a subpath
\* that the handler has broken, its own unless it migrates; no worker runs
\* one, and what is written are the final counts. The handler does not
\* interrupt main() any more. It may still be on an idle worker, with
\* subpaths to break on which no fibre was left to stop.
StoppedByHandler(f) ==
  \E s \in Subpaths : Broken(mem, s) /\ (Migrate \/ s = SubpathOf[f])
ReportIsFinal ==
  mainPc \in {"report", "exit"} =>
    /\ \A f \in Fibres : pc[f] = "done" /\ StoppedByHandler(f)
    /\ \A w \in Workers : running[w] = Nobody
    /\ alarm = "fired" /\ handlerOn # Main
    /\ loopResults = accesscount
    /\ mainPc = "exit" => output = accesscount

\* No fibre reads the buffer before all fibres and the main fibre have
\* arrived at the barrier, and none that still has to arrive is overtaken.
QuietSetup ==
  [][\A f \in Fibres : accesscount'[f] # accesscount[f] =>
       /\ counting = MeasuredEvents /\ alarm # "off"
       /\ \A g \in Fibres : pc[g] \in {"looping", "done"}]_vars

\* "main fibre to release the others": the main fibre is the last one to
\* arrive at the barrier, as its assertion demands.
MainReleasesFibres == mainPc # "notserial"

\* How far the process is, and who is through, in the terms of Benchmark.
Phase ==
  IF Alive THEN IF atBarrier = NumFibres + 1 THEN "measuring" ELSE "setup"
           ELSE IF mainPc = "exit" THEN "reported" ELSE "failed"
Finished == {f \in Fibres : pc[f] = "done"}

\* The fibre variant implements Benchmark: no access outside the
\* measurement, no fibre that gives up by itself, one report.
Promise == INSTANCE Benchmark WITH
  Workers <- Fibres,
  phase <- Phase,
  stop <- (alarm = "fired"),
  finished <- Finished,
  count <- accesscount,
  report <- output

KeepsPromise == Promise!Spec
=============================================================================
