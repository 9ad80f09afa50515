----------------------------- MODULE Experiment -----------------------------
(***************************************************************************)
(* The thread variant of the experiment, threadTest() of cachetest.cc: the *)
(* main thread splits the pointer chasing path into one cycle per subpath, *)
(* spawns the worker threads, waits for them at a counting barrier, wipes  *)
(* the caches, arms the alarm, starts the counters and lets the workers    *)
(* loose; they chase pointers until the SIGALRM handler has overwritten    *)
(* the first entry of their subpath with the invalid index -1.             *)
(***************************************************************************)
EXTENDS ChasingPath

CONSTANTS
  NumThreads,       \* threads.size(), the sum of subpathThreadCounts
  SubpathOf,        \* the subpath each thread works on, in spawning order
  MeasuredEvents,   \* Measured_events != NULL (option -e given)
  MaxLoads,         \* bound: loads a thread makes while its path is unbroken
  Main,             \* the main thread, as a place where a signal is handled
  Nobody            \* the mutex is free; no thread runs the handler

Threads == 0 .. NumThreads - 1

ASSUME ThreadAssumption ==
  /\ NumThreads \in Nat \ {0}
  /\ SubpathOf \in [Threads -> Subpaths]
  /\ \A t, u \in Threads : t <= u => SubpathOf[t] <= SubpathOf[u]
ASSUME OptionAssumption == MeasuredEvents \in BOOLEAN /\ MaxLoads \in Nat

ASSUME DistinctAssumption ==
  /\ Main \notin Threads
  /\ Nobody \notin Threads \cup {Main}

VARIABLES
  mem,              \* the buffer: the index stored at each entry of the path
  mainPc,           \* what the main thread does next
  spawned,          \* threads created so far
  joined,           \* threads joined so far
  pc,               \* what each worker thread does next
  loggingMutex,     \* holder of loggingMutex
  numAtBarrior,     \* the atomic counter of the start barrier
  startExperiment,  \* the flag the workers spin on
  index,            \* loop()'s register index
  accesscount,      \* loop()'s register accesscount
  loopResults,      \* the accesscount each thread has returned
  alarm,            \* "off", "armed" by alarm(), or "fired"
  handlerOn,        \* the thread whose execution alarm_handler() interrupts
  handlerAt,        \* the subpath the handler breaks next
  counting,         \* the performance counters are enabled
  counted,          \* loads of each thread made while they were enabled
  overrun,          \* history: loads made after the thread's path was broken
  output            \* access counts written to the output

mainVars == <<mainPc, spawned, joined>>
loopVars == <<index, accesscount, counted, overrun>>
alarmVars == <<alarm, handlerOn, handlerAt>>
vars == <<mem, mainVars, pc, loggingMutex, numAtBarrior, startExperiment,
          loopVars, loopResults, alarmVars, counting, output>>

-----------------------------------------------------------------------------
\* exit() and the return of main() end every thread.
Alive == mainPc \notin {"exit", "failed"}
Runs(p) == Alive /\ handlerOn # p

MainGoes(from, to) == Runs(Main) /\ mainPc = from /\ mainPc' = to
Goes(t, from, to) ==
  Runs(t) /\ pc[t] = from /\ pc' = [pc EXCEPT ![t] = to]

Init ==
  /\ mem = LinkedPath
  /\ mainPc = "split" /\ spawned = 0 /\ joined = 0
  /\ pc = [t \in Threads |-> "unborn"]
  /\ loggingMutex = Nobody
  /\ numAtBarrior = 0
  /\ startExperiment = FALSE
  /\ index = [t \in Threads |-> StartIdx(SubpathOf[t])]
  /\ accesscount = [t \in Threads |-> 0]
  /\ loopResults = [t \in Threads |-> 0]
  /\ alarm = "off" /\ handlerOn = Nobody /\ handlerAt = 0
  /\ counting = FALSE
  /\ counted = [t \in Threads |-> 0]
  /\ overrun = [t \in Threads |-> 0]
  /\ output = [t \in Threads |-> 0]

-----------------------------------------------------------------------------
(* The main thread.                                                        *)

Split ==
  /\ MainGoes("split", "spawn")
  /\ mem' = SplitPath(mem)
  /\ UNCHANGED <<spawned, joined, pc, loggingMutex, numAtBarrior,
                 startExperiment, loopVars, loopResults, alarmVars, counting,
                 output>>

\* threads.emplace_back(...), subpath by subpath.
Spawn ==
  /\ MainGoes("spawn", IF spawned + 1 = NumThreads THEN "gather" ELSE "spawn")
  /\ spawned' = spawned + 1
  /\ pc' = [pc EXCEPT ![spawned] = "starting"]
  /\ UNCHANGED <<mem, joined, loggingMutex, numAtBarrior, startExperiment,
                 loopVars, loopResults, alarmVars, counting, output>>

\* while (numAtBarrior.load() != threads.size());
\* Mutant: one thread is not waited for.
NearlyAllAtBarrior == numAtBarrior >= NumThreads - 1
AllAtBarrior == numAtBarrior = NumThreads

Gather ==
  /\ MainGoes("gather", "evict")
  /\ AllAtBarrior
  /\ UNCHANGED <<mem, spawned, joined, pc, loggingMutex, numAtBarrior,
                 startExperiment, loopVars, loopResults, alarmVars, counting,
                 output>>

\* evictCacheEntries() exits the process when the huge page is refused.
Evict ==
  /\ \/ MainGoes("evict", "timeout")
     \/ MainGoes("evict", "failed")
  /\ UNCHANGED <<mem, spawned, joined, pc, loggingMutex, numAtBarrior,
                 startExperiment, loopVars, loopResults, alarmVars, counting,
                 output>>

\* Mutant: NDEBUG drops the assert() that holds the call of alarm().
ArmNothing == UNCHANGED alarm
ArmAlarm == alarm' = "armed"

\* Installs the handler and arms the alarm, in this order.
SetupTimeout ==
  /\ MainGoes("timeout", "perf")
  /\ ArmAlarm
  /\ UNCHANGED <<mem, spawned, joined, pc, loggingMutex, numAtBarrior,
                 startExperiment, loopVars, loopResults, handlerOn, handlerAt,
                 counting, output>>

PerfStart ==
  /\ \/ MainGoes("perf", "loose") /\ counting' = MeasuredEvents
     \/ MainGoes("perf", "failed") /\ MeasuredEvents /\ UNCHANGED counting
  /\ UNCHANGED <<mem, spawned, joined, pc, loggingMutex, numAtBarrior,
                 startExperiment, loopVars, loopResults, alarmVars, output>>

LetLoose ==
  /\ MainGoes("loose", "join")
  /\ startExperiment' = TRUE
  /\ UNCHANGED <<mem, spawned, joined, pc, loggingMutex, numAtBarrior,
                 loopVars, loopResults, alarmVars, counting, output>>

\* Threads are joined in the order they were spawned.
\* Mutant: only the first is joined.
AfterFirstJoin == "stop"
AfterJoin == IF joined + 1 = NumThreads THEN "stop" ELSE "join"

Join ==
  /\ MainGoes("join", AfterJoin)
  /\ pc[joined] = "done"
  /\ joined' = joined + 1
  /\ UNCHANGED <<mem, spawned, pc, loggingMutex, numAtBarrior,
                 startExperiment, loopVars, loopResults, alarmVars, counting,
                 output>>

PerfStop ==
  /\ \/ MainGoes("stop", "report") /\ counting' = FALSE
     \/ MainGoes("stop", "failed") /\ MeasuredEvents /\ UNCHANGED counting
  /\ UNCHANGED <<mem, spawned, joined, pc, loggingMutex, numAtBarrior,
                 startExperiment, loopVars, loopResults, alarmVars, output>>

\* Reads the counters, which may fail, and writes the results.
Report ==
  /\ \/ MainGoes("report", "exit") /\ output' = loopResults
     \/ MainGoes("report", "failed") /\ MeasuredEvents /\ UNCHANGED output
  /\ UNCHANGED <<mem, spawned, joined, pc, loggingMutex, numAtBarrior,
                 startExperiment, loopVars, loopResults, alarmVars, counting>>

-----------------------------------------------------------------------------
(* The worker threads: the lambda of threadTest(), and loop().             *)

\* THREAD_SUBPATH_DISTRIBUTION_DEC is 0: every thread starts at the first
\* entry of its subpath, the value index has had since Init.
LockLog(t) ==
  /\ Goes(t, "starting", "logging")
  /\ loggingMutex = Nobody
  /\ loggingMutex' = t
  /\ UNCHANGED <<mem, mainVars, numAtBarrior, startExperiment, loopVars,
                 loopResults, alarmVars, counting, output>>

UnlockLog(t) ==
  /\ Goes(t, "logging", "ready")
  /\ loggingMutex' = Nobody
  /\ UNCHANGED <<mem, mainVars, numAtBarrior, startExperiment, loopVars,
                 loopResults, alarmVars, counting, output>>

\* numAtBarrior.fetch_add(1)
\* Mutant: a thread counts itself twice.
CountTwiceAtBarrior == numAtBarrior' = numAtBarrior + 2
CountAtBarrior == numAtBarrior' = numAtBarrior + 1

Arrive(t) ==
  /\ Goes(t, "ready", "spinning")
  /\ CountAtBarrior
  /\ UNCHANGED <<mem, mainVars, loggingMutex, startExperiment, loopVars,
                 loopResults, alarmVars, counting, output>>

\* while (!startExperiment);
\* Mutant: nobody waits.
AlwaysLoose == TRUE
Loose == startExperiment

Enter(t) ==
  /\ Goes(t, "spinning", "looping")
  /\ Loose
  /\ UNCHANGED <<mem, mainVars, loggingMutex, numAtBarrior, startExperiment,
                 loopVars, loopResults, alarmVars, counting, output>>

\* Mutant: the access that reads the invalid index is not counted.
CountUnlessLast(t) ==
  IF mem[index[t]] = Stop THEN accesscount[t] ELSE accesscount[t] + 1
CountAccess(t) == accesscount[t] + 1

\* One round of loop(): index = *(startAddr + index), accesscount += 1.
Load(t) ==
  /\ Runs(t) /\ pc[t] = "looping"
  /\ index[t] # Stop
  /\ accesscount[t] < MaxLoads \/ Broken(mem, SubpathOf[t])
  /\ index' = [index EXCEPT ![t] = mem[index[t]]]
  /\ accesscount' = [accesscount EXCEPT ![t] = CountAccess(t)]
  /\ counted' = [counted EXCEPT ![t] = IF counting THEN @ + 1 ELSE @]
  /\ overrun' = [overrun EXCEPT
                   ![t] = IF Broken(mem, SubpathOf[t]) THEN @ + 1 ELSE @]
  /\ UNCHANGED <<mem, mainVars, pc, loggingMutex, numAtBarrior,
                 startExperiment, loopResults, alarmVars, counting, output>>

\* Mutant: the thread was handed a copy of its LoopResult.
StoreInCopy(t) == UNCHANGED loopResults
StoreResult(t) == loopResults' = [loopResults EXCEPT ![t] = accesscount[t]]

\* The invalid index ends the loop; the thread stores its result and ends.
Leave(t) ==
  /\ Goes(t, "looping", "done")
  /\ index[t] = Stop
  /\ StoreResult(t)
  /\ UNCHANGED <<mem, mainVars, loggingMutex, numAtBarrior, startExperiment,
                 loopVars, alarmVars, counting, output>>

Worker(t) ==
  \/ LockLog(t) \/ UnlockLog(t) \/ Arrive(t)
  \/ Enter(t) \/ Load(t) \/ Leave(t)

-----------------------------------------------------------------------------
(* The alarm.  No thread blocks SIGALRM (both calls of blockAlarmSignal()  *)
(* are commented out), so the kernel may deliver it to any live thread,    *)
(* which does nothing else until the handler has returned.                 *)

LiveThreads == {t \in Threads : pc[t] \notin {"unborn", "done"}}

AlarmFires ==
  /\ Alive /\ alarm = "armed"
  /\ alarm' = "fired"
  /\ handlerOn' \in LiveThreads \cup {Main}
  /\ UNCHANGED <<mem, mainVars, pc, loggingMutex, numAtBarrior,
                 startExperiment, loopVars, loopResults, handlerAt, counting,
                 output>>

\* One iteration of the handler: the first entry of a subpath becomes -1.
BreakSubpath ==
  /\ Alive /\ handlerOn # Nobody
  /\ handlerAt < NumSubpaths
  /\ mem' = Break(mem, handlerAt)
  /\ handlerAt' = handlerAt + 1
  /\ UNCHANGED <<mainVars, pc, loggingMutex, numAtBarrior, startExperiment,
                 loopVars, loopResults, alarm, handlerOn, counting, output>>

HandlerReturns ==
  /\ Alive /\ handlerOn # Nobody
  /\ handlerAt = NumSubpaths
  /\ handlerOn' = Nobody
  /\ UNCHANGED <<mem, mainVars, pc, loggingMutex, numAtBarrior,
                 startExperiment, loopVars, loopResults, alarm, handlerAt,
                 counting, output>>

Handler == BreakSubpath \/ HandlerReturns

-----------------------------------------------------------------------------

MainStep ==
  \/ Split \/ Spawn \/ Gather \/ Evict \/ SetupTimeout \/ PerfStart
  \/ LetLoose \/ Join \/ PerfStop \/ Report

\* A finished process does nothing more.
Terminated == ~Alive /\ UNCHANGED vars

Next ==
  \/ MainStep
  \/ \E t \in Threads : Worker(t)
  \/ AlarmFires \/ Handler
  \/ Terminated

Spec == Init /\ [][Next]_vars

-----------------------------------------------------------------------------
(* Properties.                                                             *)

TypeOK ==
  /\ mem \in Paths
  /\ mainPc \in {"split", "spawn", "gather", "evict", "timeout", "perf",
                 "loose", "join", "stop", "report", "exit", "failed"}
  /\ spawned \in 0 .. NumThreads /\ joined \in 0 .. NumThreads
  /\ pc \in [Threads -> {"unborn", "starting", "logging", "ready",
                         "spinning", "looping", "done"}]
  /\ loggingMutex \in Threads \cup {Nobody}
  /\ numAtBarrior \in 0 .. NumThreads
  /\ startExperiment \in BOOLEAN
  /\ index \in [Threads -> Entries \cup {Stop}]
  /\ accesscount \in [Threads -> Nat]
  /\ loopResults \in [Threads -> Nat]
  /\ alarm \in {"off", "armed", "fired"}
  /\ handlerOn \in Threads \cup {Main, Nobody}
  /\ handlerAt \in 0 .. NumSubpaths
  /\ counting \in BOOLEAN
  /\ counted \in [Threads -> Nat]
  /\ overrun \in [Threads -> Nat]
  /\ output \in [Threads -> Nat]

\* A thread never leaves the subpath it was given: its index is an entry of
\* that subpath or the invalid index.  The per-subpath results, and pinning
\* the threads of a subpath to a cache, mean nothing otherwise.
StaysInSubpath ==
  \A t \in Threads : index[t] = Stop \/ index[t][1] = SubpathOf[t]

\* loop() counts each access once: a thread at entry k of its subpath has
\* made some whole laps and k accesses more; and a thread that was stopped
\* has made some whole laps and the one access that read the -1, whenever
\* the handler broke the path.
CountsWholeLaps ==
  \A t \in Threads : \E laps \in 0 .. accesscount[t] :
    accesscount[t] = laps * Length[SubpathOf[t]]
                       + (IF index[t] = Stop THEN 1 ELSE index[t][2])

\* Breaking a path stops its threads within one lap: no thread makes more
\* accesses after the handler's write than its subpath has entries.
OverrunBounded == \A t \in Threads : overrun[t] <= Length[SubpathOf[t]]

\* The performance counters see every access the loops make, and so agree
\* with the access counts: they are enabled before the first load of any
\* thread and disabled after the last.
CountersSeeAllLoads == MeasuredEvents => counted = accesscount

\* When main() writes the results every thread has ended, the alarm handler
\* is not running any more, and what is written are the final counts.
ReportIsFinal ==
  mainPc \in {"report", "exit"} =>
    /\ \A t \in Threads : pc[t] = "done"
    /\ alarm = "fired" /\ handlerOn = Nobody
    /\ loopResults = accesscount
    /\ mainPc = "exit" => output = accesscount

\* Between letting the threads into the barrier and letting them loose the
\* caches are wiped, the timer armed and the counters started: no thread
\* reads the buffer from its spawning until then.
QuietSetup ==
  [][\A t \in Threads : accesscount'[t] # accesscount[t] =>
       /\ mainPc \in {"join", "stop"}
       /\ \A u \in Threads : pc[u] \in {"spinning", "looping", "done"}]_vars

\* How far the process is, and who is through, in the terms of Benchmark.
Phase ==
  IF Alive THEN IF startExperiment THEN "measuring" ELSE "setup"
           ELSE IF mainPc = "exit" THEN "reported" ELSE "failed"
Finished == {t \in Threads : pc[t] = "done"}

\* The thread variant implements Benchmark: no access outside the
\* measurement, no thread that gives up by itself, one report.
Promise == INSTANCE Benchmark WITH
  Workers <- Threads,
  phase <- Phase,
  stop <- (alarm = "fired"),
  finished <- Finished,
  count <- accesscount,
  report <- output

KeepsPromise == Promise!Spec
=============================================================================
