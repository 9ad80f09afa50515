# Verification of cachetest

cachetest measures caches: threads, or fibres of libfibre, chase pointers through a buffer until a
timer goes off, while performance counters may run. This directory holds TLA+ models of the program,
TLC configurations that check them on small instances, and TLAPS proofs. Paths below are those of the
repository (`src/src/...` is its directory `src/`).

## 1. Inventory

| component | state it keeps | operations | correct when |
|---|---|---|---|
| **Options and pinning** (`cachetest.cc` 853-1185, `setThreadAffinity` 273) | `opt`, `subpathThreadCounts`, `subpathFibreCounts`, `cpuIdSets`, `mainCPUIdSet`, `uniqueWorkerCPUIdSet` | `Parse_options`, `Configure_experiment` once; sets read by the experiments | each worker has a set of its own; the wiped cores are those that workers use |
| **Buffer** (`Buffer.cc`, `Small_buffer.cc`, `Large_buffer.cc`) | mapping, start address, slabs | construct, `Find_contiguous_range`, `Set_buffer_offset` | all indices of the path lie in mapped memory |
| **Distribution SUBPATH** (`Distribution.cc` 372-600) | buffer words, `entries`, `sequence` | `doDistribute`, `uniformSubpath`, `zipfSubpath` | one cycle through all chunks, whatever the random numbers |
| **Subpath analysis** (`cachetest.cc` 178-271) | `subpathInfo`, buffer words | collect, split | slices are the chunks; the split gives one cycle per subpath |
| **Thread experiment** (`cachetest.cc` 315-417, 492-575, 784-851) | `numAtBarrior`, `startExperiment`, `loopResults`, the path, the alarm | spawn, barrier, wipe, alarm, count, chase, break, join, report | see section 3 |
| **Fibre experiment** (`cachetest.cc` 422-490, 577-739) | the same, `paddedClusters`, `testBarrier` | create, barrier, chase, yield, migrate, break, join, report | see section 3 |
| **Performance counters** (`Perf*.cc`) | events, file descriptors | parse, add, start, stop, read | the counters cover exactly the measurement |
| **Start synchronisation** (`cachetest.cc` 1265) | the disposition of SIGUSR1 | `signal`, `pause` | the experiment begins on a signal, and which signals are lost is known |
| **Launcher** (`launcher.cc`) | child processes | fork, pin, exec, wait | a benchmark runs with its priority, nice value and CPU; its end is reported |
| **Zipf generator** (`genzipf.cc`) | seed, normalisation | `init_zipf`, `zipf`, `rand_val` | numbers are those of the generator, without overflow; ranks lie in 1..n |
| **Legacy distributions** (`Distribution.cc` 97-370) | buffer words | LINEAR, UNIFORM, ZIPF, WUNI | one cycle; cannot be chosen in `main()` |

`main()` runs these one after the other: options, buffer, counters (`addEvent`), distribution, subpath
analysis, start synchronisation, then one of the two experiments, then the report. All concurrency is
in the experiments: main thread and workers share the path in the buffer, the atomic counter
`numAtBarrior`, the flag `startExperiment` (or the fibre barrier) and `loopResults`; the SIGALRM handler
writes the path from inside *whichever* thread the kernel interrupts, because both calls of
`blockAlarmSignal()` are commented out (526, 593).

Hard behaviours: the timer is armed before the workers are let loose, so its handler may run before,
between and during their loads; the handler writes one subpath after the other; it runs on a thread that
cannot progress meanwhile; the workers notice only by loading the -1 the handler wrote; migrating fibres
rely on lengths counted before the test; the main thread and the workers wait for each other in busy loops,
and the launcher makes them real-time threads of one CPU; calls that matter stand inside `assert()`; any counter
or huge-page failure ends the process in the middle. `PROJECT.json` lists each hazard at its line with the
properties that cover it.

## 2. Modules

| module | models |
|---|---|
| `ChasingPath` | the path as the experiments see it: entry `<<s, k>>` is the k-th visited in subpath s. The linked path that `Setup_distribution()` leaves, the split, the handler's write. |
| `Benchmark` | the abstract specification: what one run promises, for threads and for fibres. |
| `Experiment` | `threadTest()`, its lambda, `loop()`, `evictCacheEntries()`, `setupTimeout()`, `alarm_handler()`, the report of `main()`. |
| `FibreExperiment` | `fibreTest()`, `fibreCallback()`, `loop()`, `migratingLoop()` and the same handler and report. |
| `Scheduling` | which threads the kernel runs: time-shared, or `SCHED_FIFO` on a number of CPUs. |
| `ScheduledExperiment`, `ScheduledFibreExperiment` | compose `Scheduling` with each experiment: a thread needs a CPU for its next step. Fairness and liveness. |
| `PointerChain` | the SUBPATH distribution, `collectPointerChasingSubpathInfo()` and `splitPointerChasingPath()` on the words of the buffer. |
| `ZipfGenerator` | `rand_val()`, `init_zipf()` and `zipf()`. |
| `Distributions` | composes the two and adds the distributions LINEAR, UNIFORM (with slabs), WUNI and ZIPF: `createDistribution()`, `distribute()`. |
| `EventParser` | `Perf_Cachetest::parseEvents()`, the list of option `-e`. |
| `Pinning` | `Parse_options()` for `-T -F -C -I -m`, `setThreadAffinity()`, the affinities threads inherit, the CPUs that `evictCacheEntries()` visits. |
| `BufferAlloc` | `Setup_buffer()`, the classes of `Buffer.cc`. |
| `Setup` | composes the three in the order of `main()`, with `usage()`, the other options and `Configure_experiment()`. |
| `PerfCounters` | `Setup_perf()`, `addEvent()`, `start()`, `stop()`, `read_results()` and what the kernel counts for them. |
| `Startup` | the launcher, the child it makes of itself, and the benchmark's wait for SIGUSR1. |
| `Instance` | composes `Startup` and `PerfCounters`: one launched instance with its counters. |
| `ChasingPathProofs`, `ExperimentProofs`, `FibreExperimentProofs`, `DistributionsProofs`, `PinningProofs`, `SetupProofs`, `PerfCountersProofs`, `StartupProofs` | theorems, see section 4. |
| `MCExperiment`, `MCFibreExperiment`, `MCScheduledFibres`, `MCDistributions`, `MCSetup`, `MCPerfCounters`, `MCInstance` | instances for TLC. |

`ChasingPath` and `PointerChain` are two views of the same buffer. `PointerChain` instantiates `ChasingPath` with the
lengths that were recorded and maps entry `<<s, k>>` to the word k links behind the start of subpath s (`Word`).
`HandsOver` says that under this mapping the words hold `LinkedPath` when the walk has ended and `SplitPath(LinkedPath)`
after the split, with which the experiments start.
Likewise `Setup` ends where the experiments begin, and `PerfCounters` looks closely
at the counters that they enable and disable.

### How the code maps to `Experiment`

The names of the variables are those of the code; `pc` and `mainPc` are program counters, `mem` is the
buffer, `counted` and `overrun` are history variables that only properties read. One action stands for
the code between two accesses to shared state:

* `Split`, `Spawn` (one thread), `Gather` (the spin at 542), `Evict` (success, or `exit(-1)` at 332),
  `SetupTimeout`, `PerfStart` (may fail with option `-e`), `LetLoose`, `Join` (in order), `PerfStop`,
  `Report`.
* Worker: `LockLog`, `UnlockLog`, `Arrive` (`fetch_add`), `Enter` (the spin on `startExperiment`), `Load`
  (one round of `loop()`), `Leave`.
* `AlarmFires` picks any live thread; that thread takes no step until `HandlerReturns`. `BreakSubpath` is
  one iteration of the handler.

A `Load` is one atomic step. The registers `index` and `accesscount` are private, the load itself is one
aligned word, so nothing of the round is visible to others. Memory order: `startExperiment` is a
`volatile bool` and the path is read with plain loads; the models give them the order of the program,
which x86 and the join and fetch_add around them provide in the builds the project supports. The thread
offset `THREAD_SUBPATH_DISTRIBUTION_DEC` is 0, so every thread starts at the first entry. The subpath of
a thread is given by the constant `SubpathOf`, in the order of spawning. A run with no thread at all
(`-T 0`) fails the assertion at 316, which is in `Pinning`, and is left out here (`ThreadAssumption`).

### How the code maps to `FibreExperiment`

libfibre is not in the repository. Its scheduler is modelled from the use made of it: `Dispatch` gives an
idle worker any ready fibre of its cluster; a fibre keeps its worker until it blocks (mutex, barrier),
yields (the `FIBRE_YIELD` builds), migrates or ends. The barrier opens when all fibres *and* the
main fibre have arrived, and tells only the last arriver `PTHREAD_BARRIER_SERIAL_THREAD`. `EndLap` is the
code at the end of a lap, common to both loops. `loop()` starts `curStep` at 0, as do migrating fibres.
A cluster that is given fibres but no worker never runs them; the code accepts such options, the model
assumes them away (`FibreAssumption`) and the hazard list records it.

### How the code maps to `Scheduling`

`Experiment` and `FibreExperiment` say what a thread may do next, in any order; their safety properties hold however the
kernel schedules. Whether a run *ends* depends on the schedule, so it is modelled. Started from a shell the threads are
time-shared (`"other"`). The launcher (`launcher.cc` 98-107) makes the benchmark `SCHED_FIFO` of the highest
priority and pins it to one CPU before `execv()`; the threads that it creates inherit both, and then (`"fifo"`) a thread
that has a CPU keeps it until it blocks or ends. `onCpu` are the threads that have one, `Scheduled` takes a free CPU
for a thread's step, `Runnable` says who still uses its CPU afterwards: a thread in a busy loop (534, 542, 704) does,
one in `join()`, at the mutex or at the fibre barrier does not, nor does a libfibre worker without a ready fibre.
The number of CPUs is a parameter. A thread's own `-C` pinning (518), which would move it to another CPU, is left out:
it comes after the thread has run on a CPU of the launcher, or, for libfibre workers, makes the CPUs more.

### How the code maps to `PointerChain`, `ZipfGenerator` and `Distributions`

A behaviour begins with any command line of the constant `Commands`. Memory is a function from word
addresses to words; the unit is the four-byte element. A word is an address or one of three marks: fresh
(0, the same as index 0, as in the code), -1, or torn (the fill of `uniformSubpath()` writes a word at
every *byte* and so three bytes behind the chunk). `std::shuffle` leaves any permutation. The walk reads
words as the code does; reading -1 as an index leaves the buffer and ends in `"exited"`.

`zipfSubpath()` seeds the generator for each chunk (with any seed: it comes from a random device), and each
round calls `zipf()`: `CallZipf`, `InZipf`, `ZipfReturned`. The state of the generator is that of the
program, static variables that outlive the calls, such as the constant that only the first call computes.
`rand_val()` is modelled in its integers. In `zipf()` the floating point numbers `1 / i^alpha` are a sequence of integer
weights and the comparison `sum_prob >= z` is made without the division; rounding is left out, and where
it could leave no rank at all the assertion at the end of `zipf()` fails and a build with `NDEBUG` returns anything.
`ZipfGenerator` has this path (`ReturnAnything`), `Distributions` leaves it out: `zipfSubpath()` asks for the same
number of ranks in each call, with which a rank is always reached (theorem `RankReached`).

The older distributions share the rounds: `LinkLine` takes the first free word of the line that was drawn or
ends the path at a full one; UNIFORM marks the word it will write next, WUNI does not; `Halve` is one round
of WUNI's binary search. With slabs UNIFORM looks a page up first, past the end of the vector if there are
too few (`"undefined"`). ZIPF shuffles an array with an index below zero in its last round and leaves no path.

### How the code maps to `EventParser`, `Pinning`, `BufferAlloc` and `Setup`

A token of the list of events is its kind: `rx0000yyxx`, `:name`, an event id, a mask `uyy`, or one that
cannot be parsed. An event is known by the positions of the tokens its id and mask come from, which tells a
lost, doubled or mixed-up one from the right one. The mask of an id that is given none is the uninitialised member
of the parser's record (226, 235), holding none or what an earlier token left in it (`Indeterminate`). One action stands for one round of the loop; the jump to
`skip` is the next round. The encoding into `attr.config` is left out.

`Pinning` starts from the lists of numbers that `split()` and `stoi()` make of the options. `CountsAgree`,
`CheckItems`, `BuildSets` (one subpath) and `CollectUnique` are the stretches of `Parse_options()` between
its assertions; the check at 1023 is vacuous in the code and so in the model. `PinMain`, `SpawnWorkers`,
`PinWorker`, `BeginWipe`, `WipeCPU`, `EndWipe` follow `main()` and the experiments; the kernel refuses a
set without a CPU that is there, and a thread is born with the affinity of its creator. The affinity `main()` itself
is `started` with is any set of CPUs that are there: the launcher's one (`launcher.cc` 107), `taskset`'s, or all. An access past the
end of the sets is `"undefined"`.

`BufferAlloc` keeps the widths: an unsigned product becomes an int and then a `size_t`. Memory is any
alignment of `malloc()`, or aligned huge pages; `Initialize` wipes and *then* aligns. With `-a`, `Populate`
gives the touched pages any frames, and `Find` is one round over the map. `Populate_frame_to_page_map()` has
no return statement, so its status is any.

`Setup` runs the parts in order, one exit ending them all: the parser of events is called by getopt() in
`Parse_options()` (`ParseEvents`), an unknown option or a missing size ends it (`Usage`), the other options
become unsigned numbers (`ReadOptions`), the lists are parsed (`ParsePinning`), the numbers checked
(`Configure_experiment`), the buffer set up (`Setup_buffer`), the threads started and pinned
(`StartThreads`). Opening the counters, the distribution and the wait for a signal come between the last two
and have models of their own.

### How the code maps to `PerfCounters`

The main thread opens the events, spawns the workers, starts, joins, stops and reads, as
in `Experiment`, where the window is modelled with all its steps (`CountersSeeAllLoads`); here workers just
load and end in any order. The kernel is modelled from the attributes that `addEvent()` sets and the ioctls:
`disabled` (an event is off until it is enabled itself), the group (an event counts only while its leader is
on), `inherit` (a thread is born with copies of its creator's events). Any open or read may fail. A free
descriptor may be 0, which `start()` takes for no leader. `stop()` passes no argument to its ioctl, so the
kernel may read the flag for the whole group from it or not.

### How the code maps to `Startup`

`launcher` and `child` are the program counters of the two processes. The launcher parses, forks and waits;
the child takes `SCHED_FIFO`, pins itself, lowers its nice value and calls `execv()`, after which it is the
benchmark: `SetUp`, then with `-w` `SetHandler` and `Pause`, then `Experiment`. Every call that may fail
may fail. `Signal` is a SIGUSR1 from outside, at any time after the fork (the launcher's own `kill()` is
commented out); what it does depends on whether the handler is installed and whether the child is in
`pause()`. `heard` remembers where the child was at each signal. Wait statuses are numbers, `Exited(n)` is
256 n, because the launcher returns the status itself.

`Instance` puts `PerfCounters` into this child. The events are opened during `"setup"`, by the process that then waits
for its signal; start, workers, stop and read are steps of `"test"`. `error()` ends the process with status 1
(`OpenFails`, `CountersFail`), everything else that fails before or during the test ends it as `Startup` says
(`SetUpFails`, `TestFails`), and once it is dead no counter is touched.

## 3. What the runs check

Thread variant (`Experiment`), for every interleaving of main thread, workers and handler:

* `QuietSetup`: no thread reads the buffer until all have been let loose, so the wipe, the timer and the
  counters start on quiet threads.
* `StaysInSubpath`, `CountsWholeLaps`: a thread never leaves its subpath, and its access count always is
  whole laps plus position, or whole laps plus the one load that read -1. So the reported count means
  the same wherever the handler caught the thread.
* `OverrunBounded`: after the handler's write a thread makes at most one lap.
* `CountersSeeAllLoads`: counters are enabled before the first load and disabled after the last.
* `ReportIsFinal`: results are written when all threads and the handler have ended, with final counts.
* `KeepsPromise`: refinement of `Benchmark`.
* `Terminates` (in `ScheduledExperiment`): a run ends, *if* the threads are time-shared or there is a CPU for each of
  them and for `main()` (`CpusFor`). Under the launcher's schedule it does not, see `launched` below.
* `StopIsHeard`: once the alarm has gone off every thread hears of it, under every schedule.

Fibre variant: `OnOwnCluster` (a fibre loads entries of a subpath only on that subpath's cluster),
`CountGivesPosition`, `OverrunBounded` (with all subpaths broken, a migrating fibre stops within a lap of
one subpath), `CountersSeeAllLoads`, `ReportIsFinal`, `QuietSetup`, `KeepsPromise`; `Terminates` and
`StopIsHeard`, both for schedules with enough CPUs: with fewer, an idle worker that the kernel picks for the handler may
never get a CPU from the fibres that the handler is to stop. Nor is such a handler waited for, as `join()` is of fibres:
`ReportIsFinal` here says that at the report all fibres have ended with their final counts, and that a handler which is
still running is one on an idle worker, whose writes no fibre reads any more.

Distributions: `OneCycle`, `EveryLineOnce`, `SplitIntoCycles` of SUBPATH and `HandsOver`, the refinement to `ChasingPath`;
`LegacyClosed` (LINEAR and UNIFORM leave a cycle as long as they count, the cycles of UNIFORM and WUNI pass every word
taken, and WUNI, which counts draws, has at most one entry more than it counts), `SearchFindsKey` (the bounds of the
binary search meet at the line in whose share of the distribution the key lies), `LehmerStep` (each number is the
product modulo m, computed without the product, and never m itself unless it was the seed), `Finishes` (all
this ends, unless the generator was seeded with its modulus).

Setup: `ParsedAsGiven` and `RejectsWithReason` (the parser against a definition that reads the list off
at once), `WipeCoversWorkers` (a worker runs only on CPUs whose caches were wiped), `PinnedAsAsked`,
`OutOfBoundsOnlyWithoutC`, `BufferMapped` (the data lies in pages that were allocated and wiped), `ContiguousSlabs`
(slabs are consecutive frames, and are found if there are any).

Counters: `FirstEventSeesAllLoads`, `EveryEventSeesAllLoads`. Start: `MeasuresOnSignal` (with `-w` nothing
is measured, and no worker exists, before a signal that came during `pause()`), `RunsAsPrepared`,
`StatusTellsKilledOnly` (what the launcher's exit code tells: killed or not, and nothing else).

| run | instance | why it is enough |
|---|---|---|
| `experiment` | 3 subpaths of 3, 2 and 1 entries, 3 threads, two on the first, none on the second, counters, `MaxLoads` 4 | two threads share a subpath, one has a subpath of a single entry (a self-loop), one subpath has no thread; 4 unbroken loads give more than a lap everywhere, after the break loads are not bounded; schedules: time-shared, real-time on one CPU, on one for each worker, and on one for `main()` as well |
| `fibre_migrate` | 2 clusters with 2 and 1 workers, 2 migrating fibres, `MaxLoads` 6 | subpaths of different lengths, fibres meet on either cluster, more than one lap of the whole path |
| `fibre_crowded` | 3 fibres on 2 workers, yielding | two fibres take turns on one worker, block at mutex and barrier; the worker may always take the same one, and the other gets it only after the alarm, as in builds that never yield; schedules: time-shared, real-time on one CPU and on three |
| `launched` | as `experiment`, real-time on one CPU | **violation**, see below |
| `fibre_serial` | as `fibre_crowded` | **violation**, see below |
| `distributions` | twenty command lines, generator 2v mod 13 | 1 to 3 chunks, offsets, lines that do not divide, zipf chunks filled to the last word, torn words in the next chunk and behind the buffer, slabs, all shuffles, rankings, draws and seeds, the modulus among the seeds |
| `chain_factor` | `-b 2` | **violation**, see below |
| `setup` | one part has every input, the others a plain one: lists of up to 6 tokens; pinnings of 1 or 2 subpaths on 2 CPUs with `CPU_SETSIZE` 3; 18 buffers on 8 frames; options at their limits | the parts share no state but the order and the exits; 5 tokens exceed the limit of events, 6 hold four events of which two have masks; CPUs that are there, are not, and are out of range; items per thread and per subpath; runs of one to three pages, sizes beyond an int, offsets to the end of the pool |
| `pinning`, `contiguous` | `-m` without `-C`; `-a` with two pages | **violations**, see below |
| `perf_siblings` | at most 2 events | **violation**, see below |
| `instance` | 5 arguments of `-c`, 4 nice values, up to 3 signals; 0 to 3 events, 2 workers, 4 loads, a descriptor 0 | a CPU that is there, is not, lies beyond the set, is negative; a nice value that becomes -1, one that hits the floor; a signal lost, one heard and one more; a leader, and siblings that are read before and after each other; symmetric in the workers, which nothing tells apart |

Bounds: `MaxLoads` caps the loads a worker makes *before* its path is broken (afterwards they are bounded
by `OverrunBounded` itself). It stands in the guard of `Load`: a fair run simply waits for the alarm, which
is what the program does as well. The length counted by the walk stops growing one past the size of the
buffer: by then the walk is in a circle. `MaxTokens` bounds the list of events, `MaxSignals` the signals
sent, `MaxItems` the ranks of `zipf()`. In `Setup.cfg` a page is 2 units, the pool 4, an unsigned int is
below 32 and a `size_t` below 1024. `TypeOK` includes the ranges of the barrier counters and of
`subpathIdx`; modules without one state their types in the invariants of their proofs.

Deadlock is checked everywhere; the end of a process, or waiting for a signal that does not come, is an
explicit stutter.

Fairness is stated in `ScheduledExperiment` and `ScheduledFibreExperiment`: a thread that has a CPU, or for which one
is free, gets its turn (weak fairness of its steps *on a CPU*), and so do the delivery of the timer signal and the
handler. A time-sharing scheduler and `alarm(2)` give that. A real-time thread whose CPU another one keeps is promised
nothing, which is why the busy loops make the schedule matter. There is no fairness between fibres of one
cluster: a dispatched fibre need not ever leave its worker. `DSpec` of `Distributions` has weak fairness of its one
thread.

### Disagreements found

* `launched`: usage() has "-d duration in seconds" (879), but an experiment that the launcher starts, as
  `cache_exp.sh` and `run.sh` do, does not end. `main()` is `SCHED_FIFO` on one CPU and spins until
  the workers have arrived (542, 704); these inherited policy and CPU and never run, not even to the line that would
  pin them elsewhere (518). The alarm is armed after that loop. (libfibre workers are pinned with `-C` from outside, 645,
  before the loop; that helps if other CPUs are named. So does the kernel's throttling of real-time threads, where it
  has not been turned off.)
* `fibre_serial`: the assertion at `cachetest.cc` 718 expects the main fibre to arrive last ("for main fibre
  to release the others", 672). A fibre counts itself (601) before it waits at the barrier (602), and the
  main fibre waits only for the count, so the fibre may be last.
* `chain_factor`: `collectPointerChasingSubpathInfo()` takes the slices from the
  data set size (186), the distribution takes its chunks from the buffer size (1192, `Distribution.cc` 578).
  With `-b 2` they differ, against the comment at 181-184; with `-Z` the start of the next slice need not be
  on the path, and the walk never ends.
* `perf_siblings`: every event is opened with `disabled = 1` (`Perf_Cachetest.cc` 37) and only the leader is
  enabled (109, without the flag for the group), so all results but the first are zero, though `start()` is
  declared to "Start counting" and up to four events may be given.
* `pinning`: usage() says that without `-C` threads are not pinned; with `-m` they inherit the pinning of
  the main thread (774). Measurements stay correct in one respect, which is proved: the caches of those
  CPUs are wiped.
* `contiguous`: usage() says `-a` requires contiguous memory; the contiguous pages are found and kept as
  slabs, but the data begins at the start of the buffer, and SUBPATH never looks at the slabs.

One more disagreement has no run, since it is in WUNI, which `main()` cannot choose: `Distribution.hpp` 58 and
`Distribution.cc` 302-305 describe a draw from a weighted distribution, but the binary search returns the last
middle it looked at (323) and not its bound. The bounds do meet at the line of the key (`SearchFindsKey`, proved
for every weight), the line used for the draw is that one or the one before, and the one before may have the weight 0.

Smaller things that the models record without a run: the sanity check at 1023 tests the wrong alternative;
"loop factor must be at least 0" (1171) can never be printed since the factor is unsigned, and `-d -1` is a
duration of 136 years; the list of arguments that the launcher passes on is cleared only in its first entry.
Two the proofs brought up. A data set that is no multiple of the cache line has slices that are not the chunks, as
with `-b` (15 words in lines of 4 for three subpaths: chunks of 4, slices of 5). And UNIFORM takes a word that
holds index 0 for a free one; if a slab lies at address 0 and the path begins elsewhere (an offset), the link to that
word is overwritten and the cycle loses entries.

## 4. What is proved

Invariants are proved for every value of the constants, under the ASSUMEs of the modules, along the
same lines: a strengthening that is inductive, one step per action, one lemma per part of it.

**`ExperimentProofs`**, for *every* number of subpaths, all positive lengths, every number of threads
and every assignment of threads to subpaths (in spawning order):

| theorem | statement |
|---|---|
| `Invariance` | `Spec => []IInv` |
| `HoweverStarted` | `ScheduledSpec => Spec /\ KeepsPromise /\ []ReportIsFinal`: whatever the schedule, all of this holds |
| `TypeCorrect`, `Confinement`, `Accounting`, `PromptStop`, `CountersComplete`, `FinalReport` | `Spec => []P` for `TypeOK`, `StaysInSubpath`, `CountsWholeLaps`, `OverrunBounded`, `CountersSeeAllLoads`, `ReportIsFinal` |
| `QuietMeasurement` | `Spec => QuietSetup` |
| `Refinement` | `Spec => KeepsPromise`: the thread variant implements `Benchmark` |

`MaxLoads` is any number, so the proofs do not depend on the bound. None of the properties is inductive
alone. `IInv` adds

* `BarrierInv`: `numAtBarrior` is the number of threads past the barrier (a cardinality). With it, `Gather`
  implies that all have arrived.
* `MainInv`: what the position of the main thread says of spawned, joined and arrived threads and of the flag.
* `WorkerInv`: a looping thread was let loose, a finished one read -1 and stored its count.
* `CounterInv`, `AlarmInv`: the counters are on while threads loop; the handler runs once, on a thread that
  has not ended. A thread that runs the handler cannot end, so it is not joined, which is why the report
  comes after the handler.
* `PathInv`: after the split the path is one cycle per subpath, but for first entries that hold -1, and these
  only after the alarm.
* `OverrunInv`: loads made since the break plus those left until the first entry is read do not exceed the
  length; a thread that has read -1 did so in a broken subpath.

`LoadTarget` is the lemma most proofs rest on: a load takes a thread to the next entry, to the first one, or,
from the first, to -1. The refinement maps `LetLoose`, `AlarmFires`, `Load`, `Leave`, `Report` and the error
exits to the actions of `Benchmark`, all others to stutters. What both experiments need of the path is in
`ChasingPathProofs`.

**`FibreExperimentProofs`**, for every number of fibres, workers and subpaths, with and without migration
and yielding: `Invariance`, `TypeCorrect`, `Clusters` (`OnOwnCluster`), `Position` (`CountGivesPosition`), `PromptStop`, `CountersComplete`,
`FinalReport`, `QuietMeasurement`, `HoweverStarted`, and `Refinement`: both variants implement the same `Benchmark`. The
invariant has the same parts and these of its own: `BarrierInv` ties *two* counters, `numAtBarrior` and the
places taken at the barrier, to the fibres that are past them, and says that a fibre loops only when the main
fibre is in as well; `RunInv` says that a worker runs a fibre of its own cluster that is not blocked, and no
two run the same; `StopInv` that a fibre stops only on the invalid index; `PositionInv` that the registers `subpathIdx`
and `curStep` are where `index` is, which is what a migrating fibre relies on. `Position` needs one more, `LapsInv`: the
count is a number of whole cycles, of the subpath or of all of them, plus the entries passed since; that the lengths of
the subpaths add up to positions that are distinct and grow (`Before`) is by induction over the subpaths.

**`DistributionsProofs`**, for every command line, all sizes, and whatever is shuffled and drawn:

* `Lehmer` (`DSpec => LehmerStep`), for every multiplier, modulus and seed as in `LehmerAssumption` and
  `PrimeAssumption`, by Schrage's decomposition (`Difference`, `NextValueCorrect`); `JainsConstants`: 16807 and
  2147483647 satisfy both. `SearchFinds` (`SearchFindsKey`), from `SearchInv`: the bounds enclose the line of the
  key. `RankReached`: a call of `zipf()` always finds a rank, since the number it pulls is below the sum that the
  first call took (`TotalInv`), which all ranks together reach.
* `LeavesOneCycle` (`OneCycle`) and `TakesEveryLineOnce` (`EveryLineOnce`), from `PathInvariant`: there are a sequence `p` of
  distinct words and boundaries `b`, such that each word of `p` is the index of the next and the part of `p` between two
  boundaries is the chunk of that number, beginning with its first word (`Segments`); the words behind are untouched.
  A shuffled chunk appends a permutation of its lines, a drawn one a word at a time, with ranks that `RankInv` bounds.
  `distribute()` closes `p`, and a closed sequence of distinct words is a cycle (`CycleIs`).
* `SlicesHold` (`SlicesHoldSubpaths`) and `SplitsIntoCycles` (`SplitIntoCycles`), from `WalkInvariant`: the walk stands at
  the entry of `p` that its length says, it has found the parts before (`Found`), and the split closes every one of them
  (`Parted`). `HandsOverPath` (`HandsOver`): entry `<<s, k>>` is `p[b[s] + k + 1]` (`WordIs`), which maps the links between and
  within the parts to those of `LinkedPath` and `SplitPath`. So `ExperimentProofs` and `FibreExperimentProofs`, which start
  from these paths of any lengths, hold of what the distribution leaves. The three hold of
  command lines with `SlicesAreChunks`, that is without `-b` and with a data set of whole lines; of others they need not,
  as `chain_factor` shows.
* `LegacyCycles` (`LegacyClosed`), from `LegacyInvariant`: LINEAR, UNIFORM and WUNI have, between rounds, an open string
  of distinct entries that ends at `previdx`, none of which but the first is the word of index 0. The words of index 0 are also
  the free ones, so without `NoSlabAtZero` (section 3) the property is false. That no word which was linked is lost
  (`Taken`) is what makes UNIFORM's and WUNI's cycles complete, and UNIFORM's count right.

**`PinningProofs`**, for every command line, any numbers of CPUs and any affinity `main()` is started with: `WipeCovers`, `AsAsked`, `BoundsWithC`.
`ParseInv` says that the sets made so far are those asked for, `RunInv` that the affinity of a worker is that of the
main thread before it pinned itself and its own set, or what the kernel leaves of it, afterwards.

**`SetupProofs`**, for all sizes, factors, offsets, pages, alignments and lists of events:

* `Mapped` (`BufferMapped`) from `BufferInv`: the pool exceeds the size by at least what aligning and the offset take,
  and the pages wiped are those from the address before aligning.
* `SlabsContiguous` (`ContiguousSlabs`) from `ContInvariant`: the map leads from frames to pages of the buffer (`MapInv`), the
  slabs are a run of frames (`SlabsInv`) that ends at the last frame looked at, could not have begun earlier, and no frame
  before it begins a run that is long enough (`FindInv`); so a search that ends without success has missed none
  (`EndInv`). The size has to be that of some data and no overflown int (`DataSized`), as in the property.
* `ParsesAsGiven` (`ParsedAsGiven`) and `RefusesWithReason` (`RejectsWithReason`), for lists of any length, from
  `ParserInvariant`: what the parser holds are the events among the tokens before `next`, these tokens are in their place, and
  `next` is not at the mask of an event id. A token that is one too many belongs to a list that has too many (`OneTooMany`).
* `SetupPins`, `SetupAllocates`, `SetupParses`: a behaviour of `main()` is one of `Pinning`, of `BufferAlloc` and of
  `EventParser`, whatever comes between their steps; hence `SetupSafe`, the properties of the parts for the whole.

**`PerfCountersProofs`**, for every number of events, every set of workers and of free descriptors:
`GroupCorrect` (`Spec => []TypeOK`) and `FirstResultComplete` (`Spec => []FirstEventSeesAllLoads`). The
property speaks of the end only; the invariant adds that past opening all events are open
(`PhaseInv`), that an open event counts the main thread and each worker born since (`CopiesInv`), that the
leader is on while workers are loose and holds the number of loads (`LeaderInv`; the reset is harmless since
none was made), and that what was read is what the leader holds (`ResultsInv`).

**`StartupProofs`**, for every set of CPUs, nice values and number of signals: `SignalHeard`, `Preparation`,
`ExitCode`, from `ProcessInv` (the two processes), `PreparedInv` (what the child has taken by which step) and
`SignalInv` (where signals can have been heard). `InstanceImplements`: an `Instance` implements both `Startup` and
`PerfCounters`, so what is proved of either holds of it; `MeasuredOnSignal` (`MeasuresOnSignal`) needs both, that no
counter is on before the test and that the test comes after the wait.

Assumptions beyond the types of the constants: at least one subpath, thread and fibre, positive lengths; `Stop` is no
entry and the names `Main` and `Nobody` are distinct; each cluster that gets fibres has a worker; frames 0 and 1 are
not given to the program; a `size_t` holds an int, the pool and the largest pages together.

Induction over paths, lists and sums is done with the least number (`Least`, `Upwards`): a set of naturals that is not
empty has a least member, because `<` is well-founded there.

Model-checked only is liveness (`Terminates`, `StopIsHeard`, `Finishes`), which the prover does not reach. All other
properties of the passing runs are stated by a theorem.

## 5. Not modelled

* libfibre, perf in the kernel, pthreads: external, modelled by their use where they matter.
* The `WRITEBACK` build, which writes to the word after each entry: no build file defines it.
* `DEBUG` output and `printPath()`; its assertions are part of `SplitIntoCycles`. The dumps of buffer,
  sequence and frames, and the opening of output files: plain output.
* The splitting of option strings into numbers; `stoi()` ends the process on what is no number.
* Failing pthread assertions on naming threads or reading affinities: they abort like the modelled exits.
* The rounding of floating point numbers in `zipf()`, and the Mersenne Twister (vendored): draws are choices.
* The PAPI back end, a wrapper of a library that holds all the state, and `Perf::parseEvents()`, which only
  it uses.
* The kernel modules and the tools under `util/`: privileged register access, and copies from the Linux
  tree; they are no part of the program. The shell scripts around it.

## 6. Plan

Done: the experiments with their abstract specification and their scheduling, the path and all distributions, the
generator, the setup from the options to the pinned threads, the counters, the launcher and an instance with its
counters, a theorem for every safety property that the runs check, and the refinement from the words of the buffer to
the path of the experiments. Left: several instances that are started by one signal each; the pinning of workers
to CPUs other than the launcher's as part of `Scheduling`.
