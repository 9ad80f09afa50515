------------------------------- MODULE Pinning ------------------------------
(* The CPUs of the threads: Parse_options() makes a set of CPUs for each    *)
(* worker of the options -T, -F, -C and -I and the set whose caches are to  *)
(* be wiped; main() pins itself (-m), creates the workers, which inherit    *)
(* its pinning until each is pinned by its own set; evictCacheEntries()     *)
(* goes round the CPUs and restores the pinning of the main thread.         *)
EXTENDS Integers, Sequences

CONSTANTS
  PinCommands,  \* command lines, see PinAssumption
  CPUs,         \* number of CPUs: 0 .. CPUs - 1 are there
  SetSize       \* CPU_SETSIZE

\* An item of -C: the CPUs of all threads of a subpath, or, with "~", those
\* of each. A list of CPUs is a CSV or a range, which may be empty ("3-1").
Items(c) == {c.items[k] : k \in DOMAIN c.items}
ASSUME PinAssumption ==
  /\ CPUs \in Nat \ {0} /\ SetSize \in Nat \ {0}
  /\ \A c \in PinCommands :
       /\ c.threads \in Seq(Nat) /\ c.threads # <<>>    \* -T
       /\ c.fibres \in Seq(Nat)                         \* -F, <<>>: threads
       /\ c.individual \in BOOLEAN                      \* -I
       /\ c.main \in Seq(Nat)                           \* -m
       /\ c.items \in Seq([perThread : BOOLEAN, lists : Seq(Seq(Nat))])
       /\ \A item \in Items(c) :
            Len(item.lists) > 0 /\ (~item.perThread => Len(item.lists) = 1)

VARIABLES
  cmd,        \* the command line
  started,    \* the CPUs the process is started on: the launcher pins it
  pin,        \* "options", "items", "sets", "unique", "parsed"; "spawn",
              \* "workers", "wipe", "ready"; "aborted" (an assertion),
              \* "exited" or "undefined" (an access past the end of a vector)
  cpuIdSets,  \* the sets of CPUs of the workers of each subpath
  uniqueWorkerCPUIdSet,
  affinity,   \* the CPUs of each thread
  pinned,     \* workers that are through with setThreadAffinity()
  wiped       \* CPUs whose caches are wiped

optVars == <<cpuIdSets, uniqueWorkerCPUIdSet>>
runVars == <<affinity, pinned, wiped>>
given == <<cmd, started>>
pinVars == <<given, pin, optVars, runVars>>

Present == 0..(CPUs - 1)
NumSubpaths == Len(cmd.threads)
Subpaths == 1..NumSubpaths
Workers == UNION {{<<i, j>> : j \in 1..cmd.threads[i]} : i \in Subpaths}
Main == <<0, 0>>
SetOf(list) == {list[k] : k \in DOMAIN list}
Distinct(list) == \A k, l \in DOMAIN list : list[k] = list[l] => k = l

PinInit ==
  /\ cmd \in PinCommands
  /\ pin = "options"
  /\ cpuIdSets = <<>> /\ uniqueWorkerCPUIdSet = {}
  /\ started \in SUBSET Present \ {{}}
  /\ affinity = [t \in {Main} |-> started]
  /\ pinned = {} /\ wiped = {}

-----------------------------------------------------------------------------
(* Parse_options().                                                         *)

CountsAgree ==
  /\ pin = "options"
  /\ pin' = IF cmd.fibres # <<>> /\ Len(cmd.fibres) # NumSubpaths THEN "aborted"
            ELSE IF cmd.items # <<>> THEN "items" ELSE "sets"
  /\ UNCHANGED <<optVars, runVars>>

\* The sanity checks: an item for all threads is not empty (of the lists of
\* single threads nothing is asked, their check looks at the wrong member of
\* the pair); there is a CPU, and none beyond CPU_SETSIZE; there are one or
\* as many items as subpaths.
ItemsPass ==
  LET ids == UNION {UNION {SetOf(item.lists[k]) : k \in DOMAIN item.lists}
                      : item \in Items(cmd)}
  IN  /\ \A item \in Items(cmd) : item.perThread \/ item.lists[1] # <<>>
      /\ ids # {} /\ \A id \in ids : id < SetSize
      /\ Len(cmd.items) \in {1, NumSubpaths}
CheckItems ==
  /\ pin = "items"
  /\ pin' = IF ItemsPass THEN "sets" ELSE "aborted"
  /\ UNCHANGED <<optVars, runVars>>

\* cpuIdsList: a single item stands for every subpath.
ItemOf(i) == IF Len(cmd.items) = 1 THEN cmd.items[1] ELSE cmd.items[i]

\* The three ways to read an item, and what is asserted of each.
\* Mutant: the number of CPUs need not be the number of threads.
SetsPassUncounted(i) == \A k \in DOMAIN ItemOf(i).lists : Distinct(ItemOf(i).lists[k])
SetsPass(i) ==
  LET item == ItemOf(i)
  IN  IF item.perThread
      THEN /\ Len(item.lists) = cmd.threads[i]
           /\ \A k \in DOMAIN item.lists : Distinct(item.lists[k])
      ELSE IF cmd.individual THEN Len(item.lists[1]) = cmd.threads[i]
      ELSE Distinct(item.lists[1])
SetsFor(i) ==
  LET item == ItemOf(i)
  IN  IF item.perThread
      THEN [k \in DOMAIN item.lists |-> SetOf(item.lists[k])]
      ELSE IF cmd.individual
      THEN [k \in DOMAIN item.lists[1] |-> {item.lists[1][k]}]
      ELSE [j \in 1..cmd.threads[i] |-> SetOf(item.lists[1])]

\* Without -C the sets are empty, as many as there are fibres.
EmptySetsFor(i) ==
  [j \in 1..(IF cmd.fibres # <<>> THEN cmd.fibres[i] ELSE cmd.threads[i]) |-> {}]

\* The sets of the next subpath.
BuildSets ==
  LET i == Len(cpuIdSets) + 1
  IN  /\ pin = "sets" /\ i <= NumSubpaths
      /\ IF cmd.items # <<>> /\ ~SetsPass(i)
         THEN pin' = "aborted" /\ UNCHANGED cpuIdSets
         ELSE /\ cpuIdSets' = Append(cpuIdSets, IF cmd.items # <<>> THEN SetsFor(i)
                                                ELSE EmptySetsFor(i))
              /\ UNCHANGED pin
      /\ UNCHANGED <<uniqueWorkerCPUIdSet, runVars>>

\* The CPUs a worker may run on: a worker without a set can run anywhere, and
\* the rest of its subpath is not looked at.
\* Mutant: a worker without a set adds none.
CollectedPinned(sets) == UNION SetOf(sets)
Collected(sets) ==
  (UNION {sets[j] : j \in {k \in DOMAIN sets : \A l \in 1..k : sets[l] # {}}})
    \cup (IF \E j \in DOMAIN sets : sets[j] = {} THEN Present ELSE {})
CollectUnique ==
  /\ pin = "sets" /\ Len(cpuIdSets) = NumSubpaths
  /\ uniqueWorkerCPUIdSet' = UNION {Collected(cpuIdSets[i]) : i \in Subpaths}
  /\ pin' = "parsed"
  /\ UNCHANGED <<cpuIdSets, runVars>>

ParseStep == CountsAgree \/ CheckItems \/ BuildSets \/ CollectUnique

-----------------------------------------------------------------------------
(* main(), threadTest() or fibreTest(), and evictCacheEntries().            *)

\* setThreadAffinity(): the kernel refuses a set without a CPU that is there.
Affinity(t, set) ==
  IF set = {} THEN UNCHANGED <<pin, affinity>>
  ELSE IF set \cap Present = {} THEN pin' = "aborted" /\ UNCHANGED affinity
  ELSE affinity' = [affinity EXCEPT ![t] = set \cap Present] /\ UNCHANGED pin

PinMain ==
  /\ pin = "parsed"
  /\ IF SetOf(cmd.main) = {} \/ SetOf(cmd.main) \cap Present # {}
     THEN /\ pin' = "spawn"
          /\ affinity' = [affinity EXCEPT ![Main] =
                            IF cmd.main = <<>> THEN @ ELSE SetOf(cmd.main) \cap Present]
     ELSE pin' = "aborted" /\ UNCHANGED affinity
  /\ UNCHANGED <<optVars, pinned, wiped>>

\* A new thread has the affinity of the thread that creates it.
SpawnWorkers ==
  /\ pin = "spawn"
  /\ affinity' = [t \in {Main} \cup Workers |-> affinity[Main]]
  /\ pin' = "workers"
  /\ UNCHANGED <<optVars, pinned, wiped>>

\* Threads pin themselves, in any order; the main fibre pins its workers.
Before(v, w) == v[1] < w[1] \/ (v[1] = w[1] /\ v[2] < w[2])
PinWorker(w) ==
  /\ pin = "workers" /\ w \notin pinned
  /\ cmd.fibres # <<>> => \A v \in Workers : Before(v, w) => v \in pinned
  /\ pinned' = pinned \cup {w}
  /\ IF w[2] > Len(cpuIdSets[w[1]])
     THEN pin' = "undefined" /\ UNCHANGED affinity
     ELSE Affinity(w, cpuIdSets[w[1]][w[2]])
  /\ UNCHANGED <<optVars, wiped>>

\* The assertion, and the allocation of 1 GB, which may fail.
BeginWipe ==
  /\ pin = "workers" /\ pinned = Workers
  /\ IF uniqueWorkerCPUIdSet = {} THEN pin' = "aborted"
     ELSE pin' \in {"wipe", "exited"}
  /\ UNCHANGED <<optVars, runVars>>

\* The main thread pins itself to the next CPU and writes the memory.
WipeCPU(cpu) ==
  /\ pin = "wipe" /\ cpu \in uniqueWorkerCPUIdSet \ wiped
  /\ wiped' = IF cpu \in Present THEN wiped \cup {cpu} ELSE wiped
  /\ Affinity(Main, {cpu})
  /\ UNCHANGED <<optVars, pinned>>

\* cpusetOriginal, which was read before the wipe.
\* Mutant: it is not restored.
OriginalForgotten == affinity[Main]
Original == IF cmd.main = <<>> THEN started ELSE SetOf(cmd.main) \cap Present
EndWipe ==
  /\ pin = "wipe" /\ wiped = uniqueWorkerCPUIdSet
  /\ affinity' = [affinity EXCEPT ![Main] = Original]
  /\ pin' = "ready"
  /\ UNCHANGED <<optVars, pinned, wiped>>

RunStep ==
  \/ PinMain \/ SpawnWorkers \/ BeginWipe \/ EndWipe
  \/ \E w \in Workers : PinWorker(w)
  \/ \E cpu \in uniqueWorkerCPUIdSet : WipeCPU(cpu)

PinOver == pin \in {"ready", "aborted", "exited", "undefined"}
PinNext ==
  \/ (ParseStep \/ RunStep) /\ UNCHANGED given
  \/ PinOver /\ UNCHANGED pinVars
PinSpec == PinInit /\ [][PinNext]_pinVars

-----------------------------------------------------------------------------
\* When the experiment begins the caches of every CPU that a worker can run
\* on have been wiped, however the workers came to their CPUs: by -C, by the
\* pinning of the main thread, or by that of the process.
WipeCoversWorkers ==
  pin = "ready" => \A w \in Workers : affinity[w] \subseteq wiped

\* What usage() says of -C, -I and -m: the CPUs of subpath i, or of its j-th
\* thread, are those of its item; the main thread has those of -m again, or
\* those the process was started on.
Asked(i, j) ==
  LET item == cmd.items[IF Len(cmd.items) = 1 THEN 1 ELSE i]
  IN  IF item.perThread THEN item.lists[j]
      ELSE IF cmd.individual THEN <<item.lists[1][j]>> ELSE item.lists[1]
MainAsked == IF cmd.main = <<>> THEN started ELSE SetOf(cmd.main) \cap Present
PinnedAsAsked ==
  pin = "ready" =>
    /\ affinity[Main] = MainAsked
    /\ cmd.items # <<>> =>
         \A w \in Workers :
           affinity[w] = IF Asked(w[1], w[2]) = <<>> THEN MainAsked
                         ELSE SetOf(Asked(w[1], w[2])) \cap Present

\* Only without -C, and with fewer fibres than workers on some subpath, does
\* a worker index past the end of the sets of its subpath.
OutOfBoundsOnlyWithoutC ==
  pin = "undefined" =>
    /\ cmd.items = <<>>
    /\ \E i \in DOMAIN cmd.fibres : cmd.fibres[i] < cmd.threads[i]

\* usage() of -C: "(default: not pinned)", the CPUs the process was given.
NotPinnedByDefault ==
  pin = "ready" /\ cmd.items = <<>> => \A w \in Workers : affinity[w] = started
=============================================================================
