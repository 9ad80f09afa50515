--------------------------- MODULE PinningProofs ----------------------------
(* The properties of Pinning for every command line: what the workers are   *)
(* given is what was asked for, the sets are never too short when there are *)
(* some, and no worker runs on a CPU whose caches were not wiped.           *)
EXTENDS Pinning, TLAPS

Parsed == {"parsed", "spawn", "workers", "wipe", "ready", "undefined"}
Parsing == {"options", "items", "sets"}
Pins == Parsing \cup Parsed \cup {"aborted", "exited"}

\* The sets of a subpath are those asked for, one for each worker; without -C
\* there are as many as fibres.
SetsMade(i, sets) ==
  /\ sets \in Seq(SUBSET Nat)
  /\ cmd.items # <<>> =>
       /\ Len(sets) = cmd.threads[i]
       /\ \A j \in 1..cmd.threads[i] :
            Asked(i, j) \in Seq(Nat) /\ sets[j] = SetOf(Asked(i, j))
  /\ cmd.items = <<>> =>
       Len(sets) = IF cmd.fibres # <<>> THEN cmd.fibres[i] ELSE cmd.threads[i]

ParseInv ==
  /\ cmd \in PinCommands /\ pin \in Pins
  /\ cpuIdSets \in Seq(Seq(SUBSET Nat)) /\ Len(cpuIdSets) <= NumSubpaths
  /\ \A i \in 1..Len(cpuIdSets) : SetsMade(i, cpuIdSets[i])
  /\ pin \notin {"options", "aborted"} =>
       cmd.fibres = <<>> \/ Len(cmd.fibres) = NumSubpaths
  /\ pin = "items" => cmd.items # <<>>
  /\ pin = "sets" /\ cmd.items # <<>> => Len(cmd.items) \in {1, NumSubpaths}
  /\ pin \in Parsed =>
       /\ Len(cpuIdSets) = NumSubpaths
       /\ uniqueWorkerCPUIdSet = UNION {Collected(cpuIdSets[i]) : i \in Subpaths}

\* The CPUs of a pinned worker.
SetGiven(w) == cpuIdSets[w[1]][w[2]]
Given(w) == IF SetGiven(w) = {} THEN MainAsked ELSE SetGiven(w) \cap Present

RunInv ==
  /\ started \subseteq Present
  /\ pinned \subseteq Workers
  /\ pin \in Parsing \cup {"parsed"} => affinity = [t \in {Main} |-> started]
  /\ pin = "spawn" => affinity = [t \in {Main} |-> MainAsked]
  /\ pin \in Parsing \cup {"parsed", "spawn"} => pinned = {}
  /\ pin \in {"workers", "wipe", "ready"} =>
       /\ affinity \in [{Main} \cup Workers -> SUBSET Nat]
       /\ \A w \in Workers \ pinned : affinity[w] = MainAsked
       /\ \A w \in pinned : w[2] <= Len(cpuIdSets[w[1]]) /\ affinity[w] = Given(w)
  /\ pin \in {"workers", "ready"} => affinity[Main] = MainAsked
  /\ pin \in {"wipe", "ready"} => pinned = Workers
  /\ pin = "ready" => wiped = uniqueWorkerCPUIdSet
  /\ pin = "undefined" => \E w \in Workers : w[2] > Len(cpuIdSets[w[1]])

PInv == ParseInv /\ RunInv

-----------------------------------------------------------------------------
LEMMA ElementOfSeq ==
  ASSUME NEW R, NEW q \in Seq(R), NEW k \in 1..Len(q)
  PROVE  q[k] \in R
OBVIOUS
LEMMA FunctionIsSeq ==
  ASSUME NEW R, NEW n \in Nat, NEW f \in [1..n -> R]
  PROVE  f \in Seq(R) /\ Len(f) = n
OBVIOUS

LEMMA EmptySet ==
  ASSUME NEW l \in Seq(Nat)
  PROVE  SetOf(l) = {} <=> l = <<>>
<1>1. CASE Len(l) = 0
  <2>1. l = <<>>
    BY <1>1
  <2> QED
    BY <2>1 DEF SetOf
<1>2. CASE Len(l) # 0
  <2>1. 1 \in DOMAIN l
    BY <1>2
  <2>2. l[1] \in SetOf(l)
    BY <2>1 DEF SetOf
  <2>3. l # <<>>
    BY <1>2
  <2> QED
    BY <2>2, <2>3
<1> QED
  BY <1>1, <1>2

\* What PinAssumption says of one command line.
LEMMA Command ==
  ASSUME NEW c \in PinCommands
  PROVE  /\ c.threads \in Seq(Nat) /\ c.fibres \in Seq(Nat) /\ c.main \in Seq(Nat)
         /\ c.individual \in BOOLEAN
         /\ c.items \in Seq([perThread : BOOLEAN, lists : Seq(Seq(Nat))])
         /\ \A k \in 1..Len(c.items) :
              Len(c.items[k].lists) > 0 /\ (~c.items[k].perThread => Len(c.items[k].lists) = 1)
BY PinAssumption DEF Items

LEMMA SetOfNat == ASSUME NEW l \in Seq(Nat) PROVE SetOf(l) \subseteq Nat
BY DEF SetOf

LEMMA WorkerPairs ==
  ASSUME NEW w \in Workers, cmd \in PinCommands
  PROVE  /\ w[1] \in Subpaths /\ w[2] \in 1..cmd.threads[w[1]] /\ w # Main
         /\ w = <<w[1], w[2]>>
<1>1. cmd.threads \in Seq(Nat)
  BY Command
<1>2. PICK i \in Subpaths : \E j \in 1..cmd.threads[i] : w = <<i, j>>
  BY DEF Workers
<1>3. PICK j \in 1..cmd.threads[i] : w = <<i, j>>
  BY <1>2
<1>4. i \in 1..Len(cmd.threads) /\ Len(cmd.threads) \in Nat
  BY <1>1 DEF Subpaths, NumSubpaths
<1>5. w # Main
  BY <1>3, <1>4 DEF Main
<1> QED
  BY <1>2, <1>3, <1>5

\* BuildSets makes the sets that were asked for.
LEMMA SetsForMade ==
  ASSUME ParseInv, pin = "sets", NEW i \in Subpaths, cmd.items # <<>>, SetsPass(i)
  PROVE  SetsMade(i, SetsFor(i))
<1> DEFINE k == IF Len(cmd.items) = 1 THEN 1 ELSE i
           item == cmd.items[k]
<1>1. /\ cmd.threads \in Seq(Nat) /\ cmd.individual \in BOOLEAN
      /\ cmd.items \in Seq([perThread : BOOLEAN, lists : Seq(Seq(Nat))])
  BY Command DEF ParseInv
<1>2. k \in 1..Len(cmd.items)
  <2>1. i \in 1..NumSubpaths /\ Len(cmd.items) \in {1, NumSubpaths}
    BY DEF ParseInv, Subpaths
  <2>2. NumSubpaths \in Nat
    BY <1>1 DEF NumSubpaths
  <2> QED
    BY <2>1, <2>2
<1>a. cmd \in PinCommands
  BY DEF ParseInv
<1>3. /\ item \in [perThread : BOOLEAN, lists : Seq(Seq(Nat))]
      /\ Len(item.lists) > 0 /\ (~item.perThread => Len(item.lists) = 1)
  <2>1. item \in [perThread : BOOLEAN, lists : Seq(Seq(Nat))]
    <3> HIDE DEF k
    <3>1. cmd.items \in Seq([perThread : BOOLEAN, lists : Seq(Seq(Nat))])
      BY <1>1
    <3> QED
      BY <3>1, <1>2, ElementOfSeq
  <2>2. Len(item.lists) > 0 /\ (~item.perThread => Len(item.lists) = 1)
    BY <1>a, <1>2, Command
  <2> QED
    BY <2>1, <2>2
<1>4. ItemOf(i) = item
  BY DEF ItemOf
<1>5. \A j : Asked(i, j) =
        IF item.perThread THEN item.lists[j]
        ELSE IF cmd.individual THEN <<item.lists[1][j]>> ELSE item.lists[1]
  BY DEF Asked
<1>6. cmd.threads[i] \in Nat /\ item.lists[1] \in Seq(Nat)
  <2>1. item.lists \in Seq(Seq(Nat)) /\ 1 \in 1..Len(item.lists)
    BY <1>3
  <2>2. item.lists[1] \in Seq(Nat)
    BY <2>1, ElementOfSeq
  <2>3. cmd.threads \in Seq(Nat) /\ i \in 1..Len(cmd.threads)
    BY <1>1 DEF Subpaths, NumSubpaths
  <2>4. cmd.threads[i] \in Nat
    BY <2>3, ElementOfSeq
  <2> QED
    BY <2>2, <2>4
<1> HIDE DEF item
<1>7. CASE item.perThread
  <2>1. SetsFor(i) = [j \in DOMAIN item.lists |-> SetOf(item.lists[j])]
    BY <1>4, <1>7 DEF SetsFor
  <2>2. Len(item.lists) = cmd.threads[i]
    BY <1>4, <1>7 DEF SetsPass
  <2>3. DOMAIN item.lists = 1..cmd.threads[i] /\ \A j \in 1..cmd.threads[i] : item.lists[j] \in Seq(Nat)
    BY <1>3, <2>2
  <2>4. \A j \in 1..cmd.threads[i] : SetOf(item.lists[j]) \in SUBSET Nat
    BY <2>3, SetOfNat
  <2>5. SetsFor(i) \in Seq(SUBSET Nat) /\ Len(SetsFor(i)) = cmd.threads[i]
    <3>1. SetsFor(i) \in [1..cmd.threads[i] -> SUBSET Nat]
      BY <2>1, <2>3, <2>4
    <3> QED
      BY <3>1, <1>6, FunctionIsSeq
  <2>6. \A j \in 1..cmd.threads[i] :
          Asked(i, j) \in Seq(Nat) /\ SetsFor(i)[j] = SetOf(Asked(i, j))
    BY <2>1, <2>3, <1>5, <1>7
  <2> QED
    BY <2>5, <2>6 DEF SetsMade
<1>8. CASE ~item.perThread /\ cmd.individual
  <2>1. SetsFor(i) = [j \in DOMAIN item.lists[1] |-> {item.lists[1][j]}]
    BY <1>4, <1>8 DEF SetsFor
  <2>2. Len(item.lists[1]) = cmd.threads[i]
    BY <1>4, <1>8 DEF SetsPass
  <2>3. DOMAIN item.lists[1] = 1..cmd.threads[i] /\ \A j \in 1..cmd.threads[i] : item.lists[1][j] \in Nat
    BY <1>6, <2>2
  <2>5. SetsFor(i) \in Seq(SUBSET Nat) /\ Len(SetsFor(i)) = cmd.threads[i]
    <3>1. \A j \in 1..cmd.threads[i] : {item.lists[1][j]} \in SUBSET Nat
      BY <2>3
    <3>2. SetsFor(i) \in [1..cmd.threads[i] -> SUBSET Nat]
      BY <2>1, <2>3, <3>1
    <3> QED
      BY <3>2, <1>6, FunctionIsSeq
  <2>6. \A j \in 1..cmd.threads[i] :
          Asked(i, j) \in Seq(Nat) /\ SetsFor(i)[j] = SetOf(Asked(i, j))
    <3> SUFFICES ASSUME NEW j \in 1..cmd.threads[i]
                 PROVE Asked(i, j) \in Seq(Nat) /\ SetsFor(i)[j] = SetOf(Asked(i, j))
      OBVIOUS
    <3>1. SetsFor(i)[j] = {item.lists[1][j]}
      BY <2>1, <2>3
    <3>2. Asked(i, j) = <<item.lists[1][j]>>
      BY <1>5, <1>8
    <3> QED
      BY <2>3, <3>1, <3>2 DEF SetOf
  <2> QED
    BY <2>5, <2>6 DEF SetsMade
<1>9. CASE ~item.perThread /\ ~cmd.individual
  <2>1. SetsFor(i) = [j \in 1..cmd.threads[i] |-> SetOf(item.lists[1])]
    BY <1>4, <1>9 DEF SetsFor
  <2>2. SetOf(item.lists[1]) \in SUBSET Nat
    BY <1>6, SetOfNat
  <2>5. SetsFor(i) \in Seq(SUBSET Nat) /\ Len(SetsFor(i)) = cmd.threads[i]
    <3>1. SetsFor(i) \in [1..cmd.threads[i] -> SUBSET Nat]
      BY <2>1, <2>2
    <3> QED
      BY <3>1, <1>6, FunctionIsSeq
  <2>6. \A j \in 1..cmd.threads[i] :
          Asked(i, j) \in Seq(Nat) /\ SetsFor(i)[j] = SetOf(Asked(i, j))
    BY <2>1, <1>5, <1>6, <1>9
  <2> QED
    BY <2>5, <2>6 DEF SetsMade
<1> QED
  BY <1>7, <1>8, <1>9

\* The sets that were made stay as asked while nothing is changed.
LEMMA AllSetsMadeStay ==
  ASSUME ParseInv, cmd' = cmd, cpuIdSets' = cpuIdSets
  PROVE  (\A i \in 1..Len(cpuIdSets) : SetsMade(i, cpuIdSets[i]))'
<1> SUFFICES ASSUME NEW i \in 1..Len(cpuIdSets) PROVE SetsMade(i, cpuIdSets[i])'
  OBVIOUS
<1>1. SetsMade(i, cpuIdSets[i])
  BY DEF ParseInv
<1>2. ASSUME NEW j PROVE Asked(i, j)' = Asked(i, j)
  BY DEF Asked
<1> QED
  BY <1>1, <1>2 DEF SetsMade

LEMMA EmptySetsForMade ==
  ASSUME ParseInv, pin = "sets", NEW i \in Subpaths, cmd.items = <<>>
  PROVE  SetsMade(i, EmptySetsFor(i))
<1> DEFINE n == IF cmd.fibres # <<>> THEN cmd.fibres[i] ELSE cmd.threads[i]
<1>1. cmd.threads \in Seq(Nat) /\ cmd.fibres \in Seq(Nat)
  BY Command DEF ParseInv
<1>2. n \in Nat
  <2>1. i \in 1..Len(cmd.threads)
    BY DEF Subpaths, NumSubpaths
  <2>2. cmd.fibres = <<>> \/ Len(cmd.fibres) = Len(cmd.threads)
    BY DEF ParseInv, NumSubpaths
  <2>3. cmd.threads[i] \in Nat /\ (cmd.fibres # <<>> => cmd.fibres[i] \in Nat)
    BY <1>1, <2>1, <2>2, ElementOfSeq
  <2> QED
    BY <2>3
<1>3. EmptySetsFor(i) = [j \in 1..n |-> {}]
  BY DEF EmptySetsFor
<1> HIDE DEF n
<1>4. EmptySetsFor(i) \in Seq(SUBSET Nat) /\ Len(EmptySetsFor(i)) = n
  BY <1>2, <1>3
<1> QED
  BY <1>4 DEF SetsMade, n

\* A set that was made is among the CPUs collected, as far as they are
\* there, and with a set that is empty so is every CPU.
LEMMA CollectedAll ==
  ASSUME NEW sets \in Seq(SUBSET Nat), NEW j \in 1..Len(sets)
  PROVE  /\ sets[j] \cap Present \subseteq Collected(sets)
         /\ sets[j] = {} => Present \subseteq Collected(sets)
<1>1. CASE \E k \in DOMAIN sets : sets[k] = {}
  <2>1. Present \subseteq Collected(sets)
    BY <1>1 DEF Collected
  <2> QED
    BY <2>1
<1>2. CASE ~\E k \in DOMAIN sets : sets[k] = {}
  <2>1. DOMAIN sets = 1..Len(sets)
    OBVIOUS
  <2>2. \A l \in 1..j : l \in DOMAIN sets
    BY <2>1
  <2>3. j \in {k \in DOMAIN sets : \A l \in 1..k : sets[l] # {}}
    BY <1>2, <2>1, <2>2
  <2>4. sets[j] \subseteq Collected(sets)
    BY <2>3 DEF Collected
  <2> QED
    BY <1>2, <2>1, <2>4
<1> QED
  BY <1>1, <1>2

-----------------------------------------------------------------------------
LEMMA InitInv == PinInit => PInv
<1> SUFFICES ASSUME PinInit PROVE PInv
  OBVIOUS
<1>1. cmd.threads \in Seq(Nat)
  BY Command DEF PinInit
<1>2. ParseInv
  BY <1>1 DEF PinInit, ParseInv, Pins, Parsing, Parsed, NumSubpaths
<1>3. RunInv
  BY DEF PinInit, RunInv, Parsing
<1> QED
  BY <1>2, <1>3 DEF PInv

\* Each step of Parse_options() preserves the invariant.
LEMMA ParseStepInv == PInv /\ ParseStep /\ UNCHANGED given => PInv'
<1> SUFFICES ASSUME PInv, ParseStep, UNCHANGED given PROVE PInv'
  OBVIOUS
<1> USE DEF Parsing, Parsed, Pins, optVars, runVars, given
<1>0. /\ NumSubpaths \in Nat /\ NumSubpaths' = NumSubpaths
      /\ Subpaths' = Subpaths /\ Workers' = Workers /\ MainAsked' = MainAsked
  <2>1. cmd.threads \in Seq(Nat)
    BY Command DEF PInv, ParseInv
  <2> QED
    BY <2>1 DEF NumSubpaths, Subpaths, Workers, MainAsked
<1>1. CASE CountsAgree
  <2>1. ParseInv'
    <3>1. \A i \in 1..Len(cpuIdSets) : SetsMade(i, cpuIdSets[i])'
      BY <1>1, AllSetsMadeStay DEF PInv, CountsAgree
    <3> QED
      BY <1>0, <1>1, <3>1 DEF PInv, ParseInv, CountsAgree
  <2>2. RunInv'
    BY <1>0, <1>1 DEF PInv, RunInv, CountsAgree
  <2> QED
    BY <2>1, <2>2 DEF PInv
<1>2. CASE CheckItems
  <2>1. ParseInv'
    <3>1. \A i \in 1..Len(cpuIdSets) : SetsMade(i, cpuIdSets[i])'
      BY <1>2, AllSetsMadeStay DEF PInv, CheckItems
    <3>2. pin' \in {"sets", "aborted"} /\ (pin' = "sets" => Len(cmd.items) \in {1, NumSubpaths})
      BY <1>2 DEF CheckItems, ItemsPass
    <3> QED
      BY <1>0, <1>2, <3>1, <3>2 DEF PInv, ParseInv, CheckItems
  <2>2. RunInv'
    BY <1>0, <1>2 DEF PInv, RunInv, CheckItems
  <2> QED
    BY <2>1, <2>2 DEF PInv
<1>3. CASE BuildSets
  <2> DEFINE i == Len(cpuIdSets) + 1
  <2>1. i \in Subpaths /\ pin = "sets"
    BY <1>0, <1>3 DEF BuildSets, Subpaths, PInv, ParseInv
  <2>2. ParseInv'
    <3>1. CASE cmd.items # <<>> /\ ~SetsPass(i)
      <4>1. pin' = "aborted" /\ UNCHANGED <<cpuIdSets, uniqueWorkerCPUIdSet>>
        BY <1>3, <3>1 DEF BuildSets
      <4>2. \A k \in 1..Len(cpuIdSets) : SetsMade(k, cpuIdSets[k])'
        BY <4>1, AllSetsMadeStay DEF PInv
      <4> QED
        BY <1>0, <4>1, <4>2 DEF PInv, ParseInv
    <3>2. CASE ~(cmd.items # <<>> /\ ~SetsPass(i))
      <4> DEFINE sets == IF cmd.items # <<>> THEN SetsFor(i) ELSE EmptySetsFor(i)
      <4>1. cpuIdSets' = Append(cpuIdSets, sets) /\ pin' = "sets"
        BY <1>3, <3>2 DEF BuildSets
      <4>2. SetsMade(i, sets)
        BY <2>1, <3>2, SetsForMade, EmptySetsForMade DEF PInv
      <4> HIDE DEF sets
      <4>3. sets \in Seq(SUBSET Nat)
        BY <4>2 DEF SetsMade
      <4>4. /\ cpuIdSets' \in Seq(Seq(SUBSET Nat)) /\ Len(cpuIdSets') = i
            /\ i <= NumSubpaths
            /\ cpuIdSets'[i] = sets
            /\ \A k \in 1..Len(cpuIdSets) : cpuIdSets'[k] = cpuIdSets[k]
        BY <2>1, <4>1, <4>3 DEF PInv, ParseInv, Subpaths
      <4>5. \A k \in 1..Len(cpuIdSets') : SetsMade(k, cpuIdSets'[k])
        <5>1. \A k \in 1..Len(cpuIdSets) : SetsMade(k, cpuIdSets[k])
          BY DEF PInv, ParseInv
        <5>2. Len(cpuIdSets) \in Nat
          BY DEF PInv, ParseInv
        <5>3. ASSUME NEW k \in 1..Len(cpuIdSets') PROVE SetsMade(k, cpuIdSets'[k])
          <6>1. k = i \/ k \in 1..Len(cpuIdSets)
            BY <4>4, <5>2
          <6>2. CASE k = i
            BY <4>2, <4>4, <6>2
          <6>3. CASE k \in 1..Len(cpuIdSets)
            BY <4>4, <5>1, <6>3
          <6> QED
            BY <6>1, <6>2, <6>3
        <5> QED
          BY <5>3
      <4>6. (\A k \in 1..Len(cpuIdSets) : SetsMade(k, cpuIdSets[k]))'
        <5> SUFFICES ASSUME NEW k \in 1..Len(cpuIdSets') PROVE SetsMade(k, cpuIdSets[k])'
          OBVIOUS
        <5>1. SetsMade(k, cpuIdSets'[k])
          BY <4>5
        <5>2. ASSUME NEW j PROVE Asked(k, j)' = Asked(k, j)
          BY DEF Asked
        <5> QED
          BY <5>1, <5>2 DEF SetsMade
      <4> QED
        BY <1>0, <2>1, <4>1, <4>4, <4>6 DEF PInv, ParseInv
    <3> QED
      BY <3>1, <3>2
  <2>3. RunInv'
    BY <1>0, <1>3 DEF PInv, RunInv, BuildSets
  <2> QED
    BY <2>2, <2>3 DEF PInv
<1>4. CASE CollectUnique
  <2>1. ParseInv'
    <3>1. \A i \in 1..Len(cpuIdSets) : SetsMade(i, cpuIdSets[i])'
      BY <1>4, AllSetsMadeStay DEF PInv, CollectUnique
    <3>2. UNION {Collected(cpuIdSets[i]) : i \in Subpaths}'
            = UNION {Collected(cpuIdSets[i]) : i \in Subpaths}
      BY <1>0, <1>4 DEF CollectUnique, Collected
    <3> QED
      BY <1>0, <1>4, <3>1, <3>2 DEF PInv, ParseInv, CollectUnique
  <2>2. RunInv'
    BY <1>0, <1>4 DEF PInv, RunInv, CollectUnique
  <2> QED
    BY <2>1, <2>2 DEF PInv
<1> QED
  BY <1>1, <1>2, <1>3, <1>4 DEF ParseStep

\* What the affinities are made of.
LEMMA Ranges ==
  ASSUME ParseInv, RunInv
  PROVE  /\ Present \subseteq Nat /\ MainAsked \subseteq Present
         /\ Main \notin Workers
<1>1. Present \subseteq Nat
  BY PinAssumption DEF Present
<1>2. MainAsked \subseteq Present
  BY DEF MainAsked, RunInv
<1>3. Main \notin Workers
  BY WorkerPairs DEF ParseInv
<1> QED
  BY <1>1, <1>2, <1>3

LEMMA SetGivenType ==
  ASSUME ParseInv, pin \in Parsed, NEW w \in Workers, w[2] <= Len(cpuIdSets[w[1]])
  PROVE  /\ w[1] \in Subpaths /\ w[2] \in 1..Len(cpuIdSets[w[1]])
         /\ cpuIdSets[w[1]] \in Seq(SUBSET Nat) /\ SetGiven(w) \in SUBSET Nat
<1>1. w[1] \in Subpaths /\ w[2] \in 1..cmd.threads[w[1]]
  BY WorkerPairs DEF ParseInv
<1>2. Len(cpuIdSets) = NumSubpaths /\ cpuIdSets \in Seq(Seq(SUBSET Nat))
  BY DEF ParseInv
<1>3. cpuIdSets[w[1]] \in Seq(SUBSET Nat)
  BY <1>1, <1>2, ElementOfSeq DEF Subpaths
<1>4. w[2] \in 1..Len(cpuIdSets[w[1]])
  BY <1>1, <1>3
<1>5. SetGiven(w) \in SUBSET Nat
  BY <1>3, <1>4, ElementOfSeq DEF SetGiven
<1> QED
  BY <1>1, <1>3, <1>4, <1>5

\* Each step of main() and of the threads preserves the invariant.
LEMMA RunStepInv == PInv /\ RunStep /\ UNCHANGED given => PInv'
<1> SUFFICES ASSUME PInv, RunStep, UNCHANGED given PROVE PInv'
  OBVIOUS
<1> USE DEF Parsing, Parsed, Pins, given
<1>0. /\ ParseInv /\ RunInv
      /\ NumSubpaths' = NumSubpaths /\ Subpaths' = Subpaths
      /\ Workers' = Workers /\ MainAsked' = MainAsked
  BY DEF PInv, NumSubpaths, Subpaths, Workers, MainAsked
<1>1. Present \subseteq Nat /\ MainAsked \subseteq Present /\ Main \notin Workers
  BY <1>0, Ranges
<1>2. UNCHANGED optVars /\ pin \in Parsed /\ pin' \in Parsed \cup {"aborted", "exited"}
  BY DEF RunStep, PinMain, SpawnWorkers, PinWorker, BeginWipe, WipeCPU, EndWipe, Affinity
<1>3. ParseInv'
  <2>1. (\A i \in 1..Len(cpuIdSets) : SetsMade(i, cpuIdSets[i]))'
    BY <1>0, <1>2, AllSetsMadeStay DEF optVars
  <2>2. UNION {Collected(cpuIdSets[i]) : i \in Subpaths}'
          = UNION {Collected(cpuIdSets[i]) : i \in Subpaths}
    BY <1>0, <1>2 DEF Collected, optVars
  <2> QED
    BY <1>0, <1>2, <2>1, <2>2 DEF ParseInv, optVars
<1>4. UNCHANGED <<cmd, cpuIdSets, uniqueWorkerCPUIdSet>>
  BY <1>2 DEF optVars
<1>5. ASSUME NEW w PROVE Given(w)' = Given(w)
  BY <1>4 DEF Given, SetGiven, MainAsked
<1>6. ASSUME PinMain PROVE RunInv'
  <2>1. /\ pinned = {} /\ pinned' = {} /\ pin' \in {"spawn", "aborted"}
        /\ affinity = [t \in {Main} |-> started]
    BY <1>0, <1>6 DEF PinMain, RunInv
  <2>2. pin' = "spawn" => affinity' = [t \in {Main} |-> MainAsked]
    BY <1>6, <2>1 DEF PinMain, MainAsked
  <2> QED
    BY <1>0, <2>1, <2>2 DEF RunInv
<1>7. ASSUME SpawnWorkers PROVE RunInv'
  <2>1. /\ pinned' = {} /\ pin' = "workers"
        /\ affinity' = [t \in {Main} \cup Workers |-> MainAsked]
    BY <1>0, <1>7 DEF SpawnWorkers, RunInv
  <2> QED
    BY <1>0, <1>1, <2>1 DEF RunInv
<1>8. ASSUME NEW w \in Workers, PinWorker(w) PROVE RunInv'
  <2>1. /\ pin = "workers" /\ pinned' = pinned \cup {w} /\ w \notin pinned
        /\ affinity \in [{Main} \cup Workers -> SUBSET Nat]
        /\ affinity[Main] = MainAsked /\ w # Main /\ pinned \subseteq Workers
    BY <1>0, <1>1, <1>8 DEF PinWorker, RunInv
  <2>2. CASE w[2] > Len(cpuIdSets[w[1]])
    <3>1. pin' = "undefined"
      BY <1>8, <2>2 DEF PinWorker
    <3>2. (\E v \in Workers : v[2] > Len(cpuIdSets[v[1]]))'
      BY <1>0, <1>4, <2>2
    <3> QED
      BY <1>0, <2>1, <3>1, <3>2 DEF RunInv
  <2>3. CASE ~(w[2] > Len(cpuIdSets[w[1]]))
    <3>1. Affinity(w, SetGiven(w))
      BY <1>8, <2>3 DEF PinWorker, SetGiven
    <3>2. w[2] <= Len(cpuIdSets[w[1]]) /\ SetGiven(w) \in SUBSET Nat
      <4>1. w[1] \in Subpaths /\ w[2] \in 1..cmd.threads[w[1]]
        BY <1>0, WorkerPairs DEF ParseInv
      <4>2. Len(cpuIdSets) = NumSubpaths /\ cpuIdSets \in Seq(Seq(SUBSET Nat))
        BY <1>0, <2>1 DEF ParseInv
      <4>3. cpuIdSets[w[1]] \in Seq(SUBSET Nat)
        BY <4>1, <4>2, ElementOfSeq DEF Subpaths
      <4>4. w[2] <= Len(cpuIdSets[w[1]])
        BY <2>3, <4>1, <4>3
      <4> QED
        BY <1>0, <2>1, <4>4, SetGivenType
    <3>3. CASE pin' = "aborted"
      BY <1>0, <2>1, <3>3 DEF RunInv
    <3>4. CASE pin' # "aborted"
      <4>1. pin' = "workers" /\ affinity' = [affinity EXCEPT ![w] = Given(w)]
        BY <1>0, <2>1, <3>1, <3>4 DEF Affinity, Given, RunInv
      <4>2. Given(w) \in SUBSET Nat
        BY <1>1, <3>2 DEF Given
      <4>3. /\ affinity' \in [{Main} \cup Workers -> SUBSET Nat]
            /\ affinity'[Main] = MainAsked /\ affinity'[w] = Given(w)
            /\ \A v \in Workers : v # w => affinity'[v] = affinity[v]
        BY <2>1, <4>1, <4>2
      <4>4. \A v \in Workers \ pinned' : affinity'[v] = MainAsked
        BY <1>0, <2>1, <4>3 DEF RunInv
      <4>5. \A v \in pinned' : v[2] <= Len(cpuIdSets[v[1]]) /\ affinity'[v] = Given(v)
        BY <1>0, <2>1, <3>2, <4>3 DEF RunInv
      <4>6. (\A v \in pinned : v[2] <= Len(cpuIdSets[v[1]]) /\ affinity[v] = Given(v))'
        BY <1>4, <1>5, <4>5
      <4> QED
        BY <1>0, <2>1, <4>1, <4>3, <4>4, <4>6 DEF RunInv
    <3> QED
      BY <3>3, <3>4
  <2> QED
    BY <2>2, <2>3
<1> DEFINE Pinned == \A v \in pinned : v[2] <= Len(cpuIdSets[v[1]]) /\ affinity[v] = Given(v)
<1>9. ASSUME BeginWipe PROVE RunInv'
  <2>1. Pinned'
    BY <1>0, <1>4, <1>5, <1>9 DEF BeginWipe, RunInv, runVars
  <2> QED
    BY <1>0, <1>9, <2>1 DEF BeginWipe, RunInv, runVars
<1>10. ASSUME NEW cpu \in uniqueWorkerCPUIdSet, WipeCPU(cpu) PROVE RunInv'
  <2>1. /\ pin = "wipe" /\ pinned' = pinned /\ pinned = Workers
        /\ affinity \in [{Main} \cup Workers -> SUBSET Nat]
    BY <1>0, <1>10 DEF WipeCPU, RunInv
  <2>2. CASE pin' = "aborted"
    BY <1>0, <2>1, <2>2 DEF RunInv
  <2>3. CASE pin' # "aborted"
    <3>1. pin' = "wipe" /\ affinity' = [affinity EXCEPT ![Main] = {cpu} \cap Present]
      BY <1>10, <2>1, <2>3 DEF WipeCPU, Affinity
    <3>2. /\ affinity' \in [{Main} \cup Workers -> SUBSET Nat]
          /\ \A v \in Workers : affinity'[v] = affinity[v]
      BY <1>1, <2>1, <3>1
    <3>3. Pinned'
      BY <1>0, <1>4, <1>5, <2>1, <3>2 DEF RunInv
    <3> QED
      BY <1>0, <2>1, <3>1, <3>2, <3>3 DEF RunInv
  <2> QED
    BY <2>2, <2>3
<1>11. ASSUME EndWipe PROVE RunInv'
  <2>1. /\ pin = "wipe" /\ pin' = "ready" /\ pinned' = pinned /\ pinned = Workers
        /\ wiped' = uniqueWorkerCPUIdSet
        /\ affinity \in [{Main} \cup Workers -> SUBSET Nat]
        /\ affinity' = [affinity EXCEPT ![Main] = MainAsked]
    BY <1>0, <1>11 DEF EndWipe, RunInv, Original, MainAsked
  <2>2. /\ affinity' \in [{Main} \cup Workers -> SUBSET Nat]
        /\ affinity'[Main] = MainAsked
        /\ \A v \in Workers : affinity'[v] = affinity[v]
    BY <1>1, <2>1
  <2>3. Pinned'
    BY <1>0, <1>4, <1>5, <2>1, <2>2 DEF RunInv
  <2> QED
    BY <1>0, <1>4, <2>1, <2>2, <2>3 DEF RunInv
<1>12. RunInv'
  BY <1>6, <1>7, <1>8, <1>9, <1>10, <1>11 DEF RunStep
<1> QED
  BY <1>3, <1>12 DEF PInv

LEMMA StutterInv == PInv /\ UNCHANGED pinVars => PInv'
<1> SUFFICES ASSUME PInv, UNCHANGED pinVars PROVE PInv'
  OBVIOUS
<1>1. UNCHANGED <<cmd, started, pin, cpuIdSets, uniqueWorkerCPUIdSet, affinity, pinned, wiped>>
  BY DEF pinVars, optVars, runVars, given
<1>2. (\A i \in 1..Len(cpuIdSets) : SetsMade(i, cpuIdSets[i]))'
  BY <1>1, AllSetsMadeStay DEF PInv
<1>3. ParseInv'
  <2>1. NumSubpaths' = NumSubpaths /\ Subpaths' = Subpaths
    BY <1>1 DEF NumSubpaths, Subpaths
  <2>2. UNION {Collected(cpuIdSets[i]) : i \in Subpaths}'
          = UNION {Collected(cpuIdSets[i]) : i \in Subpaths}
    BY <1>1, <2>1 DEF Collected
  <2> QED
    BY <1>1, <1>2, <2>1, <2>2 DEF PInv, ParseInv
<1>4. RunInv'
  <2>1. Workers' = Workers /\ MainAsked' = MainAsked
    BY <1>1 DEF Workers, MainAsked, Subpaths, NumSubpaths
  <2>2. ASSUME NEW w PROVE Given(w)' = Given(w)
    BY <1>1 DEF Given, SetGiven, MainAsked
  <2>3. RunInv
    BY DEF PInv
  <2> QED
    BY <1>1, <2>1, <2>2, <2>3 DEF RunInv
<1> QED
  BY <1>3, <1>4 DEF PInv

\* The invariant of the pinning, for any command line and any number of CPUs.
THEOREM Invariant == PinSpec => []PInv
<1>1. PInv /\ [PinNext]_pinVars => PInv'
  BY ParseStepInv, RunStepInv, StutterInv DEF PinNext
<1> QED
  BY InitInv, <1>1, PTL DEF PinSpec

-----------------------------------------------------------------------------
\* No worker runs on a CPU whose caches were not wiped.
THEOREM WipeCovers == PinSpec => []WipeCoversWorkers
<1>1. PInv => WipeCoversWorkers
  <2> SUFFICES ASSUME PInv, pin = "ready", NEW w \in Workers
               PROVE  affinity[w] \subseteq wiped
    BY DEF WipeCoversWorkers
  <2>1. ParseInv /\ RunInv /\ pin \in Parsed
    BY DEF PInv, Parsed
  <2>2. /\ wiped = UNION {Collected(cpuIdSets[i]) : i \in Subpaths}
        /\ affinity[w] = Given(w) /\ w[2] <= Len(cpuIdSets[w[1]])
    BY <2>1 DEF ParseInv, RunInv
  <2>3. /\ w[1] \in Subpaths /\ w[2] \in 1..Len(cpuIdSets[w[1]])
        /\ cpuIdSets[w[1]] \in Seq(SUBSET Nat)
    BY <2>1, <2>2, SetGivenType
  <2>4. /\ SetGiven(w) \cap Present \subseteq Collected(cpuIdSets[w[1]])
        /\ SetGiven(w) = {} => Present \subseteq Collected(cpuIdSets[w[1]])
    BY <2>3, CollectedAll DEF SetGiven
  <2>5. Given(w) \subseteq Collected(cpuIdSets[w[1]])
    BY <2>1, <2>4, Ranges DEF Given
  <2> QED
    BY <2>2, <2>3, <2>5
<1> QED
  BY Invariant, <1>1, PTL

\* Workers and the main thread run where -C, -I and -m say.
THEOREM AsAsked == PinSpec => []PinnedAsAsked
<1>1. PInv => PinnedAsAsked
  <2> SUFFICES ASSUME PInv, pin = "ready" PROVE PinnedAsAsked
    BY DEF PinnedAsAsked
  <2>1. ParseInv /\ RunInv /\ pin \in Parsed
    BY DEF PInv, Parsed
  <2>2. affinity[Main] = MainAsked
    BY <2>1 DEF RunInv
  <2>3. ASSUME NEW w \in Workers, cmd.items # <<>>
        PROVE  affinity[w] = IF Asked(w[1], w[2]) = <<>> THEN MainAsked
                             ELSE SetOf(Asked(w[1], w[2])) \cap Present
    <3>1. affinity[w] = Given(w) /\ w[2] <= Len(cpuIdSets[w[1]])
      BY <2>1 DEF RunInv
    <3>2. w[1] \in 1..Len(cpuIdSets) /\ w[2] \in 1..cmd.threads[w[1]]
      BY <2>1, WorkerPairs DEF ParseInv, Subpaths
    <3>3. /\ SetGiven(w) = SetOf(Asked(w[1], w[2]))
          /\ Asked(w[1], w[2]) \in Seq(Nat)
      BY <2>1, <2>3, <3>2 DEF ParseInv, SetsMade, SetGiven
    <3>4. SetOf(Asked(w[1], w[2])) = {} <=> Asked(w[1], w[2]) = <<>>
      BY <3>3, EmptySet
    <3> QED
      BY <3>1, <3>3, <3>4 DEF Given
  <2> QED
    BY <2>2, <2>3 DEF PinnedAsAsked
<1> QED
  BY Invariant, <1>1, PTL

\* A worker indexes past the sets of its subpath only without -C.
THEOREM BoundsWithC == PinSpec => []OutOfBoundsOnlyWithoutC
<1>1. PInv => OutOfBoundsOnlyWithoutC
  <2> SUFFICES ASSUME PInv, pin = "undefined" PROVE OutOfBoundsOnlyWithoutC
    BY DEF OutOfBoundsOnlyWithoutC
  <2>1. ParseInv /\ RunInv
    BY DEF PInv
  <2>2. PICK w \in Workers : w[2] > Len(cpuIdSets[w[1]])
    BY <2>1 DEF RunInv
  <2> DEFINE i == w[1]
  <2>3. i \in Subpaths /\ w[2] \in 1..cmd.threads[i] /\ i \in 1..Len(cpuIdSets)
    BY <2>1, WorkerPairs DEF ParseInv, Subpaths, Parsed
  <2>4. SetsMade(i, cpuIdSets[i])
    BY <2>1, <2>3 DEF ParseInv
  <2>5. cmd.threads \in Seq(Nat) /\ cmd.fibres \in Seq(Nat) /\ cmd.threads[i] \in Nat
    BY <2>1, <2>3, Command, ElementOfSeq DEF ParseInv, Subpaths, NumSubpaths
  <2>6. cmd.items = <<>>
    BY <2>2, <2>3, <2>4, <2>5 DEF SetsMade
  <2>7. cmd.fibres # <<>> /\ cmd.fibres[i] = Len(cpuIdSets[i])
    BY <2>2, <2>3, <2>4, <2>5, <2>6 DEF SetsMade
  <2>8. Len(cmd.fibres) = Len(cmd.threads)
    BY <2>1, <2>7 DEF ParseInv, NumSubpaths
  <2>9. i \in DOMAIN cmd.fibres /\ cmd.fibres[i] \in Nat
    <3>1. i \in 1..Len(cmd.fibres)
      BY <2>3, <2>8 DEF Subpaths, NumSubpaths
    <3>2. cmd.fibres[i] \in Nat
      BY <2>5, <3>1, ElementOfSeq
    <3> QED
      BY <2>5, <3>1, <3>2
  <2> QED
    <3>1. cmd.fibres[i] < cmd.threads[i]
      <4>1. w[2] > cmd.fibres[i] /\ w[2] <= cmd.threads[i] /\ w[2] \in Nat
        <5>1. w[2] \in Nat /\ w[2] <= cmd.threads[i]
          BY <2>3, <2>5
        <5> QED
          BY <2>2, <2>7, <5>1
      <4> HIDE DEF i
      <4> QED
        BY <2>5, <2>9, <4>1
    <3> QED
      BY <2>6, <2>9, <3>1 DEF OutOfBoundsOnlyWithoutC
<1> QED
  BY Invariant, <1>1, PTL
=============================================================================
