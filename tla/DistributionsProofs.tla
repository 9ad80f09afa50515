------------------------- MODULE DistributionsProofs ------------------------
(* Proved of Distributions: what rand_val() computes, for every generator   *)
(* that satisfies LehmerAssumption and PrimeAssumption; what the binary     *)
(* search of getNextIDX() finds, for every number of lines; and what paths  *)
(* the distributions leave, how SUBPATH's is taken apart by the collection  *)
(* of the subpaths, what the split makes of it, and that it is the path the *)
(* experiments are modelled with, for every command line and whatever is    *)
(* shuffled and drawn.                                                      *)
EXTENDS Distributions, FiniteSetTheorems, WellFoundedInduction, TLAPS

(* The quotient and the remainder of a state of the generator.              *)
LEMMA DivMod ==
  ASSUME NEW v \in 0..M
  PROVE  /\ v \div Q \in 0..A /\ v % Q \in 0..(Q - 1)
         /\ v = Q * (v \div Q) + (v % Q)
<1> USE LehmerAssumption
<1>1. v % Q \in 0..(Q - 1) /\ v = Q * (v \div Q) + (v % Q) /\ v \div Q \in Int
  BY SMTT(30)
<1> DEFINE d == v \div Q
<1>2. d >= 0
  BY <1>1, SMTT(30)
<1>3. d <= A
  BY <1>1, <1>2, SMTT(30)
<1> QED BY <1>1, <1>2, <1>3

(* Schrage's decomposition: the difference that rand_val() computes is the  *)
(* product less a multiple of M, and between -M and M.                      *)
LEMMA Difference ==
  ASSUME NEW e \in 0..(Q - 1), NEW d \in 0..A
  PROVE  /\ A * e - R * d = A * (Q * d + e) - M * d
         /\ A * e - R * d < M /\ A * e - R * d > -M
<1> USE LehmerAssumption
<1>1. M * d = A * Q * d + R * d
  BY SMTT(30)
<1>2. A * (Q * d + e) = A * Q * d + A * e
  BY SMTT(30)
<1>3. A * e \in Nat /\ R * d \in Nat /\ A * Q * d \in Nat /\ A * Q \in Nat /\ R * A \in Nat
  BY SMTT(30)
<1>4. A * e <= A * (Q - 1) /\ A * (Q - 1) = A * Q - A
  BY SMTT(30)
<1>5. R * d <= R * A /\ R * A <= A * Q
  BY SMTT(30)
<1> QED BY <1>1, <1>2, <1>3, <1>4, <1>5

(* The next state is the product reduced by M, in 1..M, and M only from the *)
(* two states that lead nowhere else.                                       *)
LEMMA NextValueCorrect ==
  ASSUME NEW v \in 0..M
  PROVE  /\ NextValue(v) \in 1..M
         /\ \E k \in -1..A : NextValue(v) = A * v - k * M
         /\ NextValue(v) = M => v \in {0, M}
<1> DEFINE d == v \div Q
           e == v % Q
           new == A * e - R * d
<1>1. d \in 0..A /\ e \in 0..(Q - 1) /\ v = Q * d + e
  BY DivMod
<1>2. NextValue(v) = IF new > 0 THEN new ELSE new + M
  BY DEF NextValue
<1> HIDE DEF d, e
<1>3. new = A * v - M * d /\ new < M /\ new > -M /\ new \in Int
  BY <1>1, Difference, LehmerAssumption
<1>4. NextValue(v) \in 1..M
  BY <1>2, <1>3, LehmerAssumption
<1>5. \E k \in -1..A : NextValue(v) = A * v - k * M
  <2>1. CASE new > 0
    <3>1. NextValue(v) = A * v - d * M
      BY <1>1, <1>2, <1>3, <2>1, LehmerAssumption
    <3>2. d \in -1..A
      BY <1>1, LehmerAssumption
    <3> QED BY <3>1, <3>2, Zenon
  <2>2. CASE ~(new > 0)
    <3>1. NextValue(v) = A * v - (d - 1) * M
      BY <1>1, <1>2, <1>3, <2>2, LehmerAssumption
    <3>2. d - 1 \in -1..A
      BY <1>1, LehmerAssumption
    <3> QED BY <3>1, <3>2, Zenon
  <2> QED BY <2>1, <2>2
<1>6. ASSUME NextValue(v) = M PROVE v \in {0, M}
  <2>1. new = 0
    BY <1>2, <1>3, <1>6, LehmerAssumption
  <2>2. A * e = R * d
    BY <1>1, <2>1, LehmerAssumption
  <2>3. <<e, d>> \in {<<0, 0>>, <<R, A>>}
    BY <1>1, <2>2, PrimeAssumption
  <2>4. CASE e = 0 /\ d = 0
    BY <1>1, <2>4, LehmerAssumption
  <2>5. CASE e = R /\ d = A
    BY <1>1, <2>5, LehmerAssumption
  <2> QED BY <2>3, <2>4, <2>5
<1> QED BY <1>4, <1>5, <1>6

(* The constants of the code satisfy the two assumptions.                   *)
THEOREM JainsConstants ==
  /\ 2147483647 = 16807 * 127773 + 2836
  /\ 0 < 2836 /\ 2836 < 127773 /\ 1 < 16807
  /\ \A u, v \in Nat :
       u < 127773 /\ v <= 16807 /\ 16807 * u = 2836 * v =>
         <<u, v>> \in {<<0, 0>>, <<2836, 16807>>}
<1>1. ASSUME NEW u \in Nat, NEW v \in Nat,
             u < 127773, v <= 16807, 16807 * u = 2836 * v
      PROVE  <<u, v>> \in {<<0, 0>>, <<2836, 16807>>}
  <2> DEFINE k == 1859 * v - 11017 * u
  <2>1. u = 2836 * k /\ v = 16807 * k /\ k \in Int
    BY <1>1, SMT
  <2> HIDE DEF k
  <2>2. k = 0 \/ k = 1
    BY <1>1, <2>1, SMT
  <2> QED BY <2>1, <2>2, SMT
<1> QED BY <1>1, SMT

-----------------------------------------------------------------------------
(* The state of the generator stays between 0 and M.                        *)
XType == x \in 0..M /\ opt \in Commands

(* A step that changes the state seeds the generator, or pulls.             *)
LEMMA StepOfX ==
  ASSUME opt \in Commands, [DNext]_allVars
  PROVE  \/ x' = x
         \/ calls # "pull" /\ x' \in 1..M
         \/ calls = "pull" /\ x' = NextValue(x)
<1> USE DEF zipfVars, gvars
<1>1. CASE Linear \/ BeginUniform \/ BeginWeighted \/ WeightedRound \/ Halve
  BY <1>1 DEF Linear, BeginUniform, BeginWeighted, WeightedRound, Halve
<1>2. CASE UniformRound \/ RoundsOver \/ WeightedDraw
  BY <1>2 DEF UniformRound, RoundsOver, WeightedDraw, LinkLine
<1>3. CASE ZipfLegacy
  <2>1. opt.seed \in 0..M
    BY TypeAssumption
  <2>2. CASE opt.seed = 0
    BY <1>3, <2>2, Zenon DEF ZipfLegacy
  <2>3. CASE opt.seed # 0
    BY <1>3, <2>1, <2>3, LehmerAssumption DEF ZipfLegacy, Seed
  <2> QED BY <2>2, <2>3
<1>4. CASE Subpath
  <2>1. CASE SeedChunk
    BY <2>1 DEF SeedChunk, Seed, Seeds
  <2>2. CASE CallZipf
    BY <2>2 DEF CallZipf, Call
  <2>3. CASE InZipf
    BY <2>3 DEF InZipf, Pull, Return
  <2>4. CASE ZipfReturned
    BY <2>4 DEF ZipfReturned
  <2>5. CASE UNCHANGED zipfVars
    BY <2>5
  <2> QED BY <1>4, <2>1, <2>2, <2>3, <2>4, <2>5, Zenon DEF Subpath
<1>5. CASE UNCHANGED allVars
  BY <1>5 DEF allVars
<1> QED BY <1>1, <1>2, <1>3, <1>4, <1>5, Zenon DEF DNext, Terminated

(* The generator is in a state that it can count with.                      *)
THEOREM XTypeInvariant == DSpec => []XType
<1>1. DInit => XType
  BY LehmerAssumption DEF DInit, GInit, Setup, XType
<1>2. XType /\ [DNext]_allVars => XType'
  <2> SUFFICES ASSUME XType, [DNext]_allVars PROVE XType'
    OBVIOUS
  <2>1. opt' = opt
    BY DEF DNext, Terminated, allVars, vars
  <2>2. x' \in 0..M
    BY StepOfX, NextValueCorrect, LehmerAssumption DEF XType
  <2> QED BY <2>1, <2>2 DEF XType
<1> QED BY <1>1, <1>2, PTL DEF DSpec

(* Every pull gives the product of multiplier and state, reduced by M.      *)
THEOREM Lehmer == DSpec => LehmerStep
<1> DEFINE Step == calls = "pull" /\ x' # x =>
                     /\ x' \in 1..M
                     /\ \E k \in -1..A : x' = A * x - k * M
                     /\ x' = M => x = 0
<1>1. XType /\ [DNext]_allVars => Step
  <2> SUFFICES ASSUME XType, [DNext]_allVars, calls = "pull", x' # x
               PROVE  Step
    OBVIOUS
  <2>1. x' = NextValue(x) /\ x \in 0..M
    BY StepOfX DEF XType
  <2> QED BY <2>1, NextValueCorrect, Zenon
<1>2. XType /\ [DNext]_allVars => [Step]_allVars
  BY <1>1
<1> QED BY <1>2, XTypeInvariant, PTL DEF DSpec, LehmerStep

-----------------------------------------------------------------------------
(* The bounds of the search enclose the line in whose share the key lies.   *)
SearchInv ==
  pc = "search" =>
    /\ search \in [key : Nat, min : Nat, max : Nat, mid : Nat]
    /\ search.min <= search.max /\ search.max <= NumDatalines
    /\ search.min = 0 \/ Cdf(search.min - 1) <= search.key
    /\ search.max = NumDatalines \/ search.key < Cdf(search.max)
    /\ search.key < Cdf(NumDatalines - 1) \/ search.key = 0

LInv == opt \in Commands /\ SearchInv

(* There is a line.                                                         *)
LEMMA LinesPositive ==
  ASSUME opt \in Commands
  PROVE  NumDatalines \in Nat \ {0}
<1> DEFINE b == opt.dataset * opt.bufferfactor
<1>1. /\ opt.numSubpaths \in Nat \ {0} /\ opt.cacheline \in Nat \ {0}
      /\ b >= opt.numSubpaths * opt.cacheline
      /\ opt.dataset \in Nat /\ opt.bufferfactor \in Nat
  BY SizeAssumption, SMTT(30)
<1>2. b \in Nat /\ b >= opt.cacheline
  BY <1>1, SMTT(30)
<1> HIDE DEF b
<1>3. b \div opt.cacheline \in Nat \ {0}
  BY <1>1, <1>2, SMTT(30)
<1> QED BY <1>3 DEF NumDatalines, BufferSize, Dataset, BufferFactor, Cacheline, b

(* Only the two actions of getNextIDX() touch the search.                   *)
LEMMA StepOfSearch ==
  ASSUME [DNext]_allVars
  PROVE  /\ opt' = opt
         /\ \/ WeightedRound \/ Halve
            \/ search' = search /\ (pc' = "search" => pc = "search")
<1>1. opt' = opt
  BY DEF DNext, Terminated, allVars, vars
<1> USE <1>1
<1>2. CASE Linear \/ BeginUniform \/ BeginWeighted \/ ZipfLegacy
  BY <1>2 DEF Linear, BeginUniform, BeginWeighted, ZipfLegacy
<1>3. CASE UniformRound \/ RoundsOver \/ WeightedDraw
  BY <1>3 DEF UniformRound, RoundsOver, WeightedDraw, LinkLine, Close
<1>4. CASE Subpath /\ UNCHANGED search
  <2>1. CASE SeedChunk
    BY <2>1, <1>4 DEF SeedChunk, ZipfChunk
  <2>2. CASE CallZipf \/ InZipf
    BY <2>2, <1>4 DEF CallZipf, InZipf
  <2>3. CASE ZipfReturned
    BY <2>3, <1>4 DEF ZipfReturned, ZipfDraw, ZipfFull, LinkChunk, AfterChunk
  <2>4. CASE Check \/ UniformChunk \/ ZipfEnough
    BY <2>4, <1>4 DEF Check, UniformChunk, ZipfEnough, LinkChunk, AfterChunk
  <2>5. CASE Walk \/ FindEnd \/ Split
    BY <2>5, <1>4 DEF Walk, FindEnd, Split
  <2> QED BY <1>1, <1>4, <2>1, <2>2, <2>3, <2>4, <2>5, Zenon DEF Subpath
<1>5. CASE UNCHANGED allVars
  BY <1>5 DEF allVars, vars
<1> QED BY <1>1, <1>2, <1>3, <1>4, <1>5, Zenon DEF DNext, Terminated

(* One round of the search.                                                 *)
LEMMA HalveKeepsSearch ==
  ASSUME LInv, Halve, opt' = opt
  PROVE  SearchInv'
<1> DEFINE m == (search.max + search.min) \div 2
<1> USE DEF SearchInv
<1>1. /\ search \in [key : Nat, min : Nat, max : Nat, mid : Nat]
      /\ search.min < search.max
  BY DEF LInv, Halve
<1>2. m \in Nat /\ search.min <= m /\ m < search.max
  BY <1>1
<1>3. NumDatalines' = NumDatalines
  BY DEF NumDatalines, BufferSize, Dataset, BufferFactor, Cacheline
<1>4. search' = Halved(search, m)
  BY DEF Halve
<1> HIDE DEF m
<1>5. CASE search.key < Cdf(m)
  <2>1. search' = [search EXCEPT !.max = m, !.mid = m]
    BY <1>4, <1>5 DEF Halved
  <2>2. /\ search'.key = search.key /\ search'.min = search.min
        /\ search'.max = m /\ search'.mid = m
        /\ search' \in [key : Nat, min : Nat, max : Nat, mid : Nat]
    BY <1>1, <1>2, <2>1
  <2> QED BY <1>1, <1>2, <1>3, <1>5, <2>2, LinesPositive DEF Cdf, LInv, Halve
<1>6. CASE ~(search.key < Cdf(m))
  <2>1. search' = [search EXCEPT !.min = m + 1, !.mid = m]
    BY <1>4, <1>6 DEF Halved
  <2> DEFINE n == m + 1
  <2>0. n \in Nat
    BY <1>2
  <2> HIDE DEF n
  <2>3. search' = [search EXCEPT !.min = n, !.mid = m]
    BY <2>1 DEF n
  <2>4. /\ search'.key = search.key /\ search'.min = n
        /\ search'.max = search.max /\ search'.mid = m
        /\ search' \in [key : Nat, min : Nat, max : Nat, mid : Nat]
    BY <1>1, <1>2, <2>0, <2>3
  <2>2. /\ search'.key = search.key /\ search'.min = m + 1
        /\ search'.max = search.max /\ search'.mid = m
        /\ search' \in [key : Nat, min : Nat, max : Nat, mid : Nat]
    BY <2>4 DEF n
  <2> QED BY <1>1, <1>2, <1>3, <1>6, <2>2, LinesPositive DEF Cdf, LInv, Halve
<1> QED BY <1>5, <1>6

(* The search never loses the line, whatever the key.                       *)
THEOREM SearchInvariant == DSpec => []LInv
<1>1. DInit => LInv
  BY DEF DInit, Setup, LInv, SearchInv
<1>2. LInv /\ [DNext]_allVars => LInv'
  <2> SUFFICES ASSUME LInv, [DNext]_allVars PROVE LInv'
    OBVIOUS
  <2>1. opt' = opt /\ opt' \in Commands
    BY StepOfSearch DEF LInv
  <2>2. CASE WeightedRound
    <3> DEFINE N == NumDatalines
    <3>1. PICK key \in 0..Cdf(N - 1) :
            /\ key < Cdf(N - 1) \/ key = 0
            /\ search' = [key |-> key, min |-> 0, max |-> N, mid |-> 0]
      BY <2>2 DEF WeightedRound
    <3>2. N \in Nat \ {0} /\ N' = N
      BY <2>1, LinesPositive
      DEF LInv, NumDatalines, BufferSize, Dataset, BufferFactor, Cacheline
    <3> HIDE DEF N
    <3>3. key \in Nat /\ Cdf(N - 1)' = Cdf(N - 1)
      BY <3>1, <3>2 DEF Cdf
    <3>4. SearchInv'
      BY <3>1, <3>2, <3>3 DEF SearchInv, N, Cdf
    <3> QED BY <2>1, <3>4 DEF LInv
  <2>3. CASE Halve
    BY <2>1, <2>3, HalveKeepsSearch DEF LInv
  <2>4. CASE search' = search /\ (pc' = "search" => pc = "search")
    BY <2>1, <2>4
    DEF LInv, SearchInv, Cdf, NumDatalines, BufferSize, Dataset, BufferFactor, Cacheline
  <2> QED BY <2>2, <2>3, <2>4, StepOfSearch
<1> QED BY <1>1, <1>2, PTL DEF DSpec

(* The search ends at the line of the key, for every number of lines.       *)
THEOREM SearchFinds == DSpec => []SearchFindsKey
<1>1. LInv => SearchFindsKey
  <2> SUFFICES ASSUME LInv, Searched PROVE SearchFindsKey
    BY DEF SearchFindsKey
  <2> DEFINE N == NumDatalines
             s == search.min
  <2>1. /\ s \in Nat /\ search.key \in Nat
        /\ s = search.max /\ s <= N /\ N \in Nat \ {0}
        /\ s = 0 \/ Cdf(s - 1) <= search.key
        /\ s = N \/ search.key < Cdf(s)
        /\ search.key < Cdf(N - 1) \/ search.key = 0
    BY LinesPositive DEF LInv, SearchInv, Searched
  <2> HIDE DEF N, s
  <2>2. search.key < Cdf(s) \/ N = 1
    <3>1. SUFFICES ASSUME s = N, N # 1 PROVE FALSE
      BY <2>1
    <3>2. Cdf(N - 1) <= search.key /\ Cdf(N - 1) \in Int
      BY <2>1, <3>1 DEF Cdf
    <3>3. Cdf(N - 1) <= 0
      BY <2>1, <3>2
    <3>4. (N - 1) * ((N - 1) + 1) >= 2
      BY <2>1, <3>1, SMTT(30)
    <3> QED BY <2>1, <3>3, <3>4 DEF Cdf
  <2> QED BY <2>1, <2>2, Zenon DEF SearchFindsKey, N, s
<1> QED BY <1>1, SearchInvariant, PTL

-----------------------------------------------------------------------------
(* Induction over the naturals is the existence of a least counterexample.  *)
LEMMA Least ==
  ASSUME NEW T \in SUBSET Nat, T # {}
  PROVE  \E n \in T : \A m \in T : n <= m
<1> DEFINE Less == {p \in Nat \X Nat : p[1] < p[2]}
<1>1. IsWellFoundedOn(Less, Nat)
  BY NatLessThanWellFounded, Zenon DEF OpToRel
<1>2. PICK n \in T : \A m \in T : ~(<<m, n>> \in Less)
  <2> HIDE DEF Less
  <2> QED BY <1>1, WFMin, Zenon
<1>3. ASSUME NEW m \in T PROVE n <= m
  <2>1. ~(<<m, n>> \in Less) /\ m \in Nat /\ n \in Nat /\ <<m, n>> \in Nat \X Nat
    BY <1>2
  <2>2. ~(m < n)
    BY <2>1
  <2> QED BY <2>1, <2>2
<1> QED BY <1>3

LEMMA Upwards ==
  ASSUME NEW N \in Nat, NEW T, 0 \in T, \A n \in 0..(N - 1) : n \in T => n + 1 \in T
  PROVE  0..N \subseteq T
<1> DEFINE Rest == {n \in 0..N : n \notin T}
<1> SUFFICES ASSUME Rest # {} PROVE FALSE
  OBVIOUS
<1>1. PICK n \in Rest : \A m \in Rest : n <= m
  <2>1. Rest \in SUBSET Nat
    OBVIOUS
  <2> HIDE DEF Rest
  <2> QED BY <2>1, Least
<1>2. n \in 0..N /\ n \notin T /\ n # 0
  BY <1>1
<1>3. n - 1 \in 0..(N - 1) /\ n - 1 \notin Rest
  BY <1>1, <1>2
<1>4. n - 1 \in T
  BY <1>3
<1> QED BY <1>2, <1>3, <1>4

-----------------------------------------------------------------------------
(* A trail is any sequence that follows the words from its first on.        *)
Traces(t, a, n) ==
  /\ t = [i \in 1..(n + 1) |-> t[i]]
  /\ t[1] = a /\ \A i \in 1..n : t[i + 1] = Follow(t[i])

LEMMA TrailIs ==
  ASSUME NEW a, NEW n \in Nat, NEW t, Traces(t, a, n)
  PROVE  Trail(a, n) = t
<1> USE DEF Traces
<1> DEFINE Follows(g) == g = [i \in 1..(n + 1) |-> IF i = 1 THEN a ELSE Follow(g[i - 1])]
<1>1. Follows(t)
  <2>1. ASSUME NEW i \in 1..(n + 1)
        PROVE  t[i] = IF i = 1 THEN a ELSE Follow(t[i - 1])
    <3>1. CASE i # 1
      <4>1. i - 1 \in 1..n /\ (i - 1) + 1 = i
        BY <3>1
      <4>2. t[(i - 1) + 1] = Follow(t[i - 1])
        BY <4>1
      <4> QED BY <3>1, <4>1, <4>2
    <3> QED BY <3>1
  <2> QED BY <2>1
<1>2. ASSUME NEW g, Follows(g)
      PROVE  g = t
  <2> DEFINE Same == {k \in 0..n : g[k + 1] = t[k + 1]}
  <2>1. 0 \in Same
    BY <1>1, <1>2
  <2>2. ASSUME NEW k \in 0..(n - 1), k \in Same
        PROVE  k + 1 \in Same
    <3> DEFINE i == k + 2
    <3>1. i \in 1..(n + 1) /\ i # 1 /\ i - 1 = k + 1 /\ i = (k + 1) + 1 /\ k + 1 \in 0..n
      OBVIOUS
    <3>2. g[i - 1] = t[i - 1]
      BY <2>2, <3>1
    <3> HIDE DEF i
    <3>3. g[i] = Follow(g[i - 1]) /\ t[i] = Follow(t[i - 1])
      BY <1>1, <1>2, <3>1
    <3> QED BY <3>1, <3>2, <3>3
  <2> HIDE DEF Same
  <2>3. 0..n \subseteq Same
    BY <2>1, <2>2, Upwards
  <2>4. ASSUME NEW i \in 1..(n + 1)
        PROVE  g[i] = t[i]
    <3> DEFINE k == i - 1
    <3>1. k \in 0..n /\ k + 1 = i
      OBVIOUS
    <3> HIDE DEF k
    <3>2. k \in Same
      BY <2>3, <3>1
    <3> QED BY <3>1, <3>2 DEF Same
  <2>5. g = [i \in 1..(n + 1) |-> g[i]]
    BY <1>2
  <2> QED BY <2>4, <2>5
<1>3. Trail(a, n) = CHOOSE g : Follows(g)
  BY Zenon DEF Trail
<1> HIDE DEF Follows
<1> QED BY <1>1, <1>2, <1>3

(* Distinct entries that come back to the first are a cycle.                *)
Returns(t, n) ==
  /\ t = [i \in 1..(n + 1) |-> t[i]] /\ t[n + 1] = t[1]
  /\ \A i, j \in 1..n : t[i] = t[j] => i = j

LEMMA CycleIs ==
  ASSUME NEW n \in Nat \ {0}, NEW t, Returns(t, n)
  PROVE  IsCycle(t) /\ ToSet(t) = {t[i] : i \in 1..n}
<1> USE DEF Returns
<1> DEFINE S == {t[i] : i \in 1..n}
           f == [i \in 1..n |-> t[i]]
<1>1. ToSet(t) = S
  BY DEF ToSet
<1>2. f \in Injection(1..n, S) /\ f \in Surjection(1..n, S)
  BY DEF Injection, IsInjective, Surjection
<1>3. Cardinality(S) = n
  <2>1. ExistsBijection(1..n, S)
    BY <1>2 DEF ExistsBijection, Bijection
  <2> HIDE DEF S
  <2> QED BY <2>1, FS_CountingElements
<1>4. Len(t) = n + 1
  <2>1. t \in [1..(n + 1) -> {t[i] : i \in 1..(n + 1)}]
    OBVIOUS
  <2> DEFINE m == n + 1
  <2>2. t \in [1..m -> {t[i] : i \in 1..m}] /\ m \in Nat
    BY <2>1
  <2> HIDE DEF m
  <2>3. Len(t) = m
    BY <2>2
  <2> QED BY <2>3 DEF m
<1> HIDE DEF S
<1>5. Len(t) - 1 = n
  BY <1>4
<1> QED BY <1>1, <1>3, <1>5, Zenon DEF IsCycle, S

-----------------------------------------------------------------------------
(* The geometry of the buffer: its chunks lie one behind the other.         *)
Divided == NumDatalines % NumSubpaths = 0

LEMMA Quotient ==
  ASSUME NEW a \in Nat, NEW d \in Nat \ {0}
  PROVE  /\ a \div d \in Nat /\ a % d \in 0..(d - 1)
         /\ a = d * (a \div d) + (a % d)
BY SMTT(30)

LEMMA Sizes ==
  ASSUME opt \in Commands
  PROVE  /\ NumSubpaths \in Nat \ {0} /\ Cacheline \in Nat \ {0, 1}
         /\ BufferOffset \in Nat /\ BufferSize \in Nat /\ opt.pool \in Nat \ {0}
         /\ NumDatalines \in Nat \ {0} /\ NumDatalines * Cacheline <= BufferSize
         /\ NumDatalines >= NumSubpaths
         /\ Addresses = 0..(BufferOffset + BufferSize + opt.pool - 1)
<1>1. /\ NumSubpaths \in Nat \ {0} /\ Cacheline \in Nat \ {0, 1}
      /\ BufferOffset \in Nat /\ BufferSize \in Nat /\ opt.pool \in Nat \ {0}
      /\ BufferSize >= NumSubpaths * Cacheline
  <2>1. /\ opt.numSubpaths \in Nat \ {0} /\ opt.dataset \in Nat \ {0}
        /\ opt.bufferfactor \in Nat \ {0} /\ opt.bufferoffset \in Nat
        /\ opt.cacheline \in Nat /\ opt.cacheline >= 2 /\ opt.pool \in Nat \ {0}
        /\ opt.dataset * opt.bufferfactor >= opt.numSubpaths * opt.cacheline
    BY SizeAssumption
  <2>2. opt.dataset * opt.bufferfactor \in Nat
    BY <2>1
  <2> QED BY <2>1, <2>2
      DEF NumSubpaths, Cacheline, BufferOffset, BufferSize, Dataset, BufferFactor
<1> DEFINE N == NumSubpaths
           c == Cacheline
           B == BufferSize
           D == NumDatalines
           r == B % c
<1>2. D \in Nat /\ r \in 0..(c - 1) /\ B = c * D + r
  BY <1>1, Quotient DEF NumDatalines
<1>3. N \in Nat \ {0} /\ c \in Nat \ {0, 1} /\ B \in Nat /\ B >= N * c
  BY <1>1
<1>4. Addresses = 0..(BufferOffset + BufferSize + opt.pool - 1)
  BY DEF Addresses
<1>5. D >= N /\ D * c <= B /\ D # 0
  <2> HIDE DEF N, c, B, D, r
  <2>1. c * D \in Nat /\ D * c = c * D /\ N * c = c * N /\ c * N \in Nat
    BY <1>2, <1>3
  <2>2. D * c <= B
    BY <1>2, <1>3, <2>1
  <2>3. CASE N >= D + 1
    <3>1. c * N >= c * (D + 1) /\ c * (D + 1) = c * D + c
      BY <1>2, <1>3, <2>3
    <3> QED BY <1>2, <1>3, <2>1, <3>1
  <2>4. CASE D >= N
    BY <1>2, <1>3, <2>2, <2>4
  <2> QED BY <1>2, <1>3, <2>3, <2>4
<1> QED BY <1>1, <1>2, <1>4, <1>5

LEMMA Geometry ==
  ASSUME opt \in Commands, Divided
  PROVE  /\ ChunkLines \in Nat \ {0} /\ ChunkSize \in Nat \ {0}
         /\ ChunkSize = ChunkLines * Cacheline
         /\ NumSubpaths * ChunkLines = NumDatalines
         /\ ChunkStart(0) = BufferOffset
         /\ \A s \in Nat : /\ ChunkStart(s) \in Nat /\ ChunkStart(s) >= BufferOffset
                           /\ ChunkStart(s + 1) = ChunkStart(s) + ChunkSize
         /\ \A s, t \in Nat : s < t => ChunkStart(s) + ChunkSize <= ChunkStart(t)
         /\ ChunkStart(NumSubpaths) <= BufferOffset + BufferSize
<1> DEFINE N == NumSubpaths
           c == Cacheline
           D == NumDatalines
           K == ChunkLines
           S == ChunkSize
           o == BufferOffset
<1>1. /\ N \in Nat \ {0} /\ c \in Nat \ {0, 1} /\ D \in Nat \ {0} /\ o \in Nat
      /\ D >= N /\ D * c <= BufferSize /\ BufferSize \in Nat
  BY Sizes
<1>2. K \in Nat /\ D = N * K
  <2>1. K \in Nat /\ D = N * K + (D % N) /\ D % N = 0
    BY <1>1, Quotient DEF ChunkLines, Divided
  <2>2. N * K \in Nat
    BY <1>1, <2>1
  <2> QED BY <2>1, <2>2
<1>3. S = K * c /\ \A s : ChunkStart(s) = o + s * S
  BY DEF ChunkSize, ChunkStart
<1> HIDE DEF N, c, D, K, S, o
<1>4. K # 0 /\ S \in Nat \ {0}
  <2>1. K # 0
    BY <1>1, <1>2
  <2> QED BY <1>1, <1>2, <1>3, <2>1
<1>5. ASSUME NEW s \in Nat
      PROVE  /\ ChunkStart(s) \in Nat /\ ChunkStart(s) >= o
             /\ ChunkStart(s + 1) = ChunkStart(s) + S
  <2>1. s * S \in Nat /\ (s + 1) * S = s * S + S
    BY <1>4
  <2>2. ChunkStart(s) = o + s * S /\ ChunkStart(s + 1) = o + (s + 1) * S
    BY <1>3
  <2> QED BY <1>1, <1>4, <2>1, <2>2
<1>6. ASSUME NEW s \in Nat, NEW t \in Nat, s < t
      PROVE  ChunkStart(s) + S <= ChunkStart(t)
  <2> DEFINE d == t - (s + 1)
  <2>1. d \in Nat /\ t = (s + 1) + d
    BY <1>6
  <2> HIDE DEF d
  <2>2. ((s + 1) + d) * S = (s + 1) * S + d * S /\ d * S \in Nat /\ (s + 1) * S \in Nat
    BY <1>4, <2>1
  <2>3. ChunkStart(t) = o + (s + 1) * S + d * S
    BY <1>1, <1>3, <2>1, <2>2
  <2>4. ChunkStart(s + 1) = ChunkStart(s) + S /\ ChunkStart(s) \in Nat
        /\ ChunkStart(s + 1) = o + (s + 1) * S
    BY <1>3, <1>5
  <2> QED BY <1>1, <1>4, <2>2, <2>3, <2>4
<1>7. ChunkStart(0) = o
  <2>1. 0 * S = 0 /\ ChunkStart(0) = o + 0 * S
    BY <1>3, <1>4
  <2> QED BY <1>1, <2>1
<1>8. ChunkStart(N) <= o + BufferSize
  <2>1. N * S = D * c
    BY <1>1, <1>2, <1>3, SMTT(30)
  <2>2. ChunkStart(N) = o + N * S /\ N * S \in Nat
    BY <1>1, <1>3, <1>4
  <2> QED BY <1>1, <2>1, <2>2
<1> QED BY <1>2, <1>3, <1>4, <1>5, <1>6, <1>7, <1>8 DEF N, c, D, K, S, o

(* A chunk is part of the buffer, and no two have a word in common.         *)
LEMMA Chunks ==
  ASSUME opt \in Commands, Divided, NEW s \in 0..(NumSubpaths - 1)
  PROVE  /\ Chunk(s) = ChunkStart(s)..(ChunkStart(s + 1) - 1)
         /\ ChunkStart(s) \in Chunk(s)
         /\ Chunk(s) \subseteq Addresses
         /\ Chunk(s) \subseteq BufferOffset..(BufferOffset + BufferSize - 1)
         /\ \A t \in 0..(NumSubpaths - 1) : s # t => Chunk(s) \cap Chunk(t) = {}
<1> DEFINE N == NumSubpaths
           S == ChunkSize
           o == BufferOffset
           B == BufferSize
           p == opt.pool
           Start(t) == ChunkStart(t)
<1>1. N \in Nat /\ o \in Nat /\ B \in Nat /\ p \in Nat \ {0} /\ Addresses = 0..(o + B + p - 1)
  BY Sizes
<1>2. /\ S \in Nat \ {0}
      /\ \A t \in Nat : Start(t) \in Nat /\ Start(t) >= o /\ Start(t + 1) = Start(t) + S
      /\ \A t, u \in Nat : t < u => Start(t) + S <= Start(u)
      /\ Start(N) <= o + B
  BY Geometry
<1>3. \A t : Chunk(t) = Start(t)..(Start(t) + S - 1)
  BY DEF Chunk
<1>4. s \in 0..(N - 1)
  OBVIOUS
<1> HIDE DEF N, S, o, B, p, Start
<1>5. s \in Nat /\ N \in Nat /\ s < N
  BY <1>1, <1>4
<1> DEFINE z == Start(s)
           y == Start(s + 1)
<1>6. z \in Nat /\ z >= o /\ y = z + S /\ z + S <= Start(N) /\ Start(N) \in Nat
  BY <1>2, <1>5
<1>7. Chunk(s) = z..(z + S - 1)
  BY <1>3
<1> HIDE DEF z, y
<1>8. /\ z..(z + S - 1) = z..(y - 1) /\ z \in z..(z + S - 1)
      /\ z..(z + S - 1) \subseteq o..(o + B - 1)
      /\ z..(z + S - 1) \subseteq 0..(o + B + p - 1)
  <2>1. S \in Nat \ {0} /\ Start(N) <= o + B
    BY <1>2
  <2>2. z + S <= o + B
    BY <1>1, <1>6, <2>1
  <2> QED BY <1>1, <1>6, <2>1, <2>2
<1>9. ASSUME NEW t \in 0..(N - 1), s # t
      PROVE  Chunk(s) \cap Chunk(t) = {}
  <2> DEFINE u == Start(t)
  <2>1. t \in Nat /\ (s < t \/ t < s)
    BY <1>1, <1>5, <1>9
  <2>2. u \in Nat /\ (z + S <= u \/ u + S <= z)
    BY <1>2, <1>5, <2>1 DEF z
  <2>3. Chunk(t) = u..(u + S - 1)
    BY <1>3
  <2> HIDE DEF u
  <2>4. S \in Nat
    BY <1>2
  <2> QED BY <1>6, <1>7, <2>2, <2>3, <2>4
<1>10. Chunk(s) = z..(y - 1) /\ z \in Chunk(s)
       /\ Chunk(s) \subseteq Addresses /\ Chunk(s) \subseteq o..(o + B - 1)
  BY <1>1, <1>7, <1>8
<1> QED BY <1>9, <1>10 DEF N, o, B, z, y, Start

-----------------------------------------------------------------------------
(* The path under construction is a sequence p of n distinct entries, each  *)
(* word of the buffer w but the last holding the next one.                  *)
LineStarts == {BufferOffset + l * Cacheline : l \in 0..(NumDatalines - 1)}
Linked(w, p, n) ==
  /\ p \in [1..n -> Addresses]
  /\ \A i, j \in 1..n : p[i] = p[j] => i = j
  /\ \A i \in 1..(n - 1) : w[p[i]] = p[i + 1]
  /\ Zipf \/ \A i \in 1..n : p[i] \in LineStarts

(* Chunk s has the entries after the n-th up to the m-th, and the first of  *)
(* them is its first word.                                                  *)
Piece(p, n, m, s) ==
  /\ n < m /\ p[n + 1] = ChunkStart(s)
  /\ \A i \in (n + 1)..m : p[i] \in Chunk(s)

(* The first k chunks have the first b[k] entries, chunk s those from       *)
(* b[s] + 1 to b[s + 1].                                                    *)
Segments(p, b, k) ==
  /\ b \in [0..k -> Nat] /\ b[0] = 0
  /\ \A s \in 0..(k - 1) : Piece(p, b[s], b[s + 1], s) /\ b[s + 1] <= b[k]
  /\ \A i \in 1..b[k] : \E s \in 0..(k - 1) : i \in (b[s] + 1)..b[s + 1]

(* One more chunk.                                                          *)
LEMMA AddSegment ==
  ASSUME NEW k \in Nat, NEW p, NEW b, NEW q, NEW m \in Nat, Segments(p, b, k),
         \A i \in 1..b[k] : q[i] = p[i], Piece(q, b[k], m, k)
  PROVE  \E d : Segments(q, d, k + 1) /\ d[k + 1] = m
<1> DEFINE l == k + 1
           d == [s \in 0..l |-> IF s = l THEN m ELSE b[s]]
<1>1. l \in Nat /\ k < l /\ l - 1 = k
  OBVIOUS
<1>2. b \in [0..k -> Nat] /\ b[0] = 0 /\ b[k] \in Nat /\ b[k] < m
  BY DEF Segments, Piece
<1>3. \A s \in 0..k : d[s] = b[s]
  OBVIOUS
<1>4. d \in [0..l -> Nat] /\ d[0] = 0 /\ d[l] = m
  BY <1>2
<1>5. ASSUME NEW s \in 0..k
      PROVE  Piece(q, d[s], d[s + 1], s) /\ d[s + 1] <= m
  <2>1. CASE s = k
    <3>1. d[s] = b[k] /\ d[s + 1] = m
      BY <1>3, <1>4, <2>1
    <3> QED BY <2>1, <3>1
  <2>2. CASE s # k
    <3> DEFINE c == b[s]
               e == b[s + 1]
    <3>1. s \in 0..(k - 1) /\ s + 1 \in 0..k
      BY <2>2
    <3>2. c \in Nat /\ e \in Nat /\ Piece(p, c, e, s) /\ e <= b[k]
      BY <1>2, <3>1 DEF Segments
    <3>3. d[s] = c /\ d[s + 1] = e
      BY <1>3, <3>1
    <3> HIDE DEF c, e, d, l
    <3>4. \A i \in (c + 1)..e : q[i] = p[i]
      BY <1>2, <3>2
    <3>5. Piece(q, c, e, s)
      BY <3>2, <3>4 DEF Piece
    <3> QED BY <1>2, <3>2, <3>3, <3>5
  <2> QED BY <2>1, <2>2
<1>6. ASSUME NEW i \in 1..m
      PROVE  \E s \in 0..k : i \in (d[s] + 1)..d[s + 1]
  <2>1. CASE i <= b[k]
    <3>1. PICK s \in 0..(k - 1) : i \in (b[s] + 1)..b[s + 1]
      BY <1>2, <2>1 DEF Segments
    <3>2. s \in 0..k /\ s + 1 \in 0..k
      OBVIOUS
    <3> QED BY <1>3, <3>1, <3>2
  <2>2. CASE ~(i <= b[k])
    <3>1. d[k] = b[k] /\ d[k + 1] = m
      BY <1>3, <1>4
    <3>2. i \in (b[k] + 1)..m
      BY <1>2, <2>2
    <3> QED BY <3>1, <3>2
  <2> QED BY <2>1, <2>2
<1> HIDE DEF d
<1> QED BY <1>1, <1>4, <1>5, <1>6 DEF Segments, l

(* A path r of L entries is put behind the path p of n entries.             *)
Joined(p, n, r, L) == [i \in 1..(n + L) |-> IF i <= n THEN p[i] ELSE r[i - n]]

LEMMA Join ==
  ASSUME NEW w, NEW p, NEW n \in Nat, NEW r, NEW L \in Nat \ {0},
         Linked(w, p, n), Linked(w, r, L), n # 0 => w[p[n]] = r[1],
         \A i \in 1..n, j \in 1..L : p[i] # r[j]
  PROVE  Linked(w, Joined(p, n, r, L), n + L)
<1> DEFINE q == Joined(p, n, r, L)
           m == n + L
<1>1. /\ \A i \in 1..n : p[i] \in Addresses
      /\ \A i \in 1..L : r[i] \in Addresses
  BY DEF Linked
<1>2. /\ \A i, j \in 1..n : p[i] = p[j] => i = j
      /\ \A i, j \in 1..L : r[i] = r[j] => i = j
  BY DEF Linked
<1>3. /\ \A i \in 1..(n - 1) : w[p[i]] = p[i + 1]
      /\ \A i \in 1..(L - 1) : w[r[i]] = r[i + 1]
  BY DEF Linked
<1>4. /\ Zipf \/ \A i \in 1..n : p[i] \in LineStarts
      /\ Zipf \/ \A i \in 1..L : r[i] \in LineStarts
  BY DEF Linked
<1>5. m \in Nat /\ n < m /\ m = n + L
  OBVIOUS
<1>6. \A i \in 1..n : q[i] = p[i]
  BY DEF Joined
<1>7. \A j \in 1..L : q[n + j] = r[j]
  BY DEF Joined
<1>8. ASSUME NEW i \in 1..m
      PROVE  i \in 1..n \/ \E j \in 1..L : i = n + j
  <2>1. i \in 1..n \/ (i - n \in 1..L /\ i = n + (i - n))
    OBVIOUS
  <2> QED BY <2>1
<1>9. q = [i \in 1..m |-> q[i]]
  BY DEF Joined
<1> HIDE DEF q, m
<1>10. \A i \in 1..m : \/ i \in 1..n /\ q[i] = p[i]
                      \/ \E j \in 1..L : i = n + j /\ q[i] = r[j]
  BY <1>6, <1>7, <1>8
<1>11. ASSUME NEW i \in 1..m PROVE q[i] \in Addresses
  BY <1>1, <1>10, Zenon
<1>12. q \in [1..m -> Addresses]
  BY <1>9, <1>11
<1>13. ASSUME NEW i \in 1..m, NEW j \in 1..m, q[i] = q[j]
       PROVE  i = j
  <2>1. CASE i \in 1..n /\ j \in 1..n
    <3>1. p[i] = p[j]
      <4>1. q[i] = p[i] /\ q[j] = p[j]
        BY <1>6, <2>1, Zenon
      <4> QED BY <1>13, <4>1
    <3> QED BY <1>2, <2>1, <3>1, Zenon
  <2> DEFINE Behind(k, h) == h \in 1..L /\ k = n + h /\ q[k] = r[h]
  <2>2. ASSUME i \in 1..n, NEW h, Behind(j, h) PROVE FALSE
    <3>1. q[i] = p[i] /\ q[j] = r[h] /\ p[i] # r[h]
      BY <1>6, <2>2
    <3> QED BY <1>13, <3>1
  <2>3. ASSUME j \in 1..n, NEW h, Behind(i, h) PROVE FALSE
    <3>1. q[j] = p[j] /\ q[i] = r[h] /\ p[j] # r[h]
      BY <1>6, <2>3
    <3> QED BY <1>13, <3>1
  <2>4. ASSUME NEW g, Behind(i, g), NEW h, Behind(j, h) PROVE i = j
    <3>1. g \in 1..L /\ h \in 1..L /\ i = n + g /\ j = n + h /\ r[g] = r[h]
      BY <1>13, <2>4
    <3>2. g = h
      BY <1>2, <3>1, Zenon
    <3> QED BY <3>1, <3>2
  <2>5. (i \in 1..n \/ \E h : Behind(i, h)) /\ (j \in 1..n \/ \E h : Behind(j, h))
    BY <1>10, <1>13, Zenon
  <2> HIDE DEF Behind
  <2> QED BY <2>1, <2>2, <2>3, <2>4, <2>5, Zenon
<1>14. ASSUME NEW i \in 1..(m - 1)
       PROVE  w[q[i]] = q[i + 1]
  <2>1. CASE i < n
    <3>1. i \in 1..(n - 1) /\ i \in 1..n /\ i + 1 \in 1..n
      BY <1>5, <2>1
    <3> QED BY <1>3, <1>6, <3>1, Zenon
  <2>2. CASE i = n
    <3>1. n \in 1..n /\ n # 0 /\ 1 \in 1..L
      BY <2>2
    <3>2. q[n] = p[n] /\ q[n + 1] = r[1]
      BY <1>6, <1>7, <3>1, Zenon
    <3> QED BY <2>2, <3>1, <3>2, Zenon
  <2>3. CASE n < i
    <3> DEFINE j == i - n
    <3>1. i = n + j /\ i + 1 = n + (j + 1) /\ j \in 1..(L - 1) /\ j \in 1..L /\ j + 1 \in 1..L
      BY <1>5, <2>3
    <3> HIDE DEF j
    <3>2. q[i] = r[j] /\ q[i + 1] = r[j + 1]
      BY <1>7, <3>1, Zenon
    <3> QED BY <1>3, <3>1, <3>2, Zenon
  <2> QED BY <1>5, <2>1, <2>2, <2>3
<1>15. Zipf \/ \A i \in 1..m : q[i] \in LineStarts
  BY <1>4, <1>10, Zenon
<1> QED BY <1>12, <1>13, <1>14, <1>15, Zenon DEF Linked, q, m

-----------------------------------------------------------------------------
(* What distribute() has built, before a chunk, within a chunk that is      *)
(* drawn line by line, and at last.                                         *)
Upto(p, b) ==
  /\ Linked(mem, p, entries) /\ Segments(p, b, chunk) /\ b[chunk] = entries
  /\ entries # 0 => mem[p[entries]] = ChunkStart(chunk)
Within(p, b) ==
  /\ Linked(mem, p, entries) /\ Segments(p, b, chunk)
  /\ Piece(p, b[chunk], entries, chunk) /\ previdx = p[entries]
Whole(p, b) ==
  /\ Linked(mem, p, entries) /\ Segments(p, b, NumSubpaths)
  /\ b[NumSubpaths] = entries /\ mem[p[entries]] = BufferOffset

PathPcs == {"check", "chunk", "draw", "collect", "split", "done"}
PathInv ==
  /\ opt \in Commands /\ entries \in Nat
  /\ pc \in PathPcs => mem = [a \in Addresses |-> mem[a]]
  /\ pc = "check" => entries = 0 /\ chunk = 0
  /\ pc \in {"chunk", "draw"} => Divided /\ chunk \in 0..(NumSubpaths - 1)
  /\ pc = "chunk" => \E p, b : Upto(p, b)
  /\ pc = "draw" => Zipf /\ \E p, b : Within(p, b)
  /\ pc \in {"collect", "split"} =>
       Divided /\ chunk = NumSubpaths /\ \E p, b : Whole(p, b)
  /\ pc \in {"chunk", "collect", "split"} /\ ~Zipf => entries = chunk * ChunkLines

(* The command line, and what is computed from it, stay.                    *)
LEMMA SameOpt ==
  ASSUME opt' = opt
  PROVE  /\ NumSubpaths' = NumSubpaths /\ BufferOffset' = BufferOffset
         /\ BufferSize' = BufferSize /\ Cacheline' = Cacheline
         /\ NumDatalines' = NumDatalines /\ ChunkLines' = ChunkLines
         /\ ChunkSize' = ChunkSize /\ Addresses' = Addresses /\ Zipf' = Zipf
         /\ LineStarts' = LineStarts /\ Divided' = Divided
<1>1. /\ NumSubpaths' = NumSubpaths /\ BufferOffset' = BufferOffset
      /\ BufferSize' = BufferSize /\ Cacheline' = Cacheline /\ Zipf' = Zipf
  BY DEF NumSubpaths, BufferOffset, BufferSize, Dataset, BufferFactor, Cacheline, Zipf
<1>2. NumDatalines' = NumDatalines
  BY <1>1 DEF NumDatalines
<1>3. ChunkLines' = ChunkLines
  BY <1>1, <1>2 DEF ChunkLines
<1> QED BY <1>1, <1>2, <1>3 DEF ChunkSize, Addresses, LineStarts, Divided

LEMMA UptoNext ==
  ASSUME opt' = opt, NEW p, NEW b, Linked(mem', p, entries'),
         Segments(p, b, chunk'), b[chunk'] = entries',
         entries' # 0 => mem'[p[entries']] = ChunkStart(chunk')
  PROVE  Upto(p, b)'
<1>1. Linked(mem, p, entries)'
  BY SameOpt DEF Linked
<1>2. Segments(p, b, chunk)'
  BY SameOpt DEF Segments, Piece, Chunk, ChunkStart
<1>3. (entries # 0 => mem[p[entries]] = ChunkStart(chunk))'
  BY SameOpt DEF ChunkStart
<1> QED BY <1>1, <1>2, <1>3 DEF Upto

LEMMA WithinNext ==
  ASSUME opt' = opt, NEW p, NEW b, Linked(mem', p, entries'),
         Segments(p, b, chunk'), Piece(p, b[chunk'], entries', chunk'),
         previdx' = p[entries']
  PROVE  Within(p, b)'
<1>1. Linked(mem, p, entries)'
  BY SameOpt DEF Linked
<1>2. Segments(p, b, chunk)'
  BY SameOpt DEF Segments, Piece, Chunk, ChunkStart
<1>3. Piece(p, b[chunk], entries, chunk)'
  BY SameOpt DEF Piece, Chunk, ChunkStart
<1> QED BY <1>1, <1>2, <1>3 DEF Within

LEMMA WholeNext ==
  ASSUME opt' = opt, NEW p, NEW b, Linked(mem', p, entries'),
         Segments(p, b, NumSubpaths), b[NumSubpaths] = entries',
         mem'[p[entries']] = BufferOffset
  PROVE  Whole(p, b)'
<1>1. Linked(mem, p, entries)'
  BY SameOpt DEF Linked
<1>2. Segments(p, b, NumSubpaths)'
  BY SameOpt DEF Segments, Piece, Chunk, ChunkStart
<1> QED BY SameOpt, <1>1, <1>2 DEF Whole

(* A chunk is complete, and linked to the next.                             *)
LEMMA ChunkDone ==
  ASSUME opt \in Commands, opt' = opt, Divided, chunk \in 0..(NumSubpaths - 1),
         NEW p, NEW b, entries' \in Nat, mem' = [a \in Addresses |-> mem'[a]],
         Linked(mem', p, entries'), Segments(p, b, chunk),
         Piece(p, b[chunk], entries', chunk),
         mem'[p[entries']] = NextStart(chunk), AfterChunk,
         ~Zipf => entries' = (chunk + 1) * ChunkLines
  PROVE  PathInv'
<1> DEFINE N == NumSubpaths
           k == chunk + 1
<1>1. N \in Nat \ {0} /\ chunk \in Nat /\ chunk < N /\ chunk \in 0..(N - 1)
  BY Sizes
<1>2. PICK d : Segments(p, d, k) /\ d[k] = entries'
  BY <1>1, AddSegment
<1>3. chunk' = k
  BY DEF AfterChunk
<1>4. mem'[p[entries']] = ChunkStart(k % N)
  BY DEF NextStart
<1>5. /\ NumSubpaths' = N /\ Divided' /\ opt' \in Commands
      /\ mem' = [a \in Addresses' |-> mem'[a]]
      /\ ~Zipf' => entries' = chunk' * ChunkLines'
  BY <1>3, SameOpt
<1>6. CASE k < N
  <2>1. pc' = "chunk" /\ k \in 0..(N - 1) /\ k % N = k
    BY <1>1, <1>6 DEF AfterChunk
  <2>2. Upto(p, d)'
    BY <1>2, <1>3, <1>4, <2>1, UptoNext
  <2> QED BY <1>3, <1>5, <2>1, <2>2 DEF PathInv, PathPcs
<1>7. CASE ~(k < N)
  <2>1. pc' = "collect" /\ k = N /\ k % N = 0
    BY <1>1, <1>7 DEF AfterChunk
  <2>2. ChunkStart(0) = BufferOffset
    BY Geometry
  <2>3. Whole(p, d)'
    BY <1>2, <1>4, <2>1, <2>2, WholeNext
  <2> QED BY <1>3, <1>5, <2>1, <2>3 DEF PathInv, PathPcs
<1> QED BY <1>6, <1>7

-----------------------------------------------------------------------------
(* The segments are those of the path up to there.                          *)
LEMMA SegmentsAgree ==
  ASSUME NEW k \in Nat, NEW p, NEW b, NEW q, Segments(p, b, k),
         \A i \in 1..b[k] : q[i] = p[i]
  PROVE  Segments(q, b, k)
<1>1. b \in [0..k -> Nat] /\ b[0] = 0 /\ b[k] \in Nat
  BY DEF Segments
<1>2. ASSUME NEW s \in 0..(k - 1)
      PROVE  Piece(q, b[s], b[s + 1], s) /\ b[s + 1] <= b[k]
  <2> DEFINE c == b[s]
             e == b[s + 1]
  <2>1. c \in Nat /\ e \in Nat /\ Piece(p, c, e, s) /\ e <= b[k]
    <3>1. s \in 0..k /\ s + 1 \in 0..k
      OBVIOUS
    <3>2. c \in Nat /\ e \in Nat
      BY <1>1, <3>1
    <3> QED BY <3>2, Zenon DEF Segments
  <2> HIDE DEF c, e
  <2>2. \A i \in (c + 1)..e : q[i] = p[i]
    BY <1>1, <2>1
  <2>3. Piece(q, c, e, s)
    BY <2>1, <2>2 DEF Piece
  <2> QED BY <2>1, <2>3 DEF c, e
<1> QED BY <1>1, <1>2 DEF Segments

(* The entries of the first k chunks lie before chunk k; the first of them  *)
(* is the first word of the buffer.                                         *)
LEMMA Before ==
  ASSUME opt \in Commands, Divided, NEW k \in Nat, k <= NumSubpaths,
         NEW p, NEW b, Segments(p, b, k)
  PROVE  /\ \A i \in 1..b[k] : BufferOffset <= p[i] /\ p[i] < ChunkStart(k)
         /\ k # 0 => p[1] = BufferOffset /\ b[k] \in Nat \ {0}
<1>1. /\ ChunkSize \in Nat \ {0} /\ ChunkStart(0) = BufferOffset /\ BufferOffset \in Nat
      /\ \A s \in Nat : /\ ChunkStart(s) \in Nat /\ ChunkStart(s) >= BufferOffset
                        /\ ChunkStart(s + 1) = ChunkStart(s) + ChunkSize
      /\ \A s, t \in Nat : s < t => ChunkStart(s) + ChunkSize <= ChunkStart(t)
  BY Geometry, Sizes
<1>2. ASSUME NEW i \in 1..b[k]
      PROVE  BufferOffset <= p[i] /\ p[i] < ChunkStart(k)
  <2>1. PICK s \in 0..(k - 1) : i \in (b[s] + 1)..b[s + 1]
    BY DEF Segments
  <2>2. p[i] \in Chunk(s)
    BY <2>1 DEF Segments, Piece
  <2> DEFINE z == ChunkStart(s)
  <2>3. p[i] \in z..(z + ChunkSize - 1)
    BY <2>2 DEF Chunk
  <2>4. z \in Nat /\ z >= BufferOffset /\ z + ChunkSize <= ChunkStart(k) /\ ChunkStart(k) \in Nat
    <3>1. s \in Nat /\ s < k
      OBVIOUS
    <3> QED BY <1>1, <3>1
  <2>5. ChunkSize \in Nat /\ BufferOffset \in Nat
    BY <1>1
  <2> HIDE DEF z
  <2> QED BY <2>3, <2>4, <2>5
<1>3. ASSUME k # 0
      PROVE  p[1] = BufferOffset /\ b[k] \in Nat \ {0}
  <2>1. 0 \in 0..(k - 1) /\ 0 + 1 = 1 /\ 1 \in 0..k /\ k \in 0..k
    BY <1>3
  <2>2. b \in [0..k -> Nat] /\ b[0] = 0 /\ Piece(p, b[0], b[0 + 1], 0) /\ b[0 + 1] <= b[k]
    BY <2>1 DEF Segments
  <2>3. p[0 + 1] = ChunkStart(0) /\ 0 < b[1]
    BY <2>1, <2>2 DEF Piece
  <2>4. p[1] = BufferOffset
    BY <1>1, <2>1, <2>3
  <2>5. b[k] \in Nat /\ b[1] \in Nat /\ b[1] <= b[k]
    BY <2>1, <2>2
  <2> QED BY <2>3, <2>4, <2>5
<1> QED BY <1>2, <1>3

(* The lines of a chunk.                                                    *)
LEMMA LineOfChunk ==
  ASSUME opt \in Commands, Divided, NEW k \in 0..(NumSubpaths - 1),
         NEW l \in 0..(ChunkLines - 1)
  PROVE  LET line == ChunkStart(k) + l * Cacheline
         IN  /\ line \in LineStarts /\ line \in Chunk(k) /\ line \in Addresses
             /\ line..(line + Cacheline - 1) \subseteq Chunk(k)
<1> DEFINE N == NumSubpaths
           K == ChunkLines
           c == Cacheline
           S == ChunkSize
           o == BufferOffset
           z == ChunkStart(k)
           line == z + l * c
           D == NumDatalines
           C == Chunk(k)
           j == k * K + l
<1>1. /\ N \in Nat \ {0} /\ K \in Nat \ {0} /\ c \in Nat \ {0, 1} /\ S \in Nat /\ o \in Nat
      /\ S = K * c /\ N * K = D /\ z \in Nat /\ D \in Nat
  BY Geometry, Sizes
<1>2. z = o + k * S
  BY DEF ChunkStart
<1>3. C = z..(z + S - 1) /\ C \subseteq Addresses
  BY Chunks DEF Chunk
<1>4. LineStarts = {o + i * c : i \in 0..(D - 1)}
  BY DEF LineStarts
<1>5. k \in 0..(N - 1) /\ l \in 0..(K - 1)
  OBVIOUS
<1> HIDE DEF N, K, c, S, o, z, D, C
<1>6. l * c \in Nat /\ l * c + c <= S
  <2>1. l \in Nat /\ l + 1 <= K
    BY <1>1, <1>5
  <2>2. (l + 1) * c <= K * c /\ (l + 1) * c = l * c + c /\ l * c \in Nat
    BY <1>1, <2>1, SMTT(30)
  <2> QED BY <1>1, <2>2
<1>7. line \in Nat /\ line \in C /\ line..(line + c - 1) \subseteq C
  BY <1>1, <1>3, <1>6
<1>8. j \in 0..(D - 1)
  <2>1. k \in Nat /\ k + 1 <= N /\ l \in Nat /\ l + 1 <= K
    BY <1>1, <1>5
  <2>2. (k + 1) * K <= N * K /\ (k + 1) * K = k * K + K /\ k * K \in Nat
    BY <1>1, <2>1, SMTT(30)
  <2> QED BY <1>1, <2>1, <2>2
<1>9. line = o + j * c
  <2>1. k \in Nat /\ l \in Nat
    BY <1>1, <1>5
  <2>2. k * S = (k * K) * c
    BY <1>1, <2>1, SMTT(30)
  <2>3. (k * K + l) * c = (k * K) * c + l * c /\ (k * K) * c \in Nat
    BY <1>1, <2>1, SMTT(30)
  <2> QED BY <1>1, <1>2, <1>6, <2>2, <2>3
<1>10. line \in LineStarts
  BY <1>4, <1>8, <1>9
<1> QED BY <1>3, <1>7, <1>10 DEF z, c, C

-----------------------------------------------------------------------------
(* The check lets the first chunk begin, on an empty path.                  *)
LEMMA CheckKeeps ==
  ASSUME PathInv, Check, opt' = opt
  PROVE  PathInv'
<1>1. pc = "check" /\ UNCHANGED <<mem, entries, chunk>> /\ pc' \in {"exited", "chunk"}
  BY DEF Check, pathVars
<1>2. /\ entries' = 0 /\ chunk' = 0 /\ opt' \in Commands
      /\ mem' = [a \in Addresses' |-> mem'[a]]
  BY <1>1, SameOpt DEF PathInv, PathPcs
<1>3. CASE pc' = "exited"
  BY <1>2, <1>3 DEF PathInv, PathPcs
<1>4. CASE pc' = "chunk"
  <2>1. Divided /\ NumSubpaths \in Nat \ {0} /\ ChunkLines \in Nat
    <3>1. Divided
      BY <1>4 DEF Check, Divided
    <3> QED BY <3>1, Sizes, Geometry DEF PathInv
  <2> DEFINE p == [i \in 1..0 |-> 0]
             b == [s \in 0..0 |-> 0]
  <2>2. Linked(mem', p, 0)
    BY DEF Linked
  <2>3. Segments(p, b, 0) /\ b[0] = 0
    BY DEF Segments
  <2> HIDE DEF p, b
  <2>4. Upto(p, b)'
    BY <1>2, <2>2, <2>3, UptoNext
  <2>5. chunk' \in 0..(NumSubpaths' - 1) /\ Divided' /\ entries' = chunk' * ChunkLines'
    BY <1>2, <2>1, SameOpt
  <2> QED BY <1>2, <1>4, <2>4, <2>5 DEF PathInv, PathPcs
<1> QED BY <1>1, <1>3, <1>4

(* One more entry, in the chunk under construction.                         *)
LEMMA OneMore ==
  ASSUME opt \in Commands, Divided, NEW k \in 0..(NumSubpaths - 1), NEW w,
         NEW p, NEW b, NEW n \in Nat, NEW e, Zipf,
         Linked(w, p, n), Segments(p, b, k), e \in Chunk(k),
         (b[k] = n /\ e = ChunkStart(k)) \/ Piece(p, b[k], n, k),
         \A i \in 1..n : p[i] # e,
         n # 0 => w[p[n]] = e
  PROVE  \E q : /\ Linked(w, q, n + 1) /\ Segments(q, b, k)
                /\ Piece(q, b[k], n + 1, k) /\ q[n + 1] = e
<1> DEFINE r == [i \in 1..1 |-> e]
           q == Joined(p, n, r, 1)
           m == n + 1
<1>1. k \in Nat /\ e \in Addresses
  BY Chunks, Sizes
<1>2. Linked(w, r, 1)
  BY <1>1 DEF Linked
<1>3. r[1] = e /\ 1 \in Nat \ {0} /\ \A i \in 1..n, j \in 1..1 : p[i] # r[j]
  OBVIOUS
<1> HIDE DEF r
<1>4. Linked(w, q, n + 1)
  BY <1>2, <1>3, Join
<1>5. q[n + 1] = e /\ \A i \in 1..n : q[i] = p[i]
  BY <1>3 DEF Joined
<1> HIDE DEF q
<1>6. b[k] \in Nat /\ b[k] <= n
  BY <1>1 DEF Segments, Piece
<1>7. Segments(q, b, k)
  BY <1>1, <1>5, <1>6, SegmentsAgree
<1>8. Piece(q, b[k], m, k)
  <2> DEFINE c == b[k]
  <2>1. CASE c = n /\ e = ChunkStart(k)
    BY <1>5, <1>6, <2>1 DEF Piece
  <2>2. CASE Piece(p, c, n, k)
    <3> HIDE DEF c
    <3>1. c \in Nat /\ c < n /\ p[c + 1] = ChunkStart(k) /\ \A i \in (c + 1)..n : p[i] \in Chunk(k)
      BY <1>6, <2>2 DEF Piece, c
    <3>2. c < m /\ c + 1 \in 1..n
      BY <3>1
    <3>3. q[c + 1] = ChunkStart(k)
      BY <1>5, <3>1, <3>2
    <3>4. ASSUME NEW i \in (c + 1)..m PROVE q[i] \in Chunk(k)
      <4>1. (i \in 1..n /\ i \in (c + 1)..n) \/ i = n + 1
        BY <3>1
      <4> QED BY <1>5, <3>1, <4>1
    <3> HIDE DEF m
    <3>5. Piece(q, c, m, k)
      BY <3>2, <3>3, <3>4 DEF Piece
    <3> QED BY <3>5 DEF c
  <2> QED BY <2>1, <2>2
<1> QED BY <1>4, <1>5, <1>7, <1>8

(* A zipf path begins with the first word of its chunk.                     *)
LEMMA ZipfChunkKeeps ==
  ASSUME PathInv, ZipfChunk, opt' = opt
  PROVE  PathInv'
<1>1. /\ pc = "chunk" /\ Zipf /\ pc' = "draw" /\ entries' = entries + 1
      /\ previdx' = ChunkStart(chunk) /\ mem' = mem /\ chunk' = chunk
  BY DEF ZipfChunk
<1>2. /\ opt \in Commands /\ Divided /\ chunk \in 0..(NumSubpaths - 1) /\ entries \in Nat
      /\ mem = [a \in Addresses |-> mem[a]]
  BY <1>1 DEF PathInv, PathPcs
<1>3. PICK p, b : Upto(p, b)
  BY <1>1 DEF PathInv
<1>4. /\ Linked(mem, p, entries) /\ Segments(p, b, chunk) /\ b[chunk] = entries
      /\ entries # 0 => mem[p[entries]] = ChunkStart(chunk)
  BY <1>3 DEF Upto
<1>5. /\ chunk \in Nat /\ chunk <= NumSubpaths /\ ChunkStart(chunk) \in Chunk(chunk)
      /\ ChunkStart(chunk) \in Nat
  <2>1. chunk \in Nat /\ chunk <= NumSubpaths
    BY <1>2, Sizes
  <2>2. ChunkStart(chunk) \in Chunk(chunk)
    BY <1>2, Chunks
  <2> QED BY <1>2, <2>1, <2>2, Geometry
<1>6. \A i \in 1..entries : p[i] # ChunkStart(chunk)
  <2>1. \A i \in 1..b[chunk] : p[i] < ChunkStart(chunk)
    BY <1>2, <1>4, <1>5, Before
  <2>2. ~(ChunkStart(chunk) < ChunkStart(chunk))
    BY <1>5
  <2> QED BY <1>4, <2>1, <2>2
<1>7. PICK q : /\ Linked(mem, q, entries + 1) /\ Segments(q, b, chunk)
               /\ Piece(q, b[chunk], entries + 1, chunk) /\ q[entries + 1] = ChunkStart(chunk)
  <2> DEFINE e == ChunkStart(chunk)
  <2>1. /\ e \in Chunk(chunk)
        /\ (b[chunk] = entries /\ e = ChunkStart(chunk)) \/ Piece(p, b[chunk], entries, chunk)
        /\ \A i \in 1..entries : p[i] # e
        /\ entries # 0 => mem[p[entries]] = e
    BY <1>4, <1>5, <1>6
  <2> HIDE DEF e
  <2>2. \E q : /\ Linked(mem, q, entries + 1) /\ Segments(q, b, chunk)
               /\ Piece(q, b[chunk], entries + 1, chunk) /\ q[entries + 1] = e
    BY <1>1, <1>2, <1>4, <2>1, OneMore
  <2> QED BY <2>2 DEF e
<1>8. Within(q, b)'
  BY <1>1, <1>7, WithinNext
<1>9. /\ opt' \in Commands /\ entries' \in Nat /\ mem' = [a \in Addresses' |-> mem'[a]]
      /\ Divided' /\ chunk' \in 0..(NumSubpaths' - 1) /\ Zipf'
  BY <1>1, <1>2, SameOpt
<1> QED BY <1>1, <1>8, <1>9 DEF PathInv, PathPcs

-----------------------------------------------------------------------------
(* The word chosen from the free ones is one of them.                       *)
LEMMA FirstFree ==
  ASSUME NEW F \in SUBSET Nat, F # {}
  PROVE  (CHOOSE a \in F : \A b \in F : a <= b) \in F
BY Least, Zenon

(* The words of the path but the last hold the next entry, which is no 0.   *)
LEMMA LinkedIsTaken ==
  ASSUME opt \in Commands, Divided, chunk \in 0..(NumSubpaths - 1), entries \in Nat,
         NEW p, NEW b, Within(p, b)
  PROVE  \A i \in 1..(entries - 1) : mem[p[i]] # Fresh
<1>1. PICK d : Segments(p, d, chunk + 1) /\ d[chunk + 1] = entries
  <2>1. chunk \in Nat
    BY Sizes
  <2> QED BY <2>1, AddSegment DEF Within
<1>2. chunk + 1 \in Nat /\ chunk + 1 <= NumSubpaths /\ chunk + 1 # 0
  BY Sizes
<1> DEFINE k == chunk + 1
<1>3. k \in Nat /\ k <= NumSubpaths /\ k # 0 /\ Segments(p, d, k) /\ d[k] = entries
  BY <1>1, <1>2
<1> HIDE DEF k
<1>4. /\ \A i \in 1..entries : BufferOffset <= p[i]
      /\ p[1] = BufferOffset /\ BufferOffset \in Nat
  BY <1>3, Before, Sizes
<1>5. ASSUME NEW i \in 1..(entries - 1)
      PROVE  mem[p[i]] # Fresh
  <2>1. /\ i + 1 \in 1..entries /\ 1 \in 1..entries /\ i + 1 # 1
    OBVIOUS
  <2>2. mem[p[i]] = p[i + 1]
    BY DEF Within, Linked
  <2>3. p[i + 1] # p[1]
    BY <2>1 DEF Within, Linked
  <2>4. p[i + 1] \in Addresses
    BY <2>1 DEF Within, Linked
  <2>5. p[i + 1] \in Int /\ BufferOffset <= p[i + 1]
    BY <1>4, <2>1, <2>4 DEF Addresses
  <2> QED BY <1>4, <2>2, <2>3, <2>5 DEF Fresh
<1> QED BY <1>5

(* The word of the last entry is overwritten.                               *)
LEMMA PointLast ==
  ASSUME opt \in Commands, entries \in Nat, chunk \in 0..(NumSubpaths - 1),
         mem = [a \in Addresses |-> mem[a]], NEW p, NEW b, Within(p, b),
         NEW e, NEW v, v = [mem EXCEPT ![previdx] = e]
  PROVE  /\ entries \in 1..entries /\ p[entries] \in Addresses
         /\ Linked(v, p, entries) /\ v[p[entries]] = e /\ v = [a \in Addresses |-> v[a]]
<1>1. /\ p \in [1..entries -> Addresses] /\ previdx = p[entries] /\ entries \in 1..entries
      /\ \A i, j \in 1..entries : p[i] = p[j] => i = j
      /\ \A i \in 1..(entries - 1) : mem[p[i]] = p[i + 1]
      /\ Linked(mem, p, entries)
  <2>1. Linked(mem, p, entries) /\ Segments(p, b, chunk) /\ Piece(p, b[chunk], entries, chunk)
        /\ previdx = p[entries]
    BY DEF Within
  <2>2. chunk \in 0..chunk
    BY Sizes
  <2>3. b[chunk] \in Nat /\ b[chunk] < entries
    BY <2>1, <2>2 DEF Segments, Piece
  <2> QED BY <2>1, <2>3 DEF Linked
<1>2. p[entries] \in Addresses
  BY <1>1
<1>3. v[p[entries]] = e /\ v = [a \in Addresses |-> v[a]]
  BY <1>1, <1>2
<1>4. ASSUME NEW i \in 1..(entries - 1)
      PROVE  v[p[i]] = p[i + 1]
  <2>1. i \in 1..entries /\ i # entries
    OBVIOUS
  <2>2. p[i] # previdx /\ p[i] \in Addresses
    BY <1>1, <2>1
  <2>3. v[p[i]] = mem[p[i]]
    BY <2>2
  <2> QED BY <1>1, <2>3
<1> QED BY <1>1, <1>2, <1>3, <1>4 DEF Linked

(* A drawn line gives the path its first free word.                         *)
LEMMA ZipfDrawKeeps ==
  ASSUME PathInv, NEW l \in 0..(ChunkLines - 1), ZipfDraw(l), opt' = opt
  PROVE  PathInv'
<1> DEFINE line == ChunkStart(chunk) + l * Cacheline
           free == Free(line)
           e == CHOOSE a \in free : \A c \in free : a <= c
<1>1. /\ pc = "draw" /\ pc' = "draw" /\ free # {} /\ mem' = [mem EXCEPT ![previdx] = e]
      /\ previdx' = e /\ entries' = entries + 1 /\ chunk' = chunk
  BY DEF ZipfDraw
<1>2. /\ opt \in Commands /\ Divided /\ chunk \in 0..(NumSubpaths - 1) /\ entries \in Nat
      /\ mem = [a \in Addresses |-> mem[a]] /\ Zipf
  BY <1>1 DEF PathInv, PathPcs
<1>3. PICK p, b : Within(p, b)
  BY <1>1 DEF PathInv
<1>4. e \in Chunk(chunk) /\ mem[e] = Fresh /\ e # previdx
  <2>1. line..(line + Cacheline - 1) \subseteq Chunk(chunk) /\ Chunk(chunk) \subseteq Addresses
    BY <1>2, LineOfChunk, Chunks
  <2>2. Addresses \subseteq Nat
    BY DEF Addresses
  <2> HIDE DEF line
  <2>3. free \subseteq Chunk(chunk) /\ free \subseteq Nat
        /\ \A a \in free : mem[a] = Fresh /\ a # previdx
    BY <2>1, <2>2 DEF Free
  <2> HIDE DEF free
  <2>4. e \in free
    BY <1>1, <2>3, FirstFree
  <2> QED BY <2>3, <2>4
<1> HIDE DEF line, free, e
<1>5. /\ entries \in 1..entries /\ Linked(mem', p, entries) /\ mem'[p[entries]] = e
      /\ mem' = [a \in Addresses |-> mem'[a]]
  BY <1>1, <1>2, <1>3, PointLast
<1>6. \A i \in 1..entries : p[i] # e
  <2>1. ASSUME NEW i \in 1..entries, p[i] = e PROVE FALSE
    <3>1. i # entries
      BY <1>3, <1>4, <2>1 DEF Within
    <3>2. i \in 1..(entries - 1)
      BY <1>2, <3>1
    <3>3. mem[p[i]] # Fresh
      BY <1>2, <1>3, <3>2, LinkedIsTaken
    <3> QED BY <1>4, <2>1, <3>3
  <2> QED BY <2>1
<1>7. PICK q : /\ Linked(mem', q, entries + 1) /\ Segments(q, b, chunk)
               /\ Piece(q, b[chunk], entries + 1, chunk) /\ q[entries + 1] = e
  BY <1>2, <1>3, <1>4, <1>5, <1>6, OneMore DEF Within
<1>8. Within(q, b)'
  BY <1>1, <1>7, WithinNext
<1>9. /\ opt' \in Commands /\ entries' \in Nat /\ mem' = [a \in Addresses' |-> mem'[a]]
      /\ Divided' /\ chunk' \in 0..(NumSubpaths' - 1) /\ Zipf'
  BY <1>1, <1>2, <1>5, SameOpt
<1> QED BY <1>1, <1>8, <1>9 DEF PathInv, PathPcs

(* The last entry of a zipf path is linked to the next chunk.               *)
LEMMA LinkKeeps ==
  ASSUME PathInv, pc = "draw", LinkChunk, opt' = opt
  PROVE  PathInv'
<1>1. /\ mem' = [mem EXCEPT ![previdx] = NextStart(chunk)] /\ AfterChunk
      /\ entries' = entries
  BY DEF LinkChunk
<1>2. /\ opt \in Commands /\ Divided /\ chunk \in 0..(NumSubpaths - 1) /\ entries \in Nat
      /\ mem = [a \in Addresses |-> mem[a]] /\ Zipf
  BY DEF PathInv, PathPcs
<1>3. PICK p, b : Within(p, b)
  BY DEF PathInv
<1>4. /\ Linked(mem', p, entries) /\ mem'[p[entries]] = NextStart(chunk)
      /\ mem' = [a \in Addresses |-> mem'[a]]
  BY <1>1, <1>2, <1>3, PointLast
<1> QED BY <1>1, <1>2, <1>3, <1>4, ChunkDone DEF Within

-----------------------------------------------------------------------------
(* The lines of chunk k in the order of the shuffle f.                      *)
Shuffled(k, f) ==
  [i \in 1..ChunkLines |-> ChunkStart(k) + (IF i = 1 THEN 0 ELSE f[i - 1] * Cacheline)]

LEMMA ShuffledLines ==
  ASSUME opt \in Commands, Divided, NEW k \in 0..(NumSubpaths - 1), NEW f \in Shuffles
  PROVE  LET r == Shuffled(k, f)
         IN  /\ r \in [1..ChunkLines -> Addresses] /\ r[1] = ChunkStart(k)
             /\ \A i \in 1..ChunkLines : r[i] \in LineStarts /\ r[i] \in Chunk(k)
             /\ \A i, j \in 1..ChunkLines : r[i] = r[j] => i = j
<1> DEFINE L == ChunkLines
           c == Cacheline
           z == ChunkStart(k)
           r == Shuffled(k, f)
           g == [i \in 1..L |-> IF i = 1 THEN 0 ELSE f[i - 1]]
<1>1. L \in Nat \ {0} /\ c \in Nat \ {0} /\ z \in Nat
  BY Geometry, Sizes
<1>2. f \in [1..(L - 1) -> 1..(L - 1)] /\ \A i, j \in 1..(L - 1) : f[i] = f[j] => i = j
  BY DEF Shuffles
<1>3. \A l \in 0..(L - 1) : /\ z + l * c \in LineStarts /\ z + l * c \in Chunk(k)
                            /\ z + l * c \in Addresses
  BY LineOfChunk
<1>4. r = [i \in 1..L |-> z + (IF i = 1 THEN 0 ELSE f[i - 1] * c)]
  BY DEF Shuffled
<1> HIDE DEF L, c, z, r
<1>5. ASSUME NEW i \in 1..L
      PROVE  g[i] \in 0..(L - 1) /\ r[i] = z + g[i] * c
  <2>1. CASE i = 1
    BY <1>1, <1>4, <2>1
  <2>2. CASE i # 1
    <3>1. i - 1 \in 1..(L - 1)
      BY <1>1, <2>2
    <3>2. f[i - 1] \in 1..(L - 1) /\ g[i] = f[i - 1]
      BY <1>2, <2>2, <3>1
    <3>3. r[i] = z + f[i - 1] * c
      BY <1>4, <2>2
    <3> QED BY <1>1, <3>2, <3>3
  <2> QED BY <2>1, <2>2
<1>6. ASSUME NEW i \in 1..L, NEW j \in 1..L, g[i] = g[j]
      PROVE  i = j
  <2>1. CASE i # 1 /\ j # 1
    <3>1. i - 1 \in 1..(L - 1) /\ j - 1 \in 1..(L - 1)
      BY <1>1, <2>1
    <3>2. f[i - 1] = f[j - 1]
      BY <1>6, <2>1
    <3>3. i - 1 = j - 1
      BY <1>2, <3>1, <3>2
    <3> QED BY <3>3
  <2>2. CASE i = 1 /\ j # 1
    <3>1. j - 1 \in 1..(L - 1)
      BY <1>1, <2>2
    <3>2. g[i] = 0 /\ g[j] = f[j - 1] /\ f[j - 1] \in 1..(L - 1)
      BY <1>2, <2>2, <3>1
    <3> QED BY <1>6, <3>2
  <2>3. CASE i # 1 /\ j = 1
    <3>1. i - 1 \in 1..(L - 1)
      BY <1>1, <2>3
    <3>2. g[j] = 0 /\ g[i] = f[i - 1] /\ f[i - 1] \in 1..(L - 1)
      BY <1>2, <2>3, <3>1
    <3> QED BY <1>6, <3>2
  <2> QED BY <2>1, <2>2, <2>3
<1> HIDE DEF g
<1>7. ASSUME NEW i \in 1..L, NEW j \in 1..L, r[i] = r[j]
      PROVE  i = j
  <2> DEFINE u == g[i]
             v == g[j]
  <2>1. u \in Nat /\ v \in Nat /\ z + u * c = z + v * c
    BY <1>1, <1>5, <1>7
  <2> HIDE DEF u, v
  <2>2. u = v
    <3>1. u * c = v * c /\ u * c \in Nat /\ v * c \in Nat
      BY <1>1, <2>1
    <3>2. ~(u < v) /\ ~(v < u)
      BY <1>1, <2>1, <3>1, SMTT(30)
    <3> QED BY <2>1, <3>2
  <2> QED BY <1>6, <2>2 DEF u, v
<1>8. \A i \in 1..L : r[i] \in LineStarts /\ r[i] \in Chunk(k) /\ r[i] \in Addresses
  BY <1>3, <1>5
<1>9. r[1] = z
  BY <1>1, <1>4
<1>10. r \in [1..L -> Addresses]
  BY <1>4, <1>8
<1> QED BY <1>7, <1>8, <1>9, <1>10 DEF L, z, r

(* Each line is linked to the next one of the shuffle, the last one leaves. *)
LEMMA ChainLinks ==
  ASSUME opt \in Commands, Divided, NEW k \in 0..(NumSubpaths - 1), NEW f \in Shuffles,
         NEW link
  PROVE  LET r == Shuffled(k, f)
             chain == Chain(k, f, link)
         IN  /\ DOMAIN chain = {r[i] : i \in 1..ChunkLines}
             /\ \A i \in 1..(ChunkLines - 1) : chain[r[i]] = r[i + 1]
             /\ chain[r[ChunkLines]] = link
<1> DEFINE L == ChunkLines
           r == Shuffled(k, f)
           line(i) == ChunkStart(k) + (IF i = 0 THEN 0 ELSE f[i] * Cacheline)
           A0 == {line(i) : i \in 0..(L - 1)}
           at(a) == CHOOSE j \in 0..(L - 1) : line(j) = a
           chain == Chain(k, f, link)
<1>1. chain = [a \in A0 |-> IF at(a) = L - 1 THEN link ELSE line(at(a) + 1)]
  BY DEF Chain
<1>2. L \in Nat \ {0}
  BY Geometry
<1>3. \A i, j \in 1..L : r[i] = r[j] => i = j
  BY ShuffledLines
<1>4. ASSUME NEW i \in 0..(L - 1)
      PROVE  line(i) = r[i + 1]
  <2>1. i + 1 \in 1..L /\ (i + 1 = 1 <=> i = 0) /\ (i + 1) - 1 = i
    BY <1>2
  <2> HIDE DEF L
  <2>2. r[i + 1] = ChunkStart(k) + (IF i + 1 = 1 THEN 0 ELSE f[(i + 1) - 1] * Cacheline)
    BY <2>1 DEF Shuffled, L
  <2> QED BY <2>1, <2>2
<1> HIDE DEF L, r, line, chain
<1>5. ASSUME NEW i \in 0..(L - 1)
      PROVE  at(line(i)) = i
  <2>1. ASSUME NEW j \in 0..(L - 1), line(j) = line(i)
        PROVE  j = i
    <3>1. i + 1 \in 1..L /\ j + 1 \in 1..L
      BY <1>2
    <3>2. r[j + 1] = r[i + 1]
      BY <1>4, <2>1
    <3>3. j + 1 = i + 1
      BY <1>3, <3>1, <3>2
    <3> QED BY <3>3
  <2> QED BY <2>1, Zenon
<1> HIDE DEF at
<1>6. ASSUME NEW i \in 0..(L - 1)
      PROVE  chain[r[i + 1]] = IF i = L - 1 THEN link ELSE r[(i + 1) + 1]
  <2>1. line(i) \in A0
    OBVIOUS
  <2>2. chain[line(i)] = IF i = L - 1 THEN link ELSE line(i + 1)
    BY <1>1, <1>5, <2>1
  <2>3. i # L - 1 => i + 1 \in 0..(L - 1)
    BY <1>2
  <2>4. i # L - 1 => line(i + 1) = r[(i + 1) + 1]
    BY <1>4, <2>3
  <2> QED BY <1>4, <2>2, <2>4
<1>7. ASSUME NEW i \in 1..L
      PROVE  chain[r[i]] = IF i = L THEN link ELSE r[i + 1]
  <2> DEFINE j == i - 1
  <2>1. j \in 0..(L - 1) /\ j + 1 = i /\ (j = L - 1 <=> i = L)
    BY <1>2
  <2> HIDE DEF j
  <2> QED BY <1>6, <2>1
<1>8. A0 = {r[i] : i \in 1..L}
  <2>1. ASSUME NEW i \in 1..L PROVE r[i] \in A0
    <3> DEFINE j == i - 1
    <3>1. j \in 0..(L - 1) /\ j + 1 = i
      BY <1>2
    <3> HIDE DEF j
    <3> QED BY <1>4, <3>1
  <2>2. ASSUME NEW i \in 0..(L - 1) PROVE line(i) \in {r[j] : j \in 1..L}
    <3>1. i + 1 \in 1..L
      BY <1>2
    <3> QED BY <1>4, <3>1
  <2> QED BY <2>1, <2>2
<1>9. DOMAIN chain = {r[i] : i \in 1..L}
  BY <1>1, <1>8
<1>10. chain[r[L]] = link /\ \A i \in 1..(L - 1) : chain[r[i]] = r[i + 1]
  <2>1. L \in 1..L /\ \A i \in 1..(L - 1) : i \in 1..L /\ i # L
    BY <1>2
  <2> QED BY <1>7, <2>1
<1> QED BY <1>9, <1>10 DEF L, r, chain

-----------------------------------------------------------------------------
(* A uniform path is written, between those before it and the next.         *)
LEMMA UniformChunkKeeps ==
  ASSUME PathInv, UniformChunk, opt' = opt
  PROVE  PathInv'
<1> DEFINE k == chunk
           n == entries
           L == ChunkLines
           z == ChunkStart(k)
           link == NextStart(k)
<1>1. /\ pc = "chunk" /\ ~Zipf /\ AfterChunk /\ entries' = n + L
  BY DEF UniformChunk
<1>2. /\ opt \in Commands /\ Divided /\ k \in 0..(NumSubpaths - 1) /\ n \in Nat
      /\ n = k * L
  BY <1>1 DEF PathInv, PathPcs
<1>3. PICK p, b : Upto(p, b)
  BY <1>1 DEF PathInv
<1>4. /\ Linked(mem, p, n) /\ Segments(p, b, k) /\ b[k] = n
      /\ n # 0 => mem[p[n]] = z
  BY <1>3 DEF Upto
<1>5. PICK f \in Shuffles :
        mem' = [a \in Addresses |-> IF a \in DOMAIN Chain(k, f, link)
                                    THEN Chain(k, f, link)[a] ELSE Filled(k)[a]]
  BY DEF UniformChunk
<1> DEFINE r == Shuffled(k, f)
           chain == Chain(k, f, link)
<1>6. /\ r \in [1..L -> Addresses] /\ r[1] = z
      /\ \A i \in 1..L : r[i] \in LineStarts /\ r[i] \in Chunk(k)
      /\ \A i, j \in 1..L : r[i] = r[j] => i = j
  BY <1>2, ShuffledLines
<1>7. /\ DOMAIN chain = {r[i] : i \in 1..L}
      /\ \A i \in 1..(L - 1) : chain[r[i]] = r[i + 1]
      /\ chain[r[L]] = link
  BY <1>2, ChainLinks
<1>8. /\ k \in Nat /\ k <= NumSubpaths /\ L \in Nat \ {0} /\ z \in Nat /\ ChunkSize \in Nat
  <2>1. k \in Nat /\ k <= NumSubpaths
    BY <1>2, Sizes
  <2> QED BY <1>2, <2>1, Geometry
<1>9. \A a \in Chunk(k) : z <= a
  BY <1>8 DEF Chunk
<1>10. mem' = [a \in Addresses |-> IF a \in DOMAIN chain THEN chain[a] ELSE Filled(k)[a]]
  BY <1>5
<1>11. \A a \in Addresses : ~(z <= a) => Filled(k)[a] = mem[a]
  <2>1. ASSUME NEW a \in Addresses, ~(z <= a)
        PROVE  Filled(k)[a] = mem[a]
    <3>1. a \notin z..(z + ChunkSize - 1) /\ a # z + ChunkSize
      BY <1>8, <2>1 DEF Addresses
    <3> QED BY <3>1 DEF Filled
  <2> QED BY <2>1
<1> HIDE DEF r, chain, L, z, link, n, k
<1>12. ASSUME NEW i \in 1..n
       PROVE  p[i] \in Addresses /\ ~(z <= p[i]) /\ mem'[p[i]] = mem[p[i]]
  <2>1. p[i] \in Addresses
    BY <1>4 DEF Linked
  <2>2. p[i] < z /\ p[i] \in Int
    BY <1>2, <1>4, <1>8, <2>1, Before DEF z, Addresses
  <2>3. ~(z <= p[i])
    BY <1>8, <2>2
  <2>4. p[i] \notin DOMAIN chain
    BY <1>6, <1>7, <1>9, <2>3
  <2> QED BY <1>10, <1>11, <2>1, <2>3, <2>4
<1>13. ASSUME NEW i \in 1..L
       PROVE  mem'[r[i]] = IF i = L THEN link ELSE r[i + 1]
  <2>1. r[i] \in Addresses /\ r[i] \in DOMAIN chain
    BY <1>6, <1>7
  <2>2. mem'[r[i]] = chain[r[i]]
    BY <1>10, <2>1
  <2>3. i # L => i \in 1..(L - 1)
    BY <1>8
  <2> QED BY <1>7, <2>2, <2>3
<1>14. Linked(mem', r, L)
  <2>1. \A i \in 1..(L - 1) : mem'[r[i]] = r[i + 1]
    <3>1. \A i \in 1..(L - 1) : i \in 1..L /\ i # L
      BY <1>8
    <3> QED BY <1>13, <3>1
  <2> QED BY <1>6, <2>1 DEF Linked
<1>15. Linked(mem', p, n)
  <2>1. \A i \in 1..(n - 1) : i \in 1..n
    BY <1>2
  <2> QED BY <1>4, <1>12, <2>1 DEF Linked
<1>16. \A i \in 1..n, j \in 1..L : p[i] # r[j]
  BY <1>6, <1>9, <1>12
<1>17. n # 0 => mem'[p[n]] = r[1]
  <2>1. n # 0 => n \in 1..n
    BY <1>2
  <2> QED BY <1>4, <1>6, <1>12, <2>1
<1> DEFINE q == Joined(p, n, r, L)
           m == n + L
<1>18. Linked(mem', q, m)
  BY <1>2, <1>8, <1>14, <1>15, <1>16, <1>17, Join
<1>19. /\ \A i \in 1..n : q[i] = p[i]
       /\ \A i \in (n + 1)..m : q[i] = r[i - n] /\ i - n \in 1..L
       /\ m \in Nat /\ n < m
  BY <1>2, <1>8 DEF Joined
<1>20. q[n + 1] = z /\ q[m] = r[L]
  <2>1. n + 1 \in (n + 1)..m /\ m \in (n + 1)..m /\ (n + 1) - n = 1 /\ m - n = L
    BY <1>2, <1>8
  <2> HIDE DEF q, m
  <2>2. q[n + 1] = r[(n + 1) - n] /\ q[m] = r[m - n]
    BY <1>19, <2>1
  <2> QED BY <1>6, <2>1, <2>2
<1> HIDE DEF q, m
<1>21. Segments(q, b, k)
  BY <1>4, <1>8, <1>19, SegmentsAgree
<1>22. Piece(q, b[k], m, k)
  <2>1. \A i \in (n + 1)..m : q[i] \in Chunk(k)
    BY <1>6, <1>19
  <2> QED BY <1>4, <1>19, <1>20, <2>1 DEF Piece, z
<1>23. mem'[q[m]] = NextStart(chunk)
  <2>1. L \in 1..L
    BY <1>8
  <2> QED BY <1>13, <1>20, <2>1 DEF link, k
<1>24. mem' = [a \in Addresses |-> mem'[a]] /\ entries' = m /\ entries' \in Nat
  BY <1>1, <1>10, <1>19 DEF m
<1>25. entries' = (chunk + 1) * ChunkLines
  BY <1>1, <1>2, <1>8 DEF k, L
<1> QED BY <1>1, <1>2, <1>18, <1>21, <1>22, <1>23, <1>24, <1>25, ChunkDone DEF k

-----------------------------------------------------------------------------
(* What zipf() returns is a rank, and the ranking gives a line for it.      *)
RankInv ==
  /\ calls = "returned" => rank \in 1..ChunkLines
  /\ pc = "draw" => ranking \in [1..ChunkLines -> 0..(ChunkLines - 1)]

DInv == PathInv /\ RankInv

(* What a step is to the path.                                              *)
LEMMA StepOfPath ==
  ASSUME RankInv, [DNext]_allVars
  PROVE  /\ opt' = opt /\ RankInv'
         /\ \/ Check \/ UniformChunk \/ ZipfChunk \/ Walk \/ FindEnd \/ Split
            \/ \E l \in 0..(ChunkLines - 1) : ZipfDraw(l)
            \/ pc = "draw" /\ LinkChunk
            \/ UNCHANGED <<pc, pathVars, infoVars>>
            \/ /\ pc' \notin PathPcs /\ UNCHANGED infoVars
               /\ entries' \in {0, 1, NumDatalines, entries, entries + 1}
<1>1. opt' = opt
  BY DEF DNext, Terminated, allVars, vars
<1>2. ChunkLines' = ChunkLines
  BY <1>1, SameOpt
<1> USE DEF RankInv, PathPcs
<1>3. CASE (Linear \/ BeginUniform \/ BeginWeighted \/ WeightedRound \/ Halve)
  BY <1>1, <1>2, <1>3
  DEF Linear, BeginUniform, BeginWeighted, WeightedRound, Halve, zipfVars, gvars, pathVars, infoVars
<1>4. CASE UniformRound \/ RoundsOver \/ WeightedDraw
  <2>1. UNCHANGED zipfVars /\ pc' \in {"undefined", "distributed", "round"}
        /\ entries' \in {entries, entries + 1} /\ UNCHANGED infoVars
    BY <1>4 DEF UniformRound, RoundsOver, WeightedDraw, Searched, LinkLine, Close, pathVars
  <2> QED BY <1>1, <1>2, <2>1 DEF zipfVars, gvars
<1>5. CASE ZipfLegacy
  <2>1. pc' \in {"exited", "distributed", "undefined"} /\ entries' = entries /\ UNCHANGED infoVars
        /\ rank' = rank /\ (calls' = "idle" \/ calls' = calls)
    BY <1>5 DEF ZipfLegacy, Seed, zipfVars, gvars, pathVars
  <2> QED BY <1>1, <1>2, <2>1
<1>6. CASE Subpath
  <2>1. CASE SeedChunk
    <3>1. ZipfChunk /\ ranking' \in Rankings /\ calls' = "idle"
      BY <2>1 DEF SeedChunk, Seed
    <3>2. ranking' \in [1..ChunkLines -> 0..(ChunkLines - 1)]
      BY <3>1 DEF Rankings
    <3> QED BY <1>1, <1>2, <3>1, <3>2
  <2>2. CASE CallZipf
    BY <1>1, <1>2, <2>2 DEF CallZipf, Call
  <2>3. CASE InZipf
    <3>1. UNCHANGED <<pc, pathVars, infoVars, ranking>>
      BY <2>3 DEF InZipf
    <3>2. calls' # "returned" \/ rank' \in 1..ChunkLines
      BY <2>3 DEF InZipf, Pull, Return, Reached
    <3> QED BY <1>1, <1>2, <3>1, <3>2
  <2>4. CASE ZipfReturned
    <3>1. /\ calls = "returned" /\ calls' = "idle" /\ ranking' = ranking /\ pc = "draw"
          /\ ZipfDraw(ranking[rank]) \/ ZipfFull(ranking[rank])
      BY <2>4 DEF ZipfReturned, ZipfDraw, ZipfFull
    <3>2. ranking[rank] \in 0..(ChunkLines - 1)
      BY <3>1
    <3>3. ZipfFull(ranking[rank]) => LinkChunk
      BY DEF ZipfFull
    <3> QED BY <1>1, <1>2, <3>1, <3>2, <3>3
  <2>5. CASE (Check \/ UniformChunk \/ ZipfEnough \/ Walk \/ FindEnd \/ Split) /\ UNCHANGED zipfVars
    <3>1. UNCHANGED <<calls, rank, ranking>>
      BY <2>5 DEF zipfVars, gvars
    <3>2. pc' = "draw" => FALSE
      BY <2>5 DEF Check, UniformChunk, ZipfEnough, LinkChunk, AfterChunk, Walk, FindEnd, Split
    <3>3. ZipfEnough => pc = "draw" /\ LinkChunk
      BY DEF ZipfEnough
    <3> QED BY <1>1, <1>2, <2>5, <3>1, <3>2, <3>3
  <2> QED BY <1>6, <2>1, <2>2, <2>3, <2>4, <2>5, Zenon DEF Subpath
<1>7. CASE UNCHANGED allVars
  BY <1>1, <1>2, <1>7 DEF allVars, vars, zipfVars, gvars
<1> QED BY <1>3, <1>4, <1>5, <1>6, <1>7, Zenon DEF DNext, Terminated

(* A step that leaves the path alone.                                       *)
LEMMA PathStays ==
  ASSUME PathInv, opt' = opt, UNCHANGED pathVars,
         pc' = pc \/ (pc = "collect" /\ pc' = "split") \/ pc' = "exited"
  PROVE  PathInv'
<1>1. UNCHANGED <<mem, entries, chunk, previdx>>
  BY DEF pathVars
<1>2. \A p, b : Upto(p, b) => Upto(p, b)'
  BY <1>1, UptoNext DEF Upto
<1>3. \A p, b : Within(p, b) => Within(p, b)'
  BY <1>1, WithinNext DEF Within
<1>4. \A p, b : Whole(p, b) => Whole(p, b)'
  BY <1>1, WholeNext DEF Whole
<1>5. /\ opt' \in Commands /\ entries' \in Nat
      /\ pc \in PathPcs => mem' = [a \in Addresses' |-> mem'[a]]
  BY <1>1, SameOpt DEF PathInv
<1>6. (pc' = "chunk" => \E p, b : Upto(p, b)') /\ (pc' = "draw" => \E p, b : Within(p, b)')
      /\ (pc' \in {"collect", "split"} => \E p, b : Whole(p, b)')
  BY <1>2, <1>3, <1>4 DEF PathInv
<1>7. /\ pc' = "check" => entries' = 0 /\ chunk' = 0
      /\ pc' \in {"chunk", "draw"} => Divided' /\ chunk' \in 0..(NumSubpaths' - 1)
      /\ pc' = "draw" => Zipf'
      /\ pc' \in {"collect", "split"} => Divided' /\ chunk' = NumSubpaths'
      /\ pc' \in {"chunk", "collect", "split"} /\ ~Zipf' => entries' = chunk' * ChunkLines'
  BY <1>1, SameOpt DEF PathInv
<1>8. pc' \in PathPcs => mem' = [a \in Addresses' |-> mem'[a]]
  BY <1>5 DEF PathPcs
<1> QED BY <1>5, <1>6, <1>7, <1>8 DEF PathInv

(* The path is what it should be, at each stage of its construction.        *)
THEOREM PathInvariant == DSpec => []DInv
<1>1. DInit => DInv
  <2> SUFFICES ASSUME DInit PROVE DInv
    OBVIOUS
  <2>1. opt \in Commands /\ entries = 0 /\ chunk = 0 /\ pc \in {"check", "legacy"}
        /\ mem = [a \in Addresses |-> mem[a]] /\ calls = "idle"
    BY DEF DInit, Setup, GInit
  <2> QED BY <2>1 DEF DInv, PathInv, RankInv
<1>2. DInv /\ [DNext]_allVars => DInv'
  <2> SUFFICES ASSUME DInv, [DNext]_allVars PROVE DInv'
    OBVIOUS
  <2>1. PathInv /\ RankInv' /\ opt' = opt
    BY StepOfPath DEF DInv
  <2>2. CASE Check \/ UniformChunk \/ ZipfChunk
    BY <2>1, <2>2, CheckKeeps, UniformChunkKeeps, ZipfChunkKeeps DEF DInv
  <2>3. CASE \E l \in 0..(ChunkLines - 1) : ZipfDraw(l)
    BY <2>1, <2>3, ZipfDrawKeeps DEF DInv
  <2>4. CASE pc = "draw" /\ LinkChunk
    BY <2>1, <2>4, LinkKeeps DEF DInv
  <2>5. CASE Walk \/ FindEnd \/ UNCHANGED <<pc, pathVars, infoVars>>
    <3>1. UNCHANGED pathVars
          /\ (pc' = pc \/ (pc = "collect" /\ pc' = "split") \/ pc' = "exited")
      BY <2>5 DEF Walk, FindEnd
    <3> QED BY <2>1, <3>1, PathStays DEF DInv
  <2>6. CASE Split
    <3>1. pc = "split" /\ pc' = "done" /\ entries' = entries
          /\ mem' = [a \in Addresses |-> mem'[a]]
      BY <2>6 DEF Split
    <3> QED BY <2>1, <3>1, SameOpt DEF DInv, PathInv, PathPcs
  <2>7. CASE pc' \notin PathPcs /\ entries' \in {0, 1, NumDatalines, entries, entries + 1}
    <3>1. entries' \in Nat
      BY <2>1, <2>7, Sizes DEF PathInv
    <3> QED BY <2>1, <2>7, <3>1 DEF DInv, PathInv, PathPcs
  <2> QED BY <2>2, <2>3, <2>4, <2>5, <2>6, <2>7, StepOfPath DEF DInv
<1> QED BY <1>1, <1>2, PTL DEF DSpec

-----------------------------------------------------------------------------
(* Whatever is pulled, zipf() finds a rank for it.                          *)

(* The sums of the weights exist: of a recursion that has no value nothing  *)
(* would be known.                                                          *)
LEMMA SumOfWeights ==
  ASSUME NEW n \in 0..MaxItems
  PROVE  \E sum : sum = [i \in 0..n |-> IF i = 0 THEN 0 ELSE sum[i - 1] + Weight[i]]
<1> DEFINE IsSum(sum, k) == sum = [i \in 0..k |-> IF i = 0 THEN 0 ELSE sum[i - 1] + Weight[i]]
           Summed == {k \in 0..MaxItems : \E sum : IsSum(sum, k)}
<1>1. MaxItems \in Nat /\ 0 \in 0..MaxItems
  BY WeightAssumption
<1>2. 0 \in Summed
  <2> DEFINE zero == [i \in 0..0 |-> 0]
  <2>1. IsSum(zero, 0)
    OBVIOUS
  <2> HIDE DEF zero, IsSum
  <2> QED BY <1>1, <2>1
<1>3. ASSUME NEW k \in 0..(MaxItems - 1), k \in Summed
      PROVE  k + 1 \in Summed
  <2>1. PICK sum : IsSum(sum, k)
    BY <1>3
  <2> DEFINE more == [i \in 0..(k + 1) |-> IF i = k + 1 THEN sum[k] + Weight[k + 1] ELSE sum[i]]
  <2>2. more = [i \in 0..(k + 1) |-> IF i = 0 THEN 0 ELSE more[i - 1] + Weight[i]]
    <3>1. ASSUME NEW i \in 0..(k + 1)
          PROVE  more[i] = IF i = 0 THEN 0 ELSE more[i - 1] + Weight[i]
      <4>1. CASE i = k + 1
        BY <1>1, <4>1
      <4>2. CASE i # k + 1
        <5>1. i \in 0..k /\ more[i] = sum[i]
              /\ (i # 0 => i - 1 \in 0..k /\ more[i - 1] = sum[i - 1])
          BY <1>1, <4>2
        <5>2. sum[i] = IF i = 0 THEN 0 ELSE sum[i - 1] + Weight[i]
          BY <2>1, <5>1
        <5> QED BY <5>1, <5>2
      <4> QED BY <4>1, <4>2
    <3> QED BY <3>1
  <2>3. IsSum(more, k + 1)
    BY <2>2
  <2> HIDE DEF more, IsSum
  <2> QED BY <1>1, <2>3
<1> HIDE DEF Summed
<1>4. 0..MaxItems \subseteq Summed
  BY <1>1, <1>2, <1>3, Upwards
<1> QED BY <1>4 DEF Summed

LEMMA SumNatural == \A i \in 0..MaxItems : SumTo[i] \in Nat
<1>1. MaxItems \in Nat /\ \A i \in 1..MaxItems : Weight[i] \in Nat
  BY WeightAssumption
<1>2. \E sum : sum = [i \in 0..MaxItems |-> IF i = 0 THEN 0 ELSE sum[i - 1] + Weight[i]]
  <2>1. MaxItems \in 0..MaxItems
    BY <1>1
  <2> QED BY <2>1, SumOfWeights, Zenon
<1>3. SumTo = [i \in 0..MaxItems |-> IF i = 0 THEN 0 ELSE SumTo[i - 1] + Weight[i]]
  BY <1>2, Zenon DEF SumTo
<1> DEFINE Naturals == {i \in 0..MaxItems : SumTo[i] \in Nat}
<1>4. 0 \in Naturals
  BY <1>1, <1>3
<1>5. ASSUME NEW i \in 0..(MaxItems - 1), i \in Naturals
      PROVE  i + 1 \in Naturals
  <2> DEFINE t == i + 1
  <2>1. t \in 0..MaxItems /\ t # 0 /\ t - 1 = i /\ t \in 1..MaxItems
    BY <1>1
  <2> HIDE DEF t
  <2>2. SumTo[t] = SumTo[i] + Weight[t]
    BY <1>3, <2>1
  <2>3. t \in Naturals
    BY <1>1, <1>5, <2>1, <2>2
  <2> QED BY <2>3 DEF t
<1> HIDE DEF Naturals
<1>6. 0..MaxItems \subseteq Naturals
  BY <1>1, <1>4, <1>5, Upwards
<1> QED BY <1>6 DEF Naturals

(* While zipf() runs, its constant is that of the number of ranks it is     *)
(* called with, though only the first call has computed it.                 *)
TotalInv ==
  /\ total \in {0, SumTo[ChunkLines]}
  /\ calls \in {"pull", "map"} =>
       pc = "draw" /\ draws < BufferSize /\ total = SumTo[ChunkLines]

LEMMA TotalKeeps == XType /\ TotalInv /\ [DNext]_allVars => TotalInv'
<1> SUFFICES ASSUME XType, TotalInv, [DNext]_allVars PROVE TotalInv'
  OBVIOUS
<1> DEFINE Zipfs == <<x, total, calls, rank, ranking>>
<1>1. opt' = opt /\ ChunkLines' = ChunkLines /\ BufferSize' = BufferSize
  <2>1. opt' = opt
    BY DEF DNext, Terminated, allVars, vars
  <2> QED BY <2>1, SameOpt
<1>2. ASSUME pc # "draw", UNCHANGED Zipfs PROVE TotalInv'
  BY <1>1, <1>2 DEF TotalInv
<1>3. ASSUME UNCHANGED Zipfs, UNCHANGED <<pc, draws>> PROVE TotalInv'
  BY <1>1, <1>3 DEF TotalInv
<1>4. ASSUME total' = total, calls' \in {"idle", "returned", "failed"} PROVE TotalInv'
  BY <1>1, <1>4 DEF TotalInv
<1> HIDE DEF Zipfs
<1>5. CASE \/ Linear \/ BeginUniform \/ BeginWeighted \/ UniformRound \/ RoundsOver
           \/ WeightedRound \/ Halve \/ WeightedDraw
  <2>1. pc # "draw"
    BY <1>5 DEF Linear, BeginUniform, BeginWeighted, UniformRound, RoundsOver,
                WeightedRound, Halve, WeightedDraw, Searched
  <2>2. UNCHANGED Zipfs
    BY <1>5 DEF Linear, BeginUniform, BeginWeighted, UniformRound, RoundsOver,
                WeightedRound, Halve, WeightedDraw, LinkLine, zipfVars, gvars, Zipfs
  <2> QED BY <1>2, <2>1, <2>2
<1>6. CASE ZipfLegacy
  <2>1. CASE UNCHANGED zipfVars
    BY <1>2, <1>6, <2>1 DEF ZipfLegacy, zipfVars, gvars, Zipfs
  <2>2. CASE Seed(opt.seed)
    BY <1>4, <2>2 DEF Seed
  <2> QED BY <1>6, <2>1, <2>2, Zenon DEF ZipfLegacy
<1>7. CASE Subpath
  <2>1. CASE SeedChunk
    BY <1>4, <2>1 DEF SeedChunk, Seed
  <2>2. CASE CallZipf
    BY <1>1, <2>2 DEF CallZipf, Call, TotalInv, pathVars
  <2>3. CASE InZipf
    <3>1. CASE Pull
      BY <1>1, <2>3, <3>1 DEF InZipf, Pull, TotalInv, pathVars
    <3>2. CASE Return(ChunkLines)
      BY <1>4, <3>2 DEF Return
    <3> QED BY <2>3, <3>1, <3>2 DEF InZipf
  <2>4. CASE ZipfReturned
    BY <1>4, <2>4 DEF ZipfReturned
  <2>5. CASE (Check \/ UniformChunk \/ Walk \/ FindEnd \/ Split) /\ UNCHANGED zipfVars
    BY <1>2, <2>5 DEF Check, UniformChunk, Walk, FindEnd, Split, zipfVars, gvars, Zipfs
  <2>6. CASE ZipfEnough /\ UNCHANGED zipfVars
    <3>1. BufferSize \in Nat /\ draws = BufferSize
      BY <2>6, Sizes DEF ZipfEnough, XType
    <3>2. calls \notin {"pull", "map"}
      BY <3>1 DEF TotalInv
    <3> QED BY <1>1, <2>6, <3>2 DEF TotalInv, zipfVars, gvars
  <2> QED BY <1>7, <2>1, <2>2, <2>3, <2>4, <2>5, <2>6, Zenon DEF Subpath
<1>8. CASE UNCHANGED allVars
  BY <1>3, <1>8 DEF allVars, vars, pathVars, zipfVars, gvars, Zipfs
<1> QED BY <1>5, <1>6, <1>7, <1>8, Zenon DEF DNext, Terminated

(* Of the numbers that zipf() pulls none is above the sum of the weights it *)
(* divides by, so that the assertion on its value always holds: rounding    *)
(* aside, the first rank whose probabilities add up to it is there.         *)
RanksReached == calls = "map" => Reached(ChunkLines) # {}
THEOREM RankReached == DSpec => []RanksReached
<1>1. DInit => TotalInv
  BY DEF DInit, GInit, TotalInv
<1>2. XType /\ DInv /\ TotalInv => RanksReached
  <2> SUFFICES ASSUME XType, DInv, TotalInv, calls = "map"
               PROVE  Reached(ChunkLines) # {}
    BY DEF RanksReached
  <2> DEFINE K == ChunkLines
             sum == SumTo[K]
  <2>1. total = sum /\ opt \in Commands /\ Divided /\ Zipf /\ pc = "draw"
    BY DEF TotalInv, DInv, PathInv, XType
  <2>2. K \in Nat \ {0}
    BY <2>1, Geometry
  <2>3. K <= MaxItems /\ MaxItems \in Nat
    BY <2>1, TypeAssumption, WeightAssumption
       DEF ChunkLines, NumDatalines, BufferSize, Dataset, BufferFactor, Cacheline,
           NumSubpaths, Zipf
  <2>4. sum \in Nat
    BY <2>2, <2>3, SumNatural
  <2>5. x \in Nat /\ M \in Nat /\ x <= M
    BY LehmerAssumption DEF XType
  <2>6. sum * M >= x * sum
    <3> HIDE DEF sum
    <3> QED BY <2>4, <2>5
  <2>7. K \in Reached(K)
    BY <2>1, <2>2, <2>6 DEF Reached
  <2> QED BY <2>7
<1> QED BY <1>1, <1>2, TotalKeeps, XTypeInvariant, PathInvariant, PTL DEF DSpec

-----------------------------------------------------------------------------
(* n entries of a path from a on, and then the word of the last.            *)
LEMMA TrailOf ==
  ASSUME NEW n \in Nat \ {0}, NEW r \in [1..n -> Addresses],
         \A i \in 1..(n - 1) : mem[r[i]] = r[i + 1]
  PROVE  /\ Trail(r[1], n) = [i \in 1..(n + 1) |-> IF i = n + 1 THEN mem[r[n]] ELSE r[i]]
         /\ Trail(r[1], n - 1) = r
<1> DEFINE m == n + 1
           t == [i \in 1..m |-> IF i = m THEN mem[r[n]] ELSE r[i]]
<1>1. m \in Nat /\ n < m /\ m - 1 = n
  OBVIOUS
<1>2. t[1] = r[1] /\ t = [i \in 1..m |-> t[i]]
  OBVIOUS
<1>3. \A i \in 1..n : t[i] = r[i] /\ Follow(r[i]) = mem[r[i]]
  BY DEF Follow
<1>4. ASSUME NEW i \in 1..n
      PROVE  t[i + 1] = Follow(t[i])
  <2>1. CASE i = n
    BY <1>3, <2>1
  <2>2. CASE i # n
    <3>1. i \in 1..(n - 1) /\ i + 1 \in 1..n
      BY <2>2
    <3> HIDE DEF t
    <3>2. t[i + 1] = r[i + 1] /\ t[i] = r[i]
      BY <1>3, <3>1
    <3> QED BY <1>3, <3>1, <3>2
  <2> QED BY <2>1, <2>2
<1>5. Trail(r[1], n) = t
  <2> HIDE DEF t
  <2>1. Traces(t, r[1], n)
    BY <1>2, <1>4 DEF Traces
  <2> QED BY <2>1, TrailIs
<1>6. Trail(r[1], n - 1) = r
  <2> DEFINE k == n - 1
  <2>1. k \in Nat /\ r = [i \in 1..(k + 1) |-> r[i]]
    OBVIOUS
  <2>2. \A i \in 1..k : r[i + 1] = Follow(r[i])
    <3>1. \A i \in 1..k : i \in 1..n
      OBVIOUS
    <3> QED BY <1>3, <3>1
  <2> HIDE DEF k
  <2>3. Traces(r, r[1], k)
    BY <2>1, <2>2 DEF Traces
  <2> QED BY <2>1, <2>3, TrailIs DEF k
<1> QED BY <1>5, <1>6

(* The whole path is a cycle of p's entries.                                *)
LEMMA WholeIsCycle ==
  ASSUME opt \in Commands, Divided, entries \in Nat, NEW p, NEW b, Whole(p, b)
  PROVE  /\ IsCycle(WholePath) /\ ToSet(WholePath) = {p[i] : i \in 1..entries}
         /\ entries \in Nat \ {0} /\ p[1] = BufferOffset
<1> DEFINE n == entries
           t == [i \in 1..(n + 1) |-> IF i = n + 1 THEN mem[p[n]] ELSE p[i]]
<1>1. n \in Nat \ {0} /\ p[1] = BufferOffset
  BY Before, Sizes DEF Whole
<1>2. /\ p \in [1..n -> Addresses] /\ \A i, j \in 1..n : p[i] = p[j] => i = j
      /\ \A i \in 1..(n - 1) : mem[p[i]] = p[i + 1]
      /\ mem[p[n]] = BufferOffset
  BY DEF Whole, Linked
<1>3. WholePath = t
  <2>1. Trail(p[1], n) = t
    <3> HIDE DEF n
    <3> QED BY <1>1, <1>2, TrailOf
  <2> QED BY <1>1, <2>1 DEF WholePath
<1>4. t[n + 1] = t[1] /\ t = [i \in 1..(n + 1) |-> t[i]]
  BY <1>1, <1>2
<1>5. \A i \in 1..n : t[i] = p[i]
  BY <1>1
<1> HIDE DEF t, n
<1>6. \A i, j \in 1..n : t[i] = t[j] => i = j
  BY <1>2, <1>5
<1>7. IsCycle(t) /\ ToSet(t) = {t[i] : i \in 1..n}
  <2>1. Returns(t, n)
    BY <1>4, <1>6 DEF Returns
  <2> QED BY <1>1, <2>1, CycleIs
<1>8. {t[i] : i \in 1..n} = {p[i] : i \in 1..n}
  BY <1>5
<1> QED BY <1>1, <1>3, <1>7, <1>8 DEF n

(* distribute() leaves one cycle of distinct entries, all in the chunks,    *)
(* for every buffer, every shuffle and every sequence of draws.             *)
THEOREM LeavesOneCycle == DSpec => []OneCycle
<1>1. DInv => OneCycle
  <2> SUFFICES ASSUME PathInv, Distributed PROVE OneCycle
    BY DEF DInv, OneCycle
  <2>1. PICK p, b : Whole(p, b)
    BY DEF PathInv, Distributed
  <2>2. opt \in Commands /\ Divided /\ entries \in Nat
    BY DEF PathInv, Distributed
  <2>3. IsCycle(WholePath) /\ ToSet(WholePath) = {p[i] : i \in 1..entries}
    BY <2>1, <2>2, WholeIsCycle
  <2>4. ASSUME NEW i \in 1..entries
        PROVE  \E s \in 0..(NumSubpaths - 1) : p[i] \in Chunk(s)
    BY <2>1 DEF Whole, Segments, Piece
  <2> QED BY <2>3, <2>4 DEF OneCycle
<1> QED BY <1>1, PathInvariant, PTL

(* Without zipf there are as many distinct entries as lines, each the start *)
(* of one.                                                                  *)
LEMMA AllLines ==
  ASSUME opt \in Commands, NEW p, Linked(mem, p, NumDatalines), ~Zipf
  PROVE  {p[i] : i \in 1..NumDatalines} = LineStarts
<1> DEFINE D == NumDatalines
           o == BufferOffset
           c == Cacheline
           g == [l \in 0..(D - 1) |-> o + l * c]
<1>1. D \in Nat \ {0} /\ o \in Nat /\ c \in Nat \ {0}
  BY Sizes
<1>2. p \in [1..D -> LineStarts] /\ \A i, j \in 1..D : p[i] = p[j] => i = j
  BY DEF Linked
<1>3. LineStarts = {o + l * c : l \in 0..(D - 1)}
  BY DEF LineStarts
<1> HIDE DEF D, o, c
<1>4. g \in Surjection(0..(D - 1), LineStarts)
  BY <1>3 DEF Surjection
<1>5. IsFiniteSet(0..(D - 1)) /\ Cardinality(0..(D - 1)) = D
  BY <1>1, FS_Interval
<1>6. IsFiniteSet(LineStarts) /\ Cardinality(LineStarts) <= D
  BY <1>4, <1>5, FS_Surjection
<1>7. p \in Injection(1..D, LineStarts)
  BY <1>2 DEF Injection, IsInjective
<1>8. IsFiniteSet(1..D) /\ Cardinality(1..D) = D
  BY <1>1, FS_Interval
<1>9. Cardinality(1..D) = Cardinality(LineStarts)
  <2>1. Cardinality(1..D) <= Cardinality(LineStarts)
    BY <1>6, <1>7, FS_Injection
  <2>2. Cardinality(LineStarts) \in Nat
    BY <1>6, FS_CardinalityType
  <2> QED BY <1>1, <1>6, <1>8, <2>1, <2>2
<1>10. p \in Surjection(1..D, LineStarts)
  BY <1>6, <1>7, <1>9, FS_Injection
<1> QED BY <1>10 DEF Surjection, D

(* Without zipf the path takes every line of the buffer, and takes it once. *)
THEOREM TakesEveryLineOnce == DSpec => []EveryLineOnce
<1>1. DInv => EveryLineOnce
  <2> SUFFICES ASSUME PathInv, Distributed, ~Zipf PROVE EveryLineOnce
    BY DEF DInv, EveryLineOnce
  <2>1. PICK p, b : Whole(p, b)
    BY DEF PathInv, Distributed
  <2>2. opt \in Commands /\ Divided /\ entries \in Nat /\ entries = NumSubpaths * ChunkLines
    BY DEF PathInv, Distributed
  <2>3. entries = NumDatalines
    BY <2>2, Geometry
  <2>4. Linked(mem, p, NumDatalines)
    BY <2>1, <2>3 DEF Whole
  <2>5. {p[i] : i \in 1..entries} = LineStarts
    BY <2>2, <2>3, <2>4, AllLines
  <2>6. ToSet(WholePath) = LineStarts
    BY <2>1, <2>2, <2>5, WholeIsCycle
  <2> QED BY <2>6 DEF EveryLineOnce, LineStarts
<1> QED BY <1>1, PathInvariant, PTL

-----------------------------------------------------------------------------
(* The slices that are collected are computed from the data set: they are   *)
(* the chunks if the buffer is no multiple of it (option -b) and it is one  *)
(* of the line. The command line stays what it is.                          *)
SlicesAreChunks ==
  Type = "SUBPATH" => BufferFactor = 1 /\ Dataset % Cacheline = 0

LEMMA ChunksStay == opt' = opt => SlicesAreChunks' = SlicesAreChunks
BY Zenon DEF SlicesAreChunks, Type, BufferFactor, Dataset, Cacheline

(* The subpaths found so far are the segments of the path p.                *)
Infos == [startIdx : Int, endIdx : Int, length : Int]
Found(p, b) ==
  \A s \in 0..(Current - 1) :
    subpathInfo[s + 1] =
      [startIdx |-> ChunkStart(s), endIdx |-> p[b[s + 1]], length |-> b[s + 1] - b[s]]

(* Where the walk is: at entry number length of its subpath.                *)
Reaches(p, b) ==
  /\ length \in 1..(b[Current + 1] - b[Current])
  /\ idx = p[b[Current] + length]

(* The path as split: segment s ends where it began.                        *)
Segmented(p, b) ==
  /\ p \in [1..entries -> Addresses] /\ \A i, j \in 1..entries : p[i] = p[j] => i = j
  /\ Segments(p, b, NumSubpaths) /\ b[NumSubpaths] = entries
Parted(p, b) ==
  /\ Segmented(p, b)
  /\ \A s \in 0..(NumSubpaths - 1) :
       /\ \A i \in (b[s] + 1)..(b[s + 1] - 1) : mem[p[i]] = p[i + 1]
       /\ mem[p[b[s + 1]]] = p[b[s] + 1]

WalkInv ==
  /\ subpathInfo \in Seq(Infos)
  /\ pc \in PathPcs => Type = "SUBPATH"
  /\ pc \in {"check", "chunk", "draw"} => subpathInfo = <<>>
  /\ pc = "collect" =>
       Current < NumSubpaths /\ \A p, b : Whole(p, b) => Found(p, b) /\ Reaches(p, b)
  /\ pc = "split" =>
       Current = NumSubpaths /\ \A p, b : Whole(p, b) => Found(p, b)
  /\ pc = "done" =>
       Current = NumSubpaths /\ Divided /\ \E p, b : Parted(p, b) /\ Found(p, b)

LEMMA SliceIsChunk ==
  ASSUME SlicesAreChunks, opt \in Commands, Divided, Type = "SUBPATH"
  PROVE  \A s : SliceStart(s) = ChunkStart(s)
<1> DEFINE N == NumSubpaths
           c == Cacheline
           D == NumDatalines
           L == ChunkLines
           d == Dataset
<1>1. N \in Nat \ {0} /\ c \in Nat \ {0} /\ D \in Nat /\ L \in Nat /\ N * L = D
  BY Sizes, Geometry
<1>2. d \in Nat /\ d % c = 0 /\ BufferSize = d
  <2>1. opt.bufferfactor = 1 /\ opt.dataset % opt.cacheline = 0 /\ opt.dataset \in Nat
    BY SizeAssumption DEF SlicesAreChunks, Type, Dataset, Cacheline, BufferFactor
  <2> QED BY <2>1 DEF Dataset, Cacheline, BufferSize, BufferFactor
<1>3. D = d \div c
  BY <1>2 DEF NumDatalines
<1>4. ChunkSize = L * c
  BY DEF ChunkSize
<1>5. SliceSize = d \div N
  BY DEF SliceSize
<1> HIDE DEF N, c, D, L, d
<1>6. d = c * D
  BY <1>1, <1>2, <1>3, Quotient
<1>7. d = N * (L * c)
  BY <1>1, <1>6, SMTT(30)
<1>8. d \div N = L * c
  <2> DEFINE q == d \div N
             S == L * c
  <2>1. q \in Nat /\ d % N \in 0..(N - 1) /\ d = N * q + (d % N) /\ S \in Nat /\ d = N * S
    <3>1. q \in Nat /\ d % N \in 0..(N - 1) /\ d = N * q + (d % N)
      BY <1>1, <1>2, Quotient
    <3>2. S \in Nat
      BY <1>1
    <3> QED BY <1>7, <3>1, <3>2
  <2> DEFINE r == d % N
  <2>2. r \in 0..(N - 1) /\ N * S = N * q + r
    BY <2>1
  <2> HIDE DEF q, S, r
  <2>3. N * (S - q) = r
    BY <1>1, <2>1, <2>2
  <2>4. ~(S - q >= 1)
    BY <1>1, <2>1, <2>2, <2>3, SMTT(30)
  <2>5. ~(S - q <= -1)
    BY <1>1, <2>1, <2>2, <2>3, SMTT(30)
  <2> QED BY <2>1, <2>4, <2>5 DEF q, S
<1> QED BY <1>4, <1>5, <1>8 DEF SliceStart, ChunkStart

(* The ends of a segment.                                                   *)
LEMMA Ends ==
  ASSUME NEW k \in Nat, NEW p, NEW b, Segments(p, b, k), NEW s \in 0..(k - 1)
  PROVE  /\ b[s] \in Nat /\ b[s + 1] \in Nat /\ b[s] < b[s + 1] /\ b[s + 1] <= b[k]
         /\ b[k] \in Nat /\ s + 1 \in 0..k
         /\ p[b[s] + 1] = ChunkStart(s)
         /\ \A i \in (b[s] + 1)..b[s + 1] : i \in 1..b[k] /\ p[i] \in Chunk(s)
<1>1. s \in 0..k /\ s + 1 \in 0..k /\ k \in 0..k
  OBVIOUS
<1>2. b[s] \in Nat /\ b[s + 1] \in Nat /\ b[k] \in Nat
  BY <1>1 DEF Segments
<1>3. Piece(p, b[s], b[s + 1], s) /\ b[s + 1] <= b[k]
  BY DEF Segments
<1> QED BY <1>1, <1>2, <1>3 DEF Piece

(* There are no more entries than words.                                    *)
LEMMA EntriesFit ==
  ASSUME opt \in Commands, Divided, entries \in Nat, NEW p, NEW b, Whole(p, b)
  PROVE  entries <= BufferSize
<1> DEFINE h == BufferOffset + BufferSize - 1
           I == BufferOffset..h
<1>1. BufferOffset \in Nat /\ BufferSize \in Nat /\ NumSubpaths \in Nat
      /\ ChunkStart(NumSubpaths) \in Nat /\ ChunkStart(NumSubpaths) <= BufferOffset + BufferSize
  BY Sizes, Geometry
<1>2. \A i \in 1..entries : BufferOffset <= p[i] /\ p[i] < ChunkStart(NumSubpaths)
  BY <1>1, Before DEF Whole
<1>3. p \in [1..entries -> Addresses] /\ \A i, j \in 1..entries : p[i] = p[j] => i = j
  BY DEF Whole, Linked
<1>4. \A i \in 1..entries : p[i] \in I
  BY <1>1, <1>2, <1>3 DEF Addresses
<1>5. p \in Injection(1..entries, I)
  BY <1>3, <1>4 DEF Injection, IsInjective
<1>6. IsFiniteSet(I) /\ Cardinality(I) = BufferSize
  <2>1. h \in Int /\ BufferOffset \in Int
    BY <1>1
  <2>2. (IF BufferOffset > h THEN 0 ELSE h - BufferOffset + 1) = BufferSize
    BY <1>1
  <2> HIDE DEF h
  <2> QED BY <2>1, <2>2, FS_Interval
<1>7. Cardinality(1..entries) = entries
  BY FS_Interval
<1> HIDE DEF I
<1>8. Cardinality(1..entries) <= Cardinality(I)
  BY <1>5, <1>6, FS_Injection
<1> QED BY <1>6, <1>7, <1>8

-----------------------------------------------------------------------------
LEMMA WholePrev ==
  ASSUME opt' = opt, NEW p, NEW b, Whole(p, b)'
  PROVE  /\ Segments(p, b, NumSubpaths) /\ b[NumSubpaths] = entries'
         /\ UNCHANGED <<mem, entries>> => Whole(p, b)
<1>1. Segments(p, b, NumSubpaths) /\ b[NumSubpaths] = entries'
  <2>1. Segments(p, b, NumSubpaths)'
    BY DEF Whole
  <2>2. (b[NumSubpaths] = entries)'
    BY DEF Whole
  <2> QED BY <2>1, <2>2, SameOpt DEF Segments, Piece, Chunk, ChunkStart
<1>2. ASSUME UNCHANGED <<mem, entries>>
      PROVE  Whole(p, b)
  <2>1. Linked(mem, p, entries)
    <3>1. Linked(mem, p, entries)'
      BY DEF Whole
    <3> QED BY <1>2, <3>1, SameOpt DEF Linked
  <2>2. mem[p[entries]] = BufferOffset
    <3>1. (mem[p[entries]] = BufferOffset)'
      BY DEF Whole
    <3> QED BY <1>2, <3>1, SameOpt
  <2> QED BY <1>1, <1>2, <2>1, <2>2 DEF Whole
<1> QED BY <1>1, <1>2

(* The word of an entry of the whole path, the ends of its segments among   *)
(* them.                                                                    *)
LEMMA AtEnds ==
  ASSUME opt \in Commands, Divided, NEW p, NEW b, Whole(p, b), NEW k \in 0..(NumSubpaths - 1)
  PROVE  mem[p[b[k + 1]]] = NextStart(k)
<1>1. NumSubpaths \in Nat \ {0} /\ k \in Nat
  BY Sizes
<1>2. Segments(p, b, NumSubpaths) /\ b[NumSubpaths] = entries /\ Linked(mem, p, entries)
  BY DEF Whole
<1>3. CASE k + 1 = NumSubpaths
  <2>1. (k + 1) % NumSubpaths = 0
    BY <1>1, <1>3
  <2>2. NextStart(k) = BufferOffset
    BY <2>1, Geometry DEF NextStart
  <2> QED BY <1>2, <1>3, <2>2 DEF Whole
<1>4. CASE k + 1 # NumSubpaths
  <2>1. k + 1 \in 0..(NumSubpaths - 1) /\ (k + 1) % NumSubpaths = k + 1
    BY <1>1, <1>4
  <2>2. b[k] \in Nat /\ b[k + 1] \in Nat /\ b[k] < b[k + 1]
    BY <1>1, <1>2, Ends
  <2> DEFINE j == k + 1
             e == b[j]
  <2>3. /\ e \in Nat /\ b[j + 1] \in Nat /\ e < b[j + 1] /\ b[j + 1] <= entries
        /\ p[e + 1] = ChunkStart(j) /\ entries \in Nat
    BY <1>1, <1>2, <2>1, Ends
  <2>4. e \in 1..(entries - 1)
    BY <2>2, <2>3
  <2>5. mem[p[e]] = p[e + 1]
    BY <1>2, <2>4 DEF Linked
  <2> QED BY <2>1, <2>3, <2>5 DEF NextStart
<1> QED BY <1>3, <1>4

(* Where the walk is, it finds the next entry, and the end in time.         *)
LEMMA WalkStep ==
  ASSUME opt \in Commands, Divided, entries \in Nat, NEW p, NEW b, Whole(p, b),
         Current \in 0..(NumSubpaths - 1), Reaches(p, b)
  PROVE  LET last == b[Current + 1] - b[Current]
         IN  /\ length \in 1..last /\ last <= BufferSize
             /\ length = last => mem[idx] = NextStart(Current) /\ idx = p[b[Current + 1]]
             /\ length # last => /\ mem[idx] # NextStart(Current) /\ mem[idx] \in Addresses
                                 /\ mem[idx] = p[b[Current] + (length + 1)]
<1> DEFINE k == Current
           N == NumSubpaths
           g == b[k]
           h == b[k + 1]
           last == h - g
           n == entries
           m == (k + 1) % N
<1>1. N \in Nat \ {0} /\ k \in 0..(N - 1) /\ N \in 0..N
  BY Sizes
<1>2. Segments(p, b, N) /\ b[N] = n /\ Linked(mem, p, n)
  BY DEF Whole
<1>3. g \in Nat /\ h \in Nat /\ g < h /\ h <= n
  BY <1>1, <1>2, Ends
<1>4. length \in 1..last /\ idx = p[g + length] /\ last <= BufferSize
  <2>1. n <= BufferSize /\ BufferSize \in Nat
    BY EntriesFit, Sizes
  <2> QED BY <1>3, <2>1 DEF Reaches
<1>5. m \in 0..(N - 1) /\ (m = 0 \/ m = k + 1)
  <2> HIDE DEF k, N
  <2>1. CASE k + 1 = N
    BY <1>1, <2>1
  <2>2. CASE k + 1 # N
    BY <1>1, <2>2
  <2> QED BY <2>1, <2>2
<1>6. NextStart(k) = p[b[m] + 1] /\ b[m] + 1 \in 1..n /\ b[m] \in {0, h}
  <2>1. NextStart(k) = ChunkStart(m)
    BY DEF NextStart
  <2>2. b[m] \in Nat /\ b[m + 1] \in Nat /\ b[m] < b[m + 1] /\ b[m + 1] <= n
        /\ p[b[m] + 1] = ChunkStart(m)
    BY <1>1, <1>2, <1>5, Ends
  <2>3. b[0] = 0
    BY <1>2 DEF Segments
  <2> HIDE DEF m, k, N
  <2>4. b[m] + 1 \in 1..n
    BY <2>2
  <2> QED BY <1>5, <2>1, <2>2, <2>3, <2>4
<1>7. mem[p[h]] = NextStart(k)
  BY <1>1, AtEnds
<1> DEFINE c == b[m]
<1>8. NextStart(k) = p[c + 1] /\ c + 1 \in 1..n /\ c \in {0, h}
  BY <1>6
<1>9. n \in Nat
  OBVIOUS
<1> HIDE DEF k, N, g, h, n, m, c
<1>10. ASSUME length = last
      PROVE  mem[idx] = NextStart(k) /\ idx = p[h]
  <2>1. g + length = h
    BY <1>3, <1>10
  <2> QED BY <1>4, <1>7, <2>1
<1>11. ASSUME length # last
       PROVE  /\ mem[idx] # NextStart(k) /\ mem[idx] \in Addresses
              /\ mem[idx] = p[g + (length + 1)]
  <2> DEFINE j == g + length
             i == g + (length + 1)
  <2>1. j \in 1..(n - 1) /\ i = j + 1 /\ i \in 1..n /\ i # c + 1
    <3>1. length \in Nat /\ 1 <= length /\ g + length < h
      BY <1>3, <1>4, <1>11
    <3>2. j \in 1..(n - 1) /\ i = j + 1 /\ i \in 1..n
      BY <1>3, <1>9, <3>1
    <3>3. i # 0 + 1 /\ i # h + 1
      BY <1>3, <3>1
    <3> QED BY <1>8, <3>2, <3>3
  <2> HIDE DEF i, j
  <2>2. mem[p[j]] = p[j + 1] /\ p[i] \in Addresses
    BY <1>2, <2>1 DEF Linked
  <2>3. p[i] # p[c + 1]
    BY <1>2, <1>8, <2>1 DEF Linked
  <2>4. idx = p[j]
    BY <1>4 DEF j
  <2> QED BY <1>8, <2>1, <2>2, <2>3, <2>4 DEF i
<1> QED BY <1>4, <1>10, <1>11 DEF k, g, h

-----------------------------------------------------------------------------
(* The walk begins at the first entry of the path.                          *)
LEMMA CollectBegins ==
  ASSUME PathInv', WalkInv, opt' = opt, AfterChunk, subpathInfo' = subpathInfo,
         pc \in {"chunk", "draw"}
  PROVE  WalkInv'
<1>1. subpathInfo' = <<>> /\ Type' = "SUBPATH" /\ Len(subpathInfo') = 0
      /\ subpathInfo' \in Seq(Infos)
  BY DEF WalkInv, PathPcs, Type
<1>2. pc' = "chunk" \/ (pc' = "collect" /\ idx' = BufferOffset /\ length' = 1)
  BY DEF AfterChunk
<1>3. CASE pc' = "chunk"
  BY <1>1, <1>3 DEF WalkInv, PathPcs, Infos
<1>4. CASE pc' = "collect" /\ idx' = BufferOffset /\ length' = 1
  <2>1. opt \in Commands /\ Divided
    BY <1>4, SameOpt DEF PathInv
  <2>2. NumSubpaths \in Nat \ {0} /\ NumSubpaths' = NumSubpaths
    BY <2>1, Sizes, SameOpt
  <2>3. Current' = 0
    BY <1>1 DEF Current
  <2>4. ASSUME NEW p, NEW b, Whole(p, b)'
        PROVE  Found(p, b)' /\ Reaches(p, b)'
    <3>1. Segments(p, b, NumSubpaths)
      BY <2>4, WholePrev
    <3>2. Found(p, b)'
      BY <2>3 DEF Found
    <3>3. 0 \in 0..(NumSubpaths - 1) /\ 0 + 1 = 1
      BY <2>2
    <3>4. b[0] \in Nat /\ b[0 + 1] \in Nat /\ b[0] < b[0 + 1] /\ p[b[0] + 1] = ChunkStart(0)
      BY <2>2, <3>1, <3>3, Ends
    <3>5. 1 \in 1..(b[0 + 1] - b[0]) /\ p[b[0] + 1] = BufferOffset
      <4>1. ChunkStart(0) = BufferOffset
        BY <2>1, Geometry
      <4>2. 1 \in 1..(b[0 + 1] - b[0])
        BY <3>4
      <4> QED BY <3>4, <4>1, <4>2
    <3>6. Reaches(p, b)'
      BY <1>4, <2>3, <3>5 DEF Reaches
    <3> QED BY <3>2, <3>6
  <2> QED BY <1>1, <1>4, <2>2, <2>3, <2>4 DEF WalkInv, PathPcs, Infos
<1> QED BY <1>2, <1>3, <1>4

LEMMA WalkKeeps ==
  ASSUME SlicesAreChunks, PathInv, WalkInv, Walk, opt' = opt
  PROVE  WalkInv'
<1>1. /\ pc = "collect" /\ mem[idx] # CurrentEnd /\ UNCHANGED <<mem, entries, subpathInfo>>
      /\ opt \in Commands /\ Divided /\ entries \in Nat /\ Type = "SUBPATH"
      /\ subpathInfo \in Seq(Infos) /\ Current < NumSubpaths
      /\ \E p, b : Whole(p, b)
  BY DEF Walk, PathInv, WalkInv, pathVars, PathPcs
<1>2. Current \in 0..(NumSubpaths - 1)
  <2>1. Len(subpathInfo) \in Nat
    BY <1>1
  <2> QED BY <1>1, <2>1, Sizes DEF Current
<1>3. CurrentEnd = NextStart(Current)
  BY <1>1, SliceIsChunk DEF CurrentEnd, NextStart
<1>4. ASSUME NEW p, NEW b, Whole(p, b)
      PROVE  /\ Found(p, b)' /\ Reaches(p, b)' /\ pc' = pc
  <2>1. Found(p, b) /\ Reaches(p, b)
    BY <1>1, <1>4 DEF WalkInv
  <2> DEFINE last == b[Current + 1] - b[Current]
  <2>2. /\ length \in 1..last /\ last <= BufferSize /\ length # last
        /\ mem[idx] \in Addresses /\ mem[idx] = p[b[Current] + (length + 1)]
    BY <1>1, <1>2, <1>3, <1>4, <2>1, WalkStep
  <2>3. pc' = pc /\ idx' = mem[idx]
        /\ length' = IF length > BufferSize THEN length ELSE length + 1
    BY <2>2 DEF Walk
  <2>4. Current' = Current
    BY <1>1 DEF Current
  <2>5. Found(p, b)'
    BY <1>1, <2>1, <2>4, SameOpt DEF Found, ChunkStart
  <2>6. last \in Int
    <3>1. b[Current] \in Nat /\ b[Current + 1] \in Nat
      BY <1>1, <1>2, <1>4, Ends, Sizes DEF Whole
    <3> QED BY <3>1
  <2>7. length' = length + 1 /\ length + 1 \in 1..last
    <3>1. BufferSize \in Nat
      BY <1>1, Sizes
    <3> HIDE DEF last
    <3> QED BY <2>2, <2>3, <2>6, <3>1
  <2> HIDE DEF last
  <2>8. Reaches(p, b)'
    BY <2>2, <2>3, <2>4, <2>7 DEF Reaches, last
  <2> QED BY <2>3, <2>5, <2>8
<1>5. pc' = pc
  BY <1>1, <1>4
<1>6. \A p, b : Whole(p, b)' => Found(p, b)' /\ Reaches(p, b)'
  BY <1>1, <1>4, WholePrev
<1>7. Current' = Current /\ NumSubpaths' = NumSubpaths /\ Type' = Type
  BY <1>1, SameOpt DEF Current, Type
<1> QED BY <1>1, <1>5, <1>6, <1>7 DEF WalkInv, PathPcs, Infos

LEMMA FindEndKeeps ==
  ASSUME SlicesAreChunks, PathInv, WalkInv, FindEnd, opt' = opt
  PROVE  WalkInv'
<1> DEFINE k == Current
           N == NumSubpaths
           info == [startIdx |-> ChunkStart(k), endIdx |-> idx, length |-> length]
<1>1. /\ pc = "collect" /\ mem[idx] = CurrentEnd /\ UNCHANGED <<mem, entries>>
      /\ opt \in Commands /\ Divided /\ entries \in Nat /\ Type = "SUBPATH"
      /\ subpathInfo \in Seq(Infos) /\ k < N
      /\ \E p, b : Whole(p, b)
      /\ idx' = CurrentEnd /\ length' = 1
      /\ pc' = IF k + 1 = N THEN "split" ELSE "collect"
  BY DEF FindEnd, PathInv, WalkInv, pathVars, PathPcs
<1>2. k \in 0..(N - 1) /\ Len(subpathInfo) = k /\ k \in Nat /\ N \in Nat \ {0}
  <2>1. Len(subpathInfo) \in Nat
    BY <1>1
  <2> QED BY <1>1, <2>1, Sizes DEF Current
<1>3. CurrentEnd = NextStart(k) /\ subpathInfo' = Append(subpathInfo, info)
  BY <1>1, SliceIsChunk DEF CurrentEnd, NextStart, FindEnd, EntriesWalked
<1>4. ASSUME NEW p, NEW b, Whole(p, b)
      PROVE  /\ idx = p[b[k + 1]] /\ length = b[k + 1] - b[k] /\ Found(p, b)
             /\ b[k] \in Nat /\ b[k + 1] \in Nat /\ idx \in Addresses
  <2>1. Found(p, b) /\ Reaches(p, b)
    BY <1>1, <1>4 DEF WalkInv
  <2>2. length = b[k + 1] - b[k] /\ idx = p[b[k + 1]]
    BY <1>1, <1>2, <1>3, <1>4, <2>1, WalkStep
  <2>3. /\ b[k] \in Nat /\ b[k + 1] \in Nat /\ b[k] < b[k + 1]
        /\ b[k + 1] <= b[N] /\ b[N] = entries /\ p \in [1..entries -> Addresses]
    <3>1. Segments(p, b, N) /\ b[N] = entries /\ p \in [1..entries -> Addresses]
      BY <1>4 DEF Whole, Linked
    <3> QED BY <1>2, <3>1, Ends
  <2>4. b[k + 1] \in 1..entries
    <3> HIDE DEF k, N
    <3> QED BY <1>1, <2>3
  <2> QED BY <2>1, <2>2, <2>3, <2>4
<1>5. info \in Infos
  <2>1. length \in Int /\ idx \in Int /\ ChunkStart(k) \in Int
    <3>1. PICK p, b : Whole(p, b)
      BY <1>1
    <3>2. length = b[k + 1] - b[k] /\ b[k] \in Nat /\ b[k + 1] \in Nat /\ idx \in Addresses
      BY <1>4, <3>1
    <3>3. ChunkStart(k) \in Nat
      BY <1>1, <1>2, Geometry
    <3> QED BY <3>2, <3>3 DEF Addresses
  <2> QED BY <2>1 DEF Infos
<1> HIDE DEF info
<1>6. /\ subpathInfo' \in Seq(Infos) /\ Len(subpathInfo') = k + 1
      /\ \A s \in 1..k : subpathInfo'[s] = subpathInfo[s]
      /\ subpathInfo'[k + 1] = info
  BY <1>1, <1>2, <1>3, <1>5
<1>7. Current' = k + 1 /\ N' = N /\ Type' = Type
  BY <1>6, SameOpt DEF Current, Type
<1>8. ASSUME NEW p, NEW b, Whole(p, b)
      PROVE  Found(p, b)'
  <2> DEFINE z(s) == [startIdx |-> ChunkStart(s), endIdx |-> p[b[s + 1]],
                      length |-> b[s + 1] - b[s]]
  <2>1. ASSUME NEW s \in 0..k
        PROVE  subpathInfo'[s + 1] = z(s)
    <3>1. CASE s = k
      BY <1>4, <1>6, <1>8, <3>1 DEF info
    <3>2. CASE s # k
      <4>1. s \in 0..(k - 1) /\ s + 1 \in 1..k
        BY <1>2, <3>2
      <4>2. subpathInfo[s + 1] = z(s)
        BY <1>4, <1>8, <4>1 DEF Found
      <4> QED BY <1>6, <4>1, <4>2
    <3> QED BY <3>1, <3>2
  <2>2. Current' - 1 = k
    BY <1>2, <1>7
  <2>3. \A s \in 0..(Current' - 1) : subpathInfo'[s + 1] = z(s)
    BY <2>1, <2>2
  <2> QED BY <2>3, SameOpt DEF Found, ChunkStart
<1>9. CASE k + 1 = N
  <2>1. pc' = "split" /\ Current' = N'
    BY <1>1, <1>7, <1>9
  <2>2. \A p, b : Whole(p, b)' => Found(p, b)'
    BY <1>1, <1>8, WholePrev
  <2> QED BY <1>1, <1>6, <1>7, <2>1, <2>2 DEF WalkInv, PathPcs, Infos
<1>10. CASE k + 1 # N
  <2>1. pc' = "collect" /\ Current' < N'
    BY <1>1, <1>2, <1>7, <1>10
  <2>2. k + 1 \in 0..(N - 1) /\ (k + 1) % N = k + 1
    <3> HIDE DEF k, N
    <3> QED BY <1>2, <1>10
  <2>3. ASSUME NEW p, NEW b, Whole(p, b)
        PROVE  Reaches(p, b)'
    <3> DEFINE j == k + 1
    <3>1. Segments(p, b, N)
      BY <2>3 DEF Whole
    <3>2. b[j] \in Nat /\ b[j + 1] \in Nat /\ b[j] < b[j + 1] /\ p[b[j] + 1] = ChunkStart(j)
      BY <1>2, <2>2, <3>1, Ends
    <3>3. idx' = ChunkStart(j)
      BY <1>1, <1>3, <2>2 DEF NextStart
    <3>4. Current' = j /\ length' = 1
      BY <1>1, <1>7
    <3> HIDE DEF j
    <3> QED BY <3>2, <3>3, <3>4 DEF Reaches
  <2>4. \A p, b : Whole(p, b)' => Found(p, b)' /\ Reaches(p, b)'
    BY <1>1, <1>8, <2>3, WholePrev
  <2> QED BY <1>1, <1>6, <1>7, <2>1, <2>4 DEF WalkInv, PathPcs, Infos
<1> QED BY <1>9, <1>10

-----------------------------------------------------------------------------
(* An entry is in one segment only.                                         *)
LEMMA OneSegment ==
  ASSUME opt \in Commands, Divided, NEW p, NEW b, Segments(p, b, NumSubpaths),
         NEW s \in 0..(NumSubpaths - 1), NEW u \in 0..(NumSubpaths - 1),
         NEW i \in (b[s] + 1)..b[s + 1], NEW j \in (b[u] + 1)..b[u + 1], p[i] = p[j]
  PROVE  s = u
<1>1. p[i] \in Chunk(s) /\ p[j] \in Chunk(u)
  BY DEF Segments, Piece
<1> QED BY <1>1, Chunks

(* After the split each segment ends where it began.                        *)
LEMMA SplitKeeps ==
  ASSUME PathInv, WalkInv, Split, opt' = opt
  PROVE  WalkInv'
<1> DEFINE N == NumSubpaths
           n == entries
<1>1. /\ pc = "split" /\ pc' = "done" /\ UNCHANGED <<entries, subpathInfo>>
      /\ opt \in Commands /\ Divided /\ Type = "SUBPATH" /\ Current = N
      /\ mem' = [a \in Addresses |->
                   IF \E i \in 1..N : a = subpathInfo[i].endIdx
                   THEN CloseAt(CHOOSE i \in 1..N : a = subpathInfo[i].endIdx)
                   ELSE mem[a]]
  BY DEF Split, PathInv, WalkInv, infoVars, PathPcs
<1>2. PICK p, b : Whole(p, b)
  BY <1>1 DEF PathInv
<1>3. /\ Segments(p, b, N) /\ b[N] = n /\ p \in [1..n -> Addresses]
      /\ \A i, j \in 1..n : p[i] = p[j] => i = j
      /\ \A i \in 1..(n - 1) : mem[p[i]] = p[i + 1]
      /\ Found(p, b) /\ N \in Nat \ {0} /\ n \in Nat
  BY <1>1, <1>2, Sizes DEF Whole, Linked, PathInv, WalkInv
<1>4. ASSUME NEW s \in 0..(N - 1)
      PROVE  /\ subpathInfo[s + 1].endIdx = p[b[s + 1]] /\ CloseAt(s + 1) = p[b[s] + 1]
             /\ b[s] \in Nat /\ b[s + 1] \in Nat /\ b[s] < b[s + 1] /\ b[s + 1] <= n
             /\ s + 1 \in 1..N /\ b[s + 1] \in (b[s] + 1)..b[s + 1]
             /\ \A j \in (b[s] + 1)..b[s + 1] : j \in 1..n
  <2>1. subpathInfo[s + 1] =
          [startIdx |-> ChunkStart(s), endIdx |-> p[b[s + 1]], length |-> b[s + 1] - b[s]]
    BY <1>1, <1>3 DEF Found
  <2>2. /\ b[s] \in Nat /\ b[s + 1] \in Nat /\ b[s] < b[s + 1] /\ b[s + 1] <= n
        /\ p[b[s] + 1] = ChunkStart(s) /\ \A j \in (b[s] + 1)..b[s + 1] : j \in 1..n
    <3>1. N \in Nat /\ Segments(p, b, N) /\ b[N] = n /\ s \in 0..(N - 1)
      BY <1>3
    <3> HIDE DEF N, n
    <3>2. /\ b[s] \in Nat /\ b[s + 1] \in Nat /\ b[s] < b[s + 1] /\ b[s + 1] <= b[N]
          /\ p[b[s] + 1] = ChunkStart(s) /\ \A j \in (b[s] + 1)..b[s + 1] : j \in 1..b[N]
      BY <3>1, Ends
    <3> QED BY <3>1, <3>2
  <2>3. s + 1 \in 1..N
    BY <1>3
  <2>4. b[s + 1] \in (b[s] + 1)..b[s + 1]
    BY <2>2
  <2> QED BY <2>1, <2>2, <2>3, <2>4 DEF CloseAt
<1>5. ASSUME NEW i \in 1..N
      PROVE  i - 1 \in 0..(N - 1) /\ (i - 1) + 1 = i
  BY <1>3
<1>6. ASSUME NEW i \in 1..N, NEW s \in 0..(N - 1), NEW j \in (b[s] + 1)..b[s + 1],
             p[j] = subpathInfo[i].endIdx
      PROVE  i = s + 1 /\ j = b[s + 1]
  <2> DEFINE u == i - 1
  <2>1. u \in 0..(N - 1) /\ u + 1 = i
    BY <1>5
  <2> HIDE DEF u
  <2>2. p[j] = p[b[u + 1]] /\ b[u + 1] \in (b[u] + 1)..b[u + 1]
    BY <1>4, <1>6, <2>1
  <2>3. opt \in Commands /\ Divided /\ Segments(p, b, N)
    BY <1>1, <1>3
  <2>4. j \in (b[s] + 1)..b[s + 1] /\ b[u + 1] \in (b[u] + 1)..b[u + 1]
    BY <1>6, <2>2
  <2>5. s = u
    BY <2>1, <2>2, <2>3, <2>4, OneSegment
  <2>6. j \in 1..n /\ b[s + 1] \in 1..n
    <3>1. b[s + 1] \in (b[s] + 1)..b[s + 1]
      BY <1>4
    <3> QED BY <1>4, <3>1
  <2> QED BY <1>3, <2>1, <2>2, <2>5, <2>6
<1> HIDE DEF N, n
<1>7. ASSUME NEW s \in 0..(N - 1), NEW j \in (b[s] + 1)..b[s + 1]
      PROVE  mem'[p[j]] = IF j = b[s + 1] THEN p[b[s] + 1] ELSE p[j + 1]
  <2>1. j \in 1..n /\ p[j] \in Addresses
    BY <1>3, <1>4
  <2>2. CASE j = b[s + 1]
    <3>1. p[j] = subpathInfo[s + 1].endIdx /\ s + 1 \in 1..N
      BY <1>4, <2>2
    <3>2. (CHOOSE i \in 1..N : p[j] = subpathInfo[i].endIdx) = s + 1
      BY <1>6, <3>1, Zenon
    <3>3. mem'[p[j]] = CloseAt(s + 1)
      BY <1>1, <2>1, <3>1, <3>2, Zenon
    <3> QED BY <1>4, <2>2, <3>3
  <2>3. CASE j # b[s + 1]
    <3>1. ~ \E i \in 1..N : p[j] = subpathInfo[i].endIdx
      BY <1>6, <2>3
    <3>2. mem'[p[j]] = mem[p[j]]
      BY <1>1, <2>1, <3>1
    <3>3. j \in 1..(n - 1)
      BY <1>3, <1>4, <2>1, <2>3
    <3> QED BY <1>3, <2>3, <3>2, <3>3
  <2> QED BY <2>2, <2>3
<1>8. ASSUME NEW s \in 0..(N - 1)
      PROVE  /\ \A i \in (b[s] + 1)..(b[s + 1] - 1) : mem'[p[i]] = p[i + 1]
             /\ mem'[p[b[s + 1]]] = p[b[s] + 1]
  <2>1. mem'[p[b[s + 1]]] = p[b[s] + 1]
    BY <1>4, <1>7
  <2>2. ASSUME NEW i \in (b[s] + 1)..(b[s + 1] - 1)
        PROVE  mem'[p[i]] = p[i + 1]
    <3>1. i \in (b[s] + 1)..b[s + 1] /\ i # b[s + 1]
      BY <1>4
    <3> QED BY <1>7, <3>1
  <2> QED BY <2>1, <2>2
<1>9. Parted(p, b)'
  <2>1. Segments(p, b, NumSubpaths)' /\ NumSubpaths' = N /\ entries' = n /\ Addresses' = Addresses
    BY <1>1, <1>3, SameOpt DEF Segments, Piece, Chunk, ChunkStart, N, n
  <2>2. b[NumSubpaths'] = entries'
    BY <1>3, <2>1
  <2> QED BY <1>3, <1>8, <2>1, <2>2 DEF Parted, Segmented
<1>10. Current' = Current /\ NumSubpaths' = N /\ Type' = Type /\ Divided'
  BY <1>1, SameOpt DEF Current, Type, N
<1>11. Found(p, b)'
  BY <1>1, <1>3, <1>10, SameOpt DEF Found, ChunkStart
<1> QED BY <1>1, <1>9, <1>10, <1>11 DEF WalkInv, PathPcs, Infos

SInv == DInv /\ (SlicesAreChunks => WalkInv)

(* What was collected, and what the split left, is what distribute() built. *)
THEOREM WalkInvariant == DSpec => []SInv
<1>1. DInit => WalkInv
  <2> SUFFICES ASSUME DInit PROVE WalkInv
    OBVIOUS
  <2>1. subpathInfo = <<>> /\ pc = IF Type = "SUBPATH" THEN "check" ELSE "legacy"
    BY DEF DInit, Setup
  <2> QED BY <2>1 DEF WalkInv, PathPcs, Infos
<1>2. /\ DInv /\ DInv' /\ (SlicesAreChunks => WalkInv) /\ [DNext]_allVars
      => (SlicesAreChunks' => WalkInv')
  <2> SUFFICES ASSUME DInv, DInv', SlicesAreChunks => WalkInv, [DNext]_allVars, SlicesAreChunks'
               PROVE  WalkInv'
    OBVIOUS
  <2>9. SlicesAreChunks /\ WalkInv
    BY StepOfPath, ChunksStay DEF DInv
  <2>1. PathInv /\ PathInv' /\ opt' = opt /\ Type' = Type
    BY StepOfPath DEF DInv, Type
  <2>2. CASE Check \/ ZipfChunk
    <3>1. subpathInfo' = subpathInfo /\ pc \in {"check", "chunk"} /\ pc' \in {"exited", "chunk", "draw"}
      BY <2>2 DEF Check, ZipfChunk, infoVars
    <3> QED BY <2>1, <2>9, <3>1 DEF WalkInv, PathPcs, Infos
  <2>3. CASE UniformChunk
    <3>1. AfterChunk /\ subpathInfo' = subpathInfo /\ pc = "chunk"
      BY <2>3 DEF UniformChunk
    <3> QED BY <2>1, <2>9, <3>1, CollectBegins
  <2>4. CASE pc = "draw" /\ LinkChunk
    <3>1. AfterChunk /\ subpathInfo' = subpathInfo
      BY <2>4 DEF LinkChunk
    <3> QED BY <2>1, <2>4, <2>9, <3>1, CollectBegins
  <2>5. CASE \E l \in 0..(ChunkLines - 1) : ZipfDraw(l)
    <3>1. subpathInfo' = subpathInfo /\ pc = "draw" /\ pc' = "draw"
      BY <2>5 DEF ZipfDraw, infoVars
    <3> QED BY <2>1, <2>9, <3>1 DEF WalkInv, PathPcs, Infos
  <2>6. CASE Walk \/ FindEnd \/ Split
    BY <2>1, <2>6, <2>9, WalkKeeps, FindEndKeeps, SplitKeeps
  <2>7. CASE UNCHANGED <<pc, pathVars, infoVars>>
    <3>1. UNCHANGED <<pc, mem, entries, subpathInfo, idx, length>>
      BY <2>7 DEF pathVars, infoVars
    <3>2. Current' = Current /\ NumSubpaths' = NumSubpaths /\ Divided' = Divided
          /\ Addresses' = Addresses
      BY <2>1, <3>1, SameOpt DEF Current
    <3>3. \A p, b : Whole(p, b)' => Whole(p, b)
      BY <2>1, <3>1, WholePrev
    <3>4. \A p, b : (Found(p, b) => Found(p, b)') /\ (Reaches(p, b) => Reaches(p, b)')
      BY <2>1, <3>1, <3>2, SameOpt DEF Found, Reaches, ChunkStart
    <3>5. \A p, b : Parted(p, b) => Parted(p, b)'
      BY <2>1, <3>1, <3>2, SameOpt DEF Parted, Segmented, Segments, Piece, Chunk, ChunkStart
    <3> QED BY <2>1, <2>9, <3>1, <3>2, <3>3, <3>4, <3>5 DEF WalkInv, PathPcs, Infos
  <2>8. CASE pc' \notin PathPcs /\ UNCHANGED infoVars
    BY <2>8, <2>9 DEF infoVars, WalkInv, PathPcs, Infos
  <2> QED BY <2>2, <2>3, <2>4, <2>5, <2>6, <2>7, <2>8, StepOfPath DEF DInv
<1> QED BY <1>1, <1>2, PathInvariant, PTL DEF DSpec, SInv

-----------------------------------------------------------------------------
(* The entries of segment s, one after the other.                           *)
Part(p, b, s) == [i \in 1..(b[s + 1] - b[s]) |-> p[b[s] + i]]
InTurn(p, b, s) == \A i \in (b[s] + 1)..(b[s + 1] - 1) : mem[p[i]] = p[i + 1]
IsPart(r, m, p, b, s) ==
  /\ m \in Nat \ {0} /\ r \in [1..m -> Addresses] /\ r[1] = ChunkStart(s)
  /\ r[m] = p[b[s + 1]] /\ \A i \in 1..(m - 1) : mem[r[i]] = r[i + 1]
  /\ \A i, j \in 1..m : r[i] = r[j] => i = j
  /\ {r[i] : i \in 1..m} = {p[i] : i \in (b[s] + 1)..b[s + 1]}

LEMMA PartOf ==
  ASSUME opt \in Commands, entries \in Nat, NEW p, NEW b, Segmented(p, b),
         NEW s \in 0..(NumSubpaths - 1), InTurn(p, b, s)
  PROVE  IsPart(Part(p, b, s), b[s + 1] - b[s], p, b, s)
<1> DEFINE g == b[s]
           h == b[s + 1]
           m == h - g
           r == Part(p, b, s)
           n == entries
<1>1. /\ g \in Nat /\ h \in Nat /\ g < h /\ p[g + 1] = ChunkStart(s)
      /\ \A i \in (g + 1)..h : i \in 1..n
  <2> DEFINE N == NumSubpaths
  <2>1. N \in Nat /\ Segments(p, b, N) /\ b[N] = n /\ s \in 0..(N - 1)
    BY Sizes DEF Segmented
  <2> HIDE DEF N, n
  <2>2. /\ g \in Nat /\ h \in Nat /\ g < h /\ p[g + 1] = ChunkStart(s)
        /\ \A i \in (g + 1)..h : i \in 1..b[N]
    BY <2>1, Ends
  <2> QED BY <2>1, <2>2
<1>12. p \in [1..n -> Addresses] /\ \A i, j \in 1..n : p[i] = p[j] => i = j
  BY DEF Segmented
<1>2. r = [i \in 1..m |-> p[g + i]]
  BY DEF Part
<1>3. \A i \in (g + 1)..(h - 1) : mem[p[i]] = p[i + 1]
  BY DEF InTurn
<1> HIDE DEF g, h, r, n
<1>4. m \in Nat \ {0} /\ m = h - g
  BY <1>1
<1>5. \A i \in 1..m : g + i \in 1..n /\ g + i \in (g + 1)..h
  BY <1>1
<1>6. \A i \in 1..m : r[i] = p[g + i]
  BY <1>2
<1>7. r \in [1..m -> Addresses]
  BY <1>2, <1>5, <1>12
<1>8. r[1] = ChunkStart(s) /\ r[m] = p[h]
  <2>1. 1 \in 1..m /\ m \in 1..m /\ g + m = h
    BY <1>1
  <2> HIDE DEF m
  <2> QED BY <1>1, <1>6, <2>1
<1>9. ASSUME NEW i \in 1..(m - 1)
      PROVE  mem[r[i]] = r[i + 1]
  <2> DEFINE k == g + i
  <2>1. i \in 1..m /\ i + 1 \in 1..m /\ k \in (g + 1)..(h - 1) /\ g + (i + 1) = k + 1
    <3>1. i \in Int /\ 1 <= i /\ i <= m - 1 /\ g \in Int /\ h \in Int
      BY <1>1
    <3> QED BY <3>1
  <2>2. r[i] = p[k] /\ r[i + 1] = p[g + (i + 1)]
    BY <1>6, <2>1
  <2> HIDE DEF k, m
  <2> QED BY <1>3, <2>1, <2>2
<1>10. ASSUME NEW i \in 1..m, NEW j \in 1..m, r[i] = r[j]
       PROVE  i = j
  <2>1. g + i = g + j
    BY <1>5, <1>6, <1>10, <1>12
  <2> QED BY <1>1, <2>1
<1>11. {r[i] : i \in 1..m} = {p[i] : i \in (g + 1)..h}
  <2>1. ASSUME NEW i \in (g + 1)..h PROVE \E j \in 1..m : r[j] = p[i]
    <3>1. i - g \in 1..m /\ g + (i - g) = i
      BY <1>1
    <3>2. r[i - g] = p[g + (i - g)]
      BY <1>6, <3>1
    <3> QED BY <3>1, <3>2
  <2>2. ASSUME NEW j \in 1..m PROVE \E i \in (g + 1)..h : r[j] = p[i]
    BY <1>5, <1>6
  <2> HIDE DEF m
  <2> QED BY <2>1, <2>2
<1> QED BY <1>4, <1>7, <1>8, <1>9, <1>10, <1>11 DEF g, h, r, IsPart

(* Each slice holds one subpath, which begins with its first word, and what *)
(* was collected says which: for every buffer, shuffle and draw.            *)
THEOREM SlicesHold == DSpec => [](SlicesAreChunks => SlicesHoldSubpaths)
<1>1. SInv => (SlicesAreChunks => SlicesHoldSubpaths)
  <2> SUFFICES ASSUME PathInv, WalkInv, SlicesAreChunks, pc = "split", NEW s \in 0..(NumSubpaths - 1)
               PROVE  LET info == subpathInfo[s + 1]
                          trail == Trail(info.startIdx, info.length - 1)
                      IN  /\ info.startIdx = ChunkStart(s)
                          /\ trail[info.length] = info.endIdx
                          /\ ToSet(trail) = ToSet(WholePath) \cap Chunk(s)
    BY DEF SInv, DInv, SlicesHoldSubpaths
  <2>1. opt \in Commands /\ Divided /\ entries \in Nat /\ Current = NumSubpaths
        /\ \E p, b : Whole(p, b)
    BY DEF PathInv, WalkInv
  <2>2. PICK p, b : Whole(p, b)
    BY <2>1
  <2> DEFINE m == b[s + 1] - b[s]
             r == Part(p, b, s)
             n == entries
             N == NumSubpaths
  <2>3. subpathInfo[s + 1] = [startIdx |-> ChunkStart(s), endIdx |-> p[b[s + 1]], length |-> m]
    BY <2>1, <2>2 DEF WalkInv, Found
  <2>4. /\ p \in [1..n -> Addresses] /\ \A i, j \in 1..n : p[i] = p[j] => i = j
        /\ \A i \in 1..(n - 1) : mem[p[i]] = p[i + 1]
        /\ Segments(p, b, N) /\ b[N] = n /\ N \in Nat /\ n \in Nat
    BY <2>1, <2>2, Sizes DEF Whole, Linked
  <2>5. /\ b[s] \in Nat /\ b[s + 1] \in Nat /\ b[s] < b[s + 1]
        /\ \A i \in (b[s] + 1)..b[s + 1] : i \in 1..n /\ p[i] \in Chunk(s)
        /\ b[s + 1] <= n
    BY <2>4, Ends
  <2>6. \A i \in (b[s] + 1)..(b[s + 1] - 1) : mem[p[i]] = p[i + 1]
    <3>1. \A i \in (b[s] + 1)..(b[s + 1] - 1) : i \in 1..(n - 1)
      BY <2>4, <2>5
    <3> QED BY <2>4, <3>1
  <2>12. Segmented(p, b)
    BY <2>4 DEF Segmented
  <2>17. IsPart(r, m, p, b, s)
    <3>1. InTurn(p, b, s)
      BY <2>6 DEF InTurn
    <3> QED BY <2>1, <2>12, <3>1, PartOf
  <2>7. /\ m \in Nat \ {0} /\ r \in [1..m -> Addresses] /\ r[1] = ChunkStart(s)
        /\ r[m] = p[b[s + 1]] /\ \A i \in 1..(m - 1) : mem[r[i]] = r[i + 1]
        /\ {r[i] : i \in 1..m} = {p[i] : i \in (b[s] + 1)..b[s + 1]}
    BY <2>17 DEF IsPart
  <2>8. ToSet(WholePath) = {p[i] : i \in 1..n}
    BY <2>1, <2>2, WholeIsCycle
  <2>9. {p[i] : i \in (b[s] + 1)..b[s + 1]} = {p[i] : i \in 1..n} \cap Chunk(s)
    <3>1. ASSUME NEW i \in 1..n, p[i] \in Chunk(s)
          PROVE  i \in (b[s] + 1)..b[s + 1]
      <4>1. PICK u \in 0..(N - 1) : i \in (b[u] + 1)..b[u + 1]
        BY <2>4 DEF Segments
      <4>2. p[i] \in Chunk(u)
        BY <2>4, <4>1, Ends
      <4>3. u = s
        BY <2>1, <3>1, <4>2, Chunks
      <4> QED BY <4>1, <4>3
    <3> QED BY <2>5, <3>1
  <2> HIDE DEF m, r, n, N
  <2>10. Trail(r[1], m - 1) = r
    BY <2>7, TrailOf
  <2>11. ToSet(r) = {r[i] : i \in 1..m}
    BY <2>7 DEF ToSet
  <2> DEFINE info == subpathInfo[s + 1]
  <2>13. info.startIdx = r[1] /\ info.endIdx = r[m] /\ info.length = m
    BY <2>3, <2>7
  <2> HIDE DEF info
  <2>14. Trail(info.startIdx, info.length - 1) = r
    BY <2>10, <2>13
  <2>15. r[info.length] = info.endIdx /\ info.startIdx = ChunkStart(s)
    BY <2>7, <2>13
  <2>16. ToSet(r) = ToSet(WholePath) \cap Chunk(s)
    BY <2>7, <2>8, <2>9, <2>11
  <2> QED BY <2>14, <2>15, <2>16, Zenon DEF info
<1> QED BY <1>1, WalkInvariant, PTL

-----------------------------------------------------------------------------
(* A part that is closed is a cycle.                                        *)
LEMMA ClosedPart ==
  ASSUME NEW p, NEW b, NEW s, NEW m, NEW r, IsPart(r, m, p, b, s),
         mem[p[b[s + 1]]] = ChunkStart(s)
  PROVE  /\ IsCycle(Trail(ChunkStart(s), m))
         /\ ToSet(Trail(ChunkStart(s), m)) = {p[i] : i \in (b[s] + 1)..b[s + 1]}
<1> DEFINE t == [i \in 1..(m + 1) |-> IF i = m + 1 THEN mem[r[m]] ELSE r[i]]
<1>1. /\ m \in Nat \ {0} /\ r \in [1..m -> Addresses] /\ r[1] = ChunkStart(s)
      /\ mem[r[m]] = r[1] /\ \A i \in 1..(m - 1) : mem[r[i]] = r[i + 1]
      /\ \A i, j \in 1..m : r[i] = r[j] => i = j
      /\ {r[i] : i \in 1..m} = {p[i] : i \in (b[s] + 1)..b[s + 1]}
  BY DEF IsPart
<1>2. Trail(ChunkStart(s), m) = t
  <2>1. /\ m \in Nat \ {0} /\ r \in [1..m -> Addresses]
        /\ \A i \in 1..(m - 1) : mem[r[i]] = r[i + 1]
    BY <1>1
  <2>2. Trail(r[1], m) = t
    BY <2>1, TrailOf
  <2> QED BY <1>1, <2>2, Zenon
<1>3. /\ \A i \in 1..m : t[i] = r[i]
      /\ t[m + 1] = r[1] /\ t[1] = r[1] /\ t = [i \in 1..(m + 1) |-> t[i]]
  BY <1>1
<1> HIDE DEF t
<1>4. Returns(t, m)
  <2>1. t[m + 1] = t[1]
    BY <1>3
  <2>2. ASSUME NEW i \in 1..m, NEW j \in 1..m, t[i] = t[j]
        PROVE  i = j
    <3>1. r[i] = r[j]
      BY <1>3, <2>2
    <3> QED BY <1>1, <3>1
  <2>3. t = [i \in 1..(m + 1) |-> t[i]]
    BY <1>3
  <2> QED BY <2>1, <2>2, <2>3 DEF Returns
<1>5. IsCycle(t) /\ ToSet(t) = {t[i] : i \in 1..m}
  BY <1>1, <1>4, CycleIs
<1>6. {t[i] : i \in 1..m} = {r[i] : i \in 1..m}
  BY <1>3
<1> QED BY <1>1, <1>2, <1>5, <1>6

(* The lengths of the subpaths before s add up to the boundary of s.        *)
Sums(f, N) ==
  f = [s \in 0..N |-> IF s = 0 THEN 0 ELSE f[s - 1] + subpathInfo[s].length]

TotalOfLengths(N) ==
  LET sum[s \in 0..N] ==
        IF s = 0 THEN 0 ELSE sum[s - 1] + subpathInfo[s].length
  IN  sum[N]

LEMMA SumIs ==
  ASSUME NEW N \in Nat, NEW b, b[0] = 0, \A s \in 0..N : b[s] \in Nat,
         \A s \in 0..(N - 1) : subpathInfo[s + 1].length = b[s + 1] - b[s]
  PROVE  TotalOfLengths(N) = b[N]
<1> DEFINE f == [s \in 0..N |-> b[s]]
<1>1. Sums(f, N)
  <2>1. ASSUME NEW s \in 0..N
        PROVE  f[s] = IF s = 0 THEN 0 ELSE f[s - 1] + subpathInfo[s].length
    <3>1. CASE s # 0
      <4> DEFINE k == s - 1
      <4>1. k \in 0..(N - 1) /\ k + 1 = s /\ k \in 0..N /\ b[k] \in Nat /\ b[s] \in Nat
        BY <3>1
      <4> HIDE DEF k
      <4>2. subpathInfo[s].length = b[s] - b[k]
        BY <4>1
      <4>3. f[s] = f[k] + subpathInfo[s].length
        BY <4>1, <4>2
      <4> QED BY <3>1, <4>3 DEF k
    <3> QED BY <3>1
  <2>2. f = [s \in 0..N |-> f[s]]
    OBVIOUS
  <2> HIDE DEF f
  <2> QED BY <2>1, <2>2 DEF Sums
<1>2. ASSUME NEW g, Sums(g, N)
      PROVE  g = f
  <2> DEFINE Same == {k \in 0..N : g[k] = f[k]}
  <2>1. 0 \in Same
    BY <1>2 DEF Sums
  <2>2. ASSUME NEW k \in 0..(N - 1), k \in Same
        PROVE  k + 1 \in Same
    <3> DEFINE i == k + 1
    <3>1. i \in 0..N /\ i # 0 /\ i - 1 = k
      OBVIOUS
    <3> HIDE DEF i, f
    <3>2. g[i] = g[i - 1] + subpathInfo[i].length /\ f[i] = f[i - 1] + subpathInfo[i].length
      BY <1>1, <1>2, <3>1 DEF Sums
    <3> QED BY <2>2, <3>1, <3>2 DEF i
  <2> HIDE DEF Same, f
  <2>3. 0..N \subseteq Same
    BY <2>1, <2>2, Upwards
  <2>4. \A i \in 0..N : g[i] = f[i]
    BY <2>3 DEF Same
  <2> QED BY <1>1, <1>2, <2>4 DEF Sums
<1> DEFINE sum == CHOOSE g : Sums(g, N)
<1>3. sum = f
  <2> HIDE DEF f
  <2> QED BY <1>1, <1>2
<1>4. f[N] = b[N]
  OBVIOUS
<1> HIDE DEF f
<1> QED BY <1>3, <1>4, Zenon DEF Sums, sum, TotalOfLengths

(* Unless fibres migrate, each subpath is one cycle inside its chunk, of    *)
(* the length recorded, and the subpaths have every entry of the path.      *)
THEOREM SplitsIntoCycles == DSpec => [](SlicesAreChunks => SplitIntoCycles)
<1>1. SInv => (SlicesAreChunks => SplitIntoCycles)
  <2> SUFFICES ASSUME PathInv, WalkInv, SlicesAreChunks, pc = "done"
               PROVE  SplitIntoCycles
    BY DEF SInv, DInv, SplitIntoCycles
  <2>1. opt \in Commands /\ Divided /\ entries \in Nat /\ Current = NumSubpaths
        /\ \E p, b : Parted(p, b) /\ Found(p, b)
    BY DEF PathInv, WalkInv
  <2>2. PICK p, b : Parted(p, b) /\ Found(p, b)
    BY <2>1
  <2> DEFINE N == NumSubpaths
  <2>3. Segmented(p, b) /\ Segments(p, b, N) /\ b[N] = entries /\ N \in Nat
    BY <2>1, <2>2, Sizes DEF Parted, Segmented
  <2>4. ASSUME NEW s \in 0..(N - 1)
        PROVE  LET info == subpathInfo[s + 1]
                   trail == Trail(info.startIdx, info.length)
               IN  IsCycle(trail) /\ ToSet(trail) \subseteq Chunk(s)
    <3> DEFINE m == b[s + 1] - b[s]
               r == Part(p, b, s)
    <3>1. subpathInfo[s + 1] = [startIdx |-> ChunkStart(s), endIdx |-> p[b[s + 1]], length |-> m]
      BY <2>1, <2>2 DEF Found
    <3>2. InTurn(p, b, s) /\ mem[p[b[s + 1]]] = p[b[s] + 1]
      BY <2>2 DEF Parted, InTurn
    <3>3. p[b[s] + 1] = ChunkStart(s) /\ \A i \in (b[s] + 1)..b[s + 1] : p[i] \in Chunk(s)
      BY <2>3, Ends
    <3>4. IsPart(r, m, p, b, s)
      BY <2>1, <2>3, <3>2, PartOf
    <3> HIDE DEF m, r
    <3>5. /\ IsCycle(Trail(ChunkStart(s), m))
          /\ ToSet(Trail(ChunkStart(s), m)) = {p[i] : i \in (b[s] + 1)..b[s + 1]}
      BY <3>2, <3>3, <3>4, ClosedPart
    <3>6. subpathInfo[s + 1].startIdx = ChunkStart(s) /\ subpathInfo[s + 1].length = m
      BY <3>1
    <3>7. {p[i] : i \in (b[s] + 1)..b[s + 1]} \subseteq Chunk(s)
      BY <3>3
    <3> QED BY <3>5, <3>6, <3>7
  <2>5. b[0] = 0 /\ \A s \in 0..N : b[s] \in Nat
    BY <2>3 DEF Segments
  <2>6. \A s \in 0..(N - 1) : subpathInfo[s + 1].length = b[s + 1] - b[s]
    <3> SUFFICES ASSUME NEW s \in 0..(N - 1)
                 PROVE  subpathInfo[s + 1].length = b[s + 1] - b[s]
      OBVIOUS
    <3>1. subpathInfo[s + 1] = [startIdx |-> ChunkStart(s), endIdx |-> p[b[s + 1]],
                                length |-> b[s + 1] - b[s]]
      BY <2>1, <2>2 DEF Found
    <3> QED BY <3>1
  <2> HIDE DEF N
  <2>7. TotalOfLengths(N) = entries
    BY <2>3, <2>5, <2>6, SumIs
  <2> QED BY <2>4, <2>7, Zenon DEF SplitIntoCycles, TotalOfLengths, N
<1> QED BY <1>1, WalkInvariant, PTL

-----------------------------------------------------------------------------
(* What the experiments are handed over: entry <<s, k>> is the word of      *)
(* number k + 1 of segment s.                                               *)
Laid(p, b) ==
  /\ Segmented(p, b) /\ Found(p, b) /\ Current = NumSubpaths
  /\ \A s \in 0..(NumSubpaths - 1) : InTurn(p, b, s)
Size(b, s) == b[s + 1] - b[s]
At(b, s, k) == b[s] + (k + 1)

LEMMA LaidSegment ==
  ASSUME opt \in Commands, entries \in Nat, NEW p, NEW b, Laid(p, b),
         NEW s \in 0..(NumSubpaths - 1)
  PROVE  /\ Size(b, s) \in Nat \ {0} /\ b[s] \in Nat /\ b[s + 1] \in Nat
         /\ b[s] + Size(b, s) = b[s + 1]
         /\ p[b[s] + 1] = ChunkStart(s) /\ p \in [1..entries -> Addresses]
         /\ \A i, j \in 1..entries : p[i] = p[j] => i = j
         /\ \A i \in (b[s] + 1)..b[s + 1] : i \in 1..entries /\ p[i] \in Chunk(s)
         /\ subpathInfo[s + 1].startIdx = ChunkStart(s)
         /\ subpathInfo[s + 1].length = Size(b, s)
<1>1. NumSubpaths \in Nat
  BY Sizes
<1>2. Segments(p, b, NumSubpaths) /\ b[NumSubpaths] = entries
      /\ p \in [1..entries -> Addresses] /\ \A i, j \in 1..entries : p[i] = p[j] => i = j
  BY DEF Laid, Segmented
<1>3. /\ b[s] \in Nat /\ b[s + 1] \in Nat /\ b[s] < b[s + 1]
      /\ p[b[s] + 1] = ChunkStart(s)
      /\ \A i \in (b[s] + 1)..b[s + 1] : i \in 1..entries /\ p[i] \in Chunk(s)
  BY <1>1, <1>2, Ends
<1>4. subpathInfo[s + 1] =
        [startIdx |-> ChunkStart(s), endIdx |-> p[b[s + 1]], length |-> b[s + 1] - b[s]]
  BY DEF Laid, Found
<1>5. Size(b, s) \in Nat \ {0} /\ b[s] + Size(b, s) = b[s + 1]
  BY <1>3 DEF Size
<1> QED BY <1>2, <1>3, <1>4, <1>5 DEF Size

LEMMA EntriesAre ==
  ASSUME opt \in Commands, entries \in Nat, NEW p, NEW b, Laid(p, b)
  PROVE  /\ \A e : e \in Experiments!Entries <=>
                     \E s \in 0..(NumSubpaths - 1) : \E k \in 0..(Size(b, s) - 1) : e = <<s, k>>
         /\ \A s \in 0..(NumSubpaths - 1) : Experiments!EndIdx(s) = <<s, Size(b, s) - 1>>
<1>1. \A s \in 0..(NumSubpaths - 1) : subpathInfo[s + 1].length = Size(b, s)
  BY LaidSegment
<1>2. \A e : e \in Experiments!Entries <=>
               \E s \in 0..(NumSubpaths - 1) : \E k \in 0..(Size(b, s) - 1) : e = <<s, k>>
  BY <1>1 DEF Experiments!Entries, Experiments!Subpaths
<1>3. \A s \in 0..(NumSubpaths - 1) : Experiments!EndIdx(s) = <<s, Size(b, s) - 1>>
  BY <1>1 DEF Experiments!EndIdx
<1> QED BY <1>2, <1>3

LEMMA AtIs ==
  ASSUME opt \in Commands, entries \in Nat, NEW p, NEW b, Laid(p, b),
         NEW s \in 0..(NumSubpaths - 1), NEW k \in 0..(Size(b, s) - 1)
  PROVE  At(b, s, k) \in (b[s] + 1)..b[s + 1] /\ At(b, s, k) \in 1..entries
<1>1. /\ Size(b, s) \in Nat \ {0} /\ b[s] \in Nat /\ b[s + 1] \in Nat
      /\ b[s] + Size(b, s) = b[s + 1]
      /\ \A i \in (b[s] + 1)..b[s + 1] : i \in 1..entries
  BY LaidSegment
<1>2. At(b, s, k) \in (b[s] + 1)..b[s + 1]
  BY <1>1 DEF At
<1> QED BY <1>1, <1>2

LEMMA WordIs ==
  ASSUME opt \in Commands, entries \in Nat, NEW p, NEW b, Laid(p, b),
         NEW s \in 0..(NumSubpaths - 1), NEW k \in 0..(Size(b, s) - 1)
  PROVE  Word(<<s, k>>) = p[At(b, s, k)]
<1> DEFINE n == k + 1
           g == b[s]
           h == b[s + 1]
           r == [i \in 1..n |-> p[g + i]]
<1>1. /\ Size(b, s) \in Nat \ {0} /\ g \in Nat /\ h \in Nat /\ g + Size(b, s) = h
      /\ p[g + 1] = ChunkStart(s) /\ p \in [1..entries -> Addresses]
      /\ \A i \in (g + 1)..h : i \in 1..entries
      /\ subpathInfo[s + 1].startIdx = ChunkStart(s)
  BY LaidSegment
<1>2. n \in Nat \ {0} /\ n - 1 = k /\ n <= h - g
  BY <1>1
<1>3. \A i \in (g + 1)..(h - 1) : mem[p[i]] = p[i + 1]
  BY DEF Laid, InTurn
<1> HIDE DEF g, h, n
<1>4. \A i \in 1..n : g + i \in (g + 1)..h /\ r[i] = p[g + i]
  BY <1>1, <1>2
<1>5. r \in [1..n -> Addresses] /\ r[1] = ChunkStart(s) /\ r[n] = p[g + n]
  <2>1. \A i \in 1..n : p[g + i] \in Addresses
    BY <1>1, <1>4
  <2>2. 1 \in 1..n /\ n \in 1..n
    BY <1>2
  <2> QED BY <1>1, <2>1, <2>2
<1>6. ASSUME NEW i \in 1..(n - 1)
      PROVE  mem[r[i]] = r[i + 1]
  <2>1. i \in 1..n /\ i + 1 \in 1..n /\ g + i \in (g + 1)..(h - 1) /\ (g + i) + 1 = g + (i + 1)
    BY <1>1, <1>2
  <2>2. mem[p[g + i]] = p[g + (i + 1)]
    BY <1>3, <2>1
  <2>3. r[i] = p[g + i] /\ r[i + 1] = p[g + (i + 1)]
    BY <1>4, <2>1
  <2> QED BY <2>2, <2>3
<1> HIDE DEF r
<1>7. Trail(r[1], n - 1) = r
  BY <1>2, <1>5, <1>6, TrailOf
<1>8. Word(<<s, k>>) = Trail(ChunkStart(s), k)[k + 1]
  BY <1>1 DEF Word
<1>9. Word(<<s, k>>) = r[n]
  BY <1>2, <1>5, <1>7, <1>8 DEF n
<1> QED BY <1>5, <1>9 DEF At, g, n

LEMMA WordsDiffer ==
  ASSUME opt \in Commands, Divided, entries \in Nat, NEW p, NEW b, Laid(p, b),
         NEW s \in 0..(NumSubpaths - 1), NEW k \in 0..(Size(b, s) - 1),
         NEW u \in 0..(NumSubpaths - 1), NEW l \in 0..(Size(b, u) - 1),
         p[At(b, s, k)] = p[At(b, u, l)]
  PROVE  s = u /\ k = l
<1>1. /\ At(b, s, k) \in (b[s] + 1)..b[s + 1] /\ At(b, s, k) \in 1..entries
      /\ At(b, u, l) \in (b[u] + 1)..b[u + 1] /\ At(b, u, l) \in 1..entries
  BY AtIs
<1>2. Segments(p, b, NumSubpaths) /\ \A i, j \in 1..entries : p[i] = p[j] => i = j
  BY DEF Laid, Segmented
<1>3. s = u
  BY <1>1, <1>2, OneSegment
<1>4. At(b, s, k) = At(b, s, l)
  BY <1>1, <1>2, <1>3
<1>5. b[s] \in Nat /\ Size(b, s) \in Nat /\ Size(b, u) \in Nat
  BY LaidSegment
<1>6. k = l
  BY <1>4, <1>5 DEF At
<1> QED BY <1>3, <1>6

\* There are as many entries as distribute() counted.
LEMMA AllEntries ==
  ASSUME opt \in Commands, Divided, entries \in Nat, NEW p, NEW b, Laid(p, b)
  PROVE  Cardinality(Experiments!Entries) = entries
<1> DEFINE E == Experiments!Entries
           N == NumSubpaths
           f == [e \in E |-> At(b, e[1], e[2])]
<1>1. \A e : e \in E <=> \E s \in 0..(N - 1) : \E k \in 0..(Size(b, s) - 1) : e = <<s, k>>
  BY EntriesAre
<1> HIDE DEF E
<1>2. ASSUME NEW e \in E
      PROVE  f[e] \in 1..entries
  <2>1. PICK s \in 0..(N - 1) : \E k \in 0..(Size(b, s) - 1) : e = <<s, k>>
    BY <1>1
  <2>10. PICK k \in 0..(Size(b, s) - 1) : e = <<s, k>>
    BY <2>1
  <2>2. f[e] = At(b, s, k)
    BY <2>10
  <2> QED BY <2>2, AtIs
<1>3. ASSUME NEW d \in E, NEW e \in E, f[d] = f[e]
      PROVE  d = e
  <2>1. PICK s \in 0..(N - 1) : \E k \in 0..(Size(b, s) - 1) : d = <<s, k>>
    BY <1>1
  <2>10. PICK k \in 0..(Size(b, s) - 1) : d = <<s, k>>
    BY <2>1
  <2>2. PICK u \in 0..(N - 1) : \E l \in 0..(Size(b, u) - 1) : e = <<u, l>>
    BY <1>1
  <2>20. PICK l \in 0..(Size(b, u) - 1) : e = <<u, l>>
    BY <2>2
  <2>3. At(b, s, k) = At(b, u, l)
    BY <1>3, <2>10, <2>20
  <2>4. s = u /\ k = l
    BY <2>3, WordsDiffer
  <2> QED BY <2>10, <2>20, <2>4
<1>4. ASSUME NEW i \in 1..entries
      PROVE  \E e \in E : f[e] = i
  <2>1. Segments(p, b, N) /\ b[N] = entries
    BY DEF Laid, Segmented
  <2>2. PICK s \in 0..(N - 1) : i \in (b[s] + 1)..b[s + 1]
    BY <2>1 DEF Segments
  <2>3. b[s] \in Nat /\ b[s + 1] \in Nat /\ b[s] + Size(b, s) = b[s + 1] /\ Size(b, s) \in Nat
    BY LaidSegment
  <2> DEFINE k == i - (b[s] + 1)
  <2>4. k \in 0..(Size(b, s) - 1) /\ At(b, s, k) = i
    BY <2>2, <2>3 DEF At
  <2> HIDE DEF k
  <2>5. <<s, k>> \in E
    BY <1>1, <2>4
  <2>6. f[<<s, k>>] = i
    BY <2>4, <2>5
  <2> QED BY <2>5, <2>6
<1>5. f = [e \in E |-> f[e]]
  OBVIOUS
<1> HIDE DEF f
<1>6. f \in [E -> 1..entries]
  BY <1>2, <1>5
<1>7. f \in Injection(E, 1..entries)
  BY <1>3, <1>6 DEF Injection, IsInjective
<1>8. f \in Surjection(E, 1..entries)
  BY <1>4, <1>6 DEF Surjection
<1>9. IsFiniteSet(1..entries) /\ Cardinality(1..entries) = entries
  BY FS_Interval
<1>10. Cardinality(E) = Cardinality(1..entries)
  BY <1>7, <1>8, <1>9, FS_Injection
<1> QED BY <1>9, <1>10 DEF E

\* The links within the segments and behind them make a path of ChasingPath.
LinkedAs(path, next, p, b) ==
  \A s \in 0..(NumSubpaths - 1) :
    /\ next[s] \in 0..(NumSubpaths - 1) /\ mem[p[b[s + 1]]] = ChunkStart(next[s])
    /\ \A k \in 0..(Size(b, s) - 1) :
         path[<<s, k>>] = IF k = Size(b, s) - 1 THEN <<next[s], 0>> ELSE <<s, k + 1>>

LEMMA HoldsPath ==
  ASSUME opt \in Commands, Divided, entries \in Nat, NEW p, NEW b, Laid(p, b),
         NEW path, NEW next, LinkedAs(path, next, p, b)
  PROVE  Holds(path)
<1> DEFINE N == NumSubpaths
           E == Experiments!Entries
<1>1. \A e : e \in E <=> \E s \in 0..(N - 1) : \E k \in 0..(Size(b, s) - 1) : e = <<s, k>>
  BY EntriesAre
<1>2. ASSUME NEW s \in 0..(N - 1)
      PROVE  0 \in 0..(Size(b, s) - 1) /\ Word(<<s, 0>>) = ChunkStart(s)
  <2>1. Size(b, s) \in Nat \ {0} /\ b[s] \in Nat /\ p[b[s] + 1] = ChunkStart(s)
    BY LaidSegment
  <2>2. 0 \in 0..(Size(b, s) - 1) /\ At(b, s, 0) = b[s] + 1
    BY <2>1 DEF At
  <2> QED BY <2>1, <2>2, WordIs
<1>3. \A s \in 0..(N - 1) : Experiments!StartIdx(s) \in E
                            /\ Word(Experiments!StartIdx(s)) = ChunkStart(s)
  BY <1>1, <1>2 DEF Experiments!StartIdx
<1> HIDE DEF E
<1>4. ASSUME NEW e \in E
      PROVE  Word(e) \in Chunk(e[1]) /\ mem[Word(e)] = Word(path[e])
  <2>1. PICK s \in 0..(N - 1) : \E k \in 0..(Size(b, s) - 1) : e = <<s, k>>
    BY <1>1
  <2>10. PICK k \in 0..(Size(b, s) - 1) : e = <<s, k>>
    BY <2>1
  <2>2. Word(e) = p[At(b, s, k)] /\ At(b, s, k) \in (b[s] + 1)..b[s + 1]
    BY <2>10, WordIs, AtIs
  <2>3. /\ Size(b, s) \in Nat \ {0} /\ b[s] \in Nat /\ b[s + 1] \in Nat
        /\ b[s] + Size(b, s) = b[s + 1]
        /\ \A i \in (b[s] + 1)..b[s + 1] : p[i] \in Chunk(s)
    BY LaidSegment
  <2>4. Word(e) \in Chunk(e[1])
    BY <2>10, <2>2, <2>3
  <2>5. CASE k = Size(b, s) - 1
    <3>1. At(b, s, k) = b[s + 1]
      BY <2>3, <2>5 DEF At
    <3>2. path[e] = <<next[s], 0>> /\ next[s] \in 0..(N - 1)
          /\ mem[p[b[s + 1]]] = ChunkStart(next[s])
      BY <2>10, <2>5 DEF LinkedAs
    <3>3. Word(path[e]) = ChunkStart(next[s])
      BY <1>2, <3>2
    <3> QED BY <2>2, <2>4, <3>1, <3>2, <3>3
  <2>6. CASE k # Size(b, s) - 1
    <3>1. /\ k + 1 \in 0..(Size(b, s) - 1) /\ At(b, s, k) \in (b[s] + 1)..(b[s + 1] - 1)
          /\ At(b, s, k) + 1 = At(b, s, k + 1)
      BY <2>3, <2>6 DEF At
    <3>2. mem[p[At(b, s, k)]] = p[At(b, s, k) + 1]
      BY <3>1 DEF Laid, InTurn
    <3>3. path[e] = <<s, k + 1>>
      BY <2>10, <2>6 DEF LinkedAs
    <3>4. Word(<<s, k + 1>>) = p[At(b, s, k + 1)]
      BY <3>1, WordIs
    <3> QED BY <2>2, <2>4, <3>1, <3>2, <3>3, <3>4
  <2> QED BY <2>5, <2>6
<1>5. ASSUME NEW d \in E, NEW e \in E, Word(d) = Word(e)
      PROVE  d = e
  <2>1. PICK s \in 0..(N - 1) : \E k \in 0..(Size(b, s) - 1) : d = <<s, k>>
    BY <1>1
  <2>10. PICK k \in 0..(Size(b, s) - 1) : d = <<s, k>>
    BY <2>1
  <2>2. PICK u \in 0..(N - 1) : \E l \in 0..(Size(b, u) - 1) : e = <<u, l>>
    BY <1>1
  <2>20. PICK l \in 0..(Size(b, u) - 1) : e = <<u, l>>
    BY <2>2
  <2>3. p[At(b, s, k)] = p[At(b, u, l)]
    BY <1>5, <2>10, <2>20, WordIs
  <2>4. s = u /\ k = l
    BY <2>3, WordsDiffer
  <2> QED BY <2>10, <2>20, <2>4
<1>6. Cardinality(E) = entries
  BY AllEntries DEF E
<1> QED BY <1>3, <1>4, <1>5, <1>6 DEF Holds, E

\* The linked path is the one that was walked.
LEMMA LinkedHolds ==
  ASSUME PathInv, WalkInv, pc = "split"
  PROVE  Holds(Experiments!LinkedPath)
<1> DEFINE N == NumSubpaths
           path == Experiments!LinkedPath
           next == [s \in 0..(N - 1) |-> (s + 1) % N]
<1>1. opt \in Commands /\ Divided /\ entries \in Nat /\ \E p, b : Whole(p, b)
  BY DEF PathInv
<1>2. PICK p, b : Whole(p, b)
  BY <1>1
<1>3. Found(p, b) /\ Current = N
  BY <1>2 DEF WalkInv
<1>4. N \in Nat \ {0}
  BY <1>1, Sizes
<1>5. Segmented(p, b) /\ \A i \in 1..(entries - 1) : mem[p[i]] = p[i + 1]
  BY <1>2 DEF Whole, Linked, Segmented
<1>6. ASSUME NEW s \in 0..(N - 1)
      PROVE  InTurn(p, b, s)
  <2>1. /\ b[s] \in Nat /\ b[s + 1] \in Nat /\ b[s] < b[s + 1] /\ b[s + 1] <= entries
    BY <1>4, <1>5, Ends DEF Segmented
  <2>2. \A i \in (b[s] + 1)..(b[s + 1] - 1) : i \in 1..(entries - 1)
    BY <1>1, <2>1
  <2> QED BY <1>5, <2>2 DEF InTurn
<1>7. Laid(p, b)
  BY <1>3, <1>5, <1>6 DEF Laid
<1>8. ASSUME NEW s \in 0..(N - 1)
      PROVE  next[s] \in 0..(N - 1) /\ mem[p[b[s + 1]]] = ChunkStart(next[s])
  <2>1. mem[p[b[s + 1]]] = NextStart(s)
    BY <1>1, <1>2, AtEnds
  <2>2. next[s] = (s + 1) % N
    OBVIOUS
  <2>3. (s + 1) % N \in 0..(N - 1)
    <3> HIDE DEF N
    <3> QED BY <1>4
  <2> QED BY <2>1, <2>2, <2>3 DEF NextStart
<1>9. ASSUME NEW s \in 0..(N - 1), NEW k \in 0..(Size(b, s) - 1)
      PROVE  path[<<s, k>>] = IF k = Size(b, s) - 1 THEN <<next[s], 0>> ELSE <<s, k + 1>>
  <2>1. <<s, k>> \in Experiments!Entries /\ Experiments!EndIdx(s) = <<s, Size(b, s) - 1>>
    BY <1>1, <1>7, EntriesAre
  <2>2. path[<<s, k>>] = IF <<s, k>> = Experiments!EndIdx(s)
                         THEN <<(s + 1) % N, 0>> ELSE <<s, k + 1>>
    BY <2>1 DEF Experiments!LinkedPath, Experiments!StartIdx
  <2>3. <<s, k>> = Experiments!EndIdx(s) <=> k = Size(b, s) - 1
    BY <2>1
  <2>4. next[s] = (s + 1) % N
    OBVIOUS
  <2> QED BY <2>2, <2>3, <2>4
<1> HIDE DEF path, next
<1>10. LinkedAs(path, next, p, b)
  BY <1>8, <1>9 DEF LinkedAs
<1>11. Holds(path)
  BY <1>1, <1>7, <1>10, HoldsPath
<1> QED BY <1>11 DEF path

\* What the split leaves is its abstraction's split of that path.
LEMMA SplitHolds ==
  ASSUME PathInv, WalkInv, pc = "done"
  PROVE  Holds(Experiments!SplitPath(Experiments!LinkedPath))
<1> DEFINE N == NumSubpaths
           path == Experiments!SplitPath(Experiments!LinkedPath)
           next == [s \in 0..(N - 1) |-> s]
<1>1. opt \in Commands /\ Divided /\ entries \in Nat /\ Current = N
      /\ \E p, b : Parted(p, b) /\ Found(p, b)
  BY DEF PathInv, WalkInv
<1>2. PICK p, b : Parted(p, b) /\ Found(p, b)
  BY <1>1
<1>3. Laid(p, b)
  BY <1>1, <1>2 DEF Laid, Parted, InTurn
<1>4. ASSUME NEW s \in 0..(N - 1)
      PROVE  next[s] \in 0..(N - 1) /\ mem[p[b[s + 1]]] = ChunkStart(next[s])
  <2>1. p[b[s] + 1] = ChunkStart(s)
    BY <1>1, <1>3, LaidSegment
  <2> QED BY <1>2, <2>1 DEF Parted
<1>5. ASSUME NEW s \in 0..(N - 1), NEW k \in 0..(Size(b, s) - 1)
      PROVE  path[<<s, k>>] = IF k = Size(b, s) - 1 THEN <<next[s], 0>> ELSE <<s, k + 1>>
  <2>1. <<s, k>> \in Experiments!Entries /\ Experiments!EndIdx(s) = <<s, Size(b, s) - 1>>
    BY <1>1, <1>3, EntriesAre
  <2>2. path[<<s, k>>] = IF <<s, k>> = Experiments!EndIdx(s)
                         THEN <<s, 0>> ELSE Experiments!LinkedPath[<<s, k>>]
    BY <2>1 DEF Experiments!SplitPath, Experiments!StartIdx
  <2>3. Experiments!LinkedPath[<<s, k>>] = IF <<s, k>> = Experiments!EndIdx(s)
                         THEN Experiments!StartIdx((s + 1) % N) ELSE <<s, k + 1>>
    BY <2>1 DEF Experiments!LinkedPath
  <2>4. <<s, k>> = Experiments!EndIdx(s) <=> k = Size(b, s) - 1
    BY <2>1
  <2>5. next[s] = s
    OBVIOUS
  <2> QED BY <2>2, <2>3, <2>4, <2>5
<1> HIDE DEF path, next
<1>6. LinkedAs(path, next, p, b)
  BY <1>4, <1>5 DEF LinkedAs
<1>7. Holds(path)
  BY <1>1, <1>3, <1>6, HoldsPath
<1> QED BY <1>7 DEF path

(* The words of the buffer implement the paths of ChasingPath, the linked   *)
(* one when the walk has ended and the split one after it: the experiments  *)
(* begin with what the distribution leaves.                                 *)
THEOREM HandsOverPath == DSpec => [](SlicesAreChunks => HandsOver)
<1>1. SInv => (SlicesAreChunks => HandsOver)
  BY LinkedHolds, SplitHolds DEF SInv, DInv, HandsOver
<1> QED BY <1>1, WalkInvariant, PTL

-----------------------------------------------------------------------------
(* The older distributions: a path p of n entries from the start of the     *)
(* buffer on, closed by the word of the last entry when it is finished.     *)
(* The index 0 in a word is no link: only the first entry may have it. No   *)
(* word but those of the path is written.                                   *)
IsBuffer(w) == w = [a \in Addresses |-> w[a]]
Written(w, a, e) == w = [mem EXCEPT ![a] = e]
Strung(w, p, n) ==
  /\ n \in Nat \ {0} /\ p \in [1..n -> Addresses] /\ p[1] = BufferOffset
  /\ \A i, j \in 1..n : p[i] = p[j] => i = j
  /\ \A i \in 1..(n - 1) : w[p[i]] = p[i + 1]
Covers(w, p, n) == \A a \in Addresses : w[a] # Fresh => \E i \in 1..n : p[i] = a
Open(w, p, n) == Strung(w, p, n) /\ (\A i \in 2..n : p[i] # Fresh) /\ Covers(w, p, n)
Closed(w, p, n) == Strung(w, p, n) /\ w[p[n]] = BufferOffset

\* UNIFORM counts the entries, WUNI every draw.
Counted(n) == IF Type = "WUNI" THEN n <= entries + 1 ELSE n = entries

\* A slab that held the word of index 0 could give it to the path, and take
\* the link to it for a free word afterwards.
NoSlabAtZero ==
  Type = "UNIFORM" => BufferOffset = 0 \/ \A i \in DOMAIN Slabs : Slabs[i] # 0

LEMMA SlabsStay == opt' = opt => NoSlabAtZero' = NoSlabAtZero
BY Zenon DEF NoSlabAtZero, Type, BufferOffset, Slabs

LegacyInv ==
  /\ pc = "legacy" => mem = [a \in Addresses |-> Fresh]
  /\ pc \in {"round", "search"} =>
       /\ Type \in {"UNIFORM", "WUNI"} /\ (Type = "WUNI" => Slabs = <<>>)
       /\ IsBuffer(mem)
       /\ \E p, n : Open(mem, p, n) /\ previdx = p[n] /\ Counted(n)
  /\ pc = "search" => Type = "WUNI" /\ search.mid \in 0..(NumDatalines - 1)
                      /\ search.min \in Nat /\ search.max \in 0..NumDatalines
  /\ pc = "distributed" /\ Type \in {"LINEAR", "UNIFORM", "WUNI"} =>
       \E p, n : /\ Closed(mem, p, n) /\ Counted(n)
                 /\ Type # "LINEAR" => Open(mem, p, n) /\ previdx = p[n]

\* A closed path is a cycle.
LEMMA ClosedIsCycle ==
  ASSUME NEW p, NEW n, Closed(mem, p, n)
  PROVE  /\ IsCycle(Trail(BufferOffset, n))
         /\ ToSet(Trail(BufferOffset, n)) = {p[i] : i \in 1..n}
<1> DEFINE t == [i \in 1..(n + 1) |-> IF i = n + 1 THEN mem[p[n]] ELSE p[i]]
<1>1. /\ n \in Nat \ {0} /\ p \in [1..n -> Addresses] /\ p[1] = BufferOffset
      /\ \A i, j \in 1..n : p[i] = p[j] => i = j
      /\ \A i \in 1..(n - 1) : mem[p[i]] = p[i + 1]
      /\ mem[p[n]] = BufferOffset
  BY DEF Closed, Strung
<1>2. Trail(p[1], n) = t
  <2>1. /\ n \in Nat \ {0} /\ p \in [1..n -> Addresses]
        /\ \A i \in 1..(n - 1) : mem[p[i]] = p[i + 1]
    BY <1>1
  <2> QED BY <2>1, TrailOf
<1>3. /\ \A i \in 1..n : t[i] = p[i]
      /\ t[n + 1] = t[1] /\ t = [i \in 1..(n + 1) |-> t[i]]
  BY <1>1
<1> HIDE DEF t
<1>4. \A i, j \in 1..n : t[i] = t[j] => i = j
  BY <1>1, <1>3
<1>5. Returns(t, n)
  BY <1>3, <1>4 DEF Returns
<1>6. IsCycle(t) /\ ToSet(t) = {t[i] : i \in 1..n}
  BY <1>1, <1>5, CycleIs
<1>7. {t[i] : i \in 1..n} = {p[i] : i \in 1..n}
  BY <1>3
<1> QED BY <1>1, <1>2, <1>6, <1>7, Zenon

(* The words of the line that a round looks at lie in the mapped buffer,    *)
(* and none of them but the first word of the path is the one of index 0.   *)
LEMMA LegacyLine ==
  ASSUME NoSlabAtZero, opt \in Commands, Type \in {"UNIFORM", "WUNI"},
         NEW l \in 0..(NumDatalines - 1), InSlabs => l \div opt.pageLines < Len(Slabs),
         Type = "WUNI" => Slabs = <<>>
  PROVE  /\ LineAt(l) \in Nat
         /\ LineAt(l)..(LineAt(l) + Cacheline - 2) \subseteq Addresses
         /\ BufferOffset = 0 \/ LineAt(l) > 0
<1> DEFINE c == Cacheline
           D == NumDatalines
           o == BufferOffset
           B == BufferSize
           P == opt.pool
           k == opt.pageLines
           a == LineAt(l)
<1>1. /\ c \in Nat \ {0, 1} /\ o \in Nat /\ B \in Nat /\ P \in Nat \ {0} /\ D \in Nat \ {0}
      /\ D * c <= B /\ Addresses = 0..(o + B + P - 1)
  BY Sizes
<1>2. /\ k \in Nat \ {0} /\ Slabs \in Seq(Nat)
      /\ \A i \in DOMAIN Slabs : Slabs[i] + k * c <= o + B + P
  BY TypeAssumption DEF Slabs, Cacheline, BufferOffset, BufferSize, Dataset, BufferFactor
<1>3. l \in Nat /\ l <= D - 1
  BY <1>1
<1>4. a \in Nat /\ a + c <= o + B + P /\ (o = 0 \/ a > 0)
  <2>1. CASE InSlabs
    <3> DEFINE i == l \div k + 1
               r == l % k
    <3>1. i \in DOMAIN Slabs /\ r \in 0..(k - 1)
      <4>1. l \div k \in Nat /\ r \in 0..(k - 1)
        BY <1>2, <1>3, Quotient
      <4>2. l \div k < Len(Slabs) /\ Len(Slabs) \in Nat /\ DOMAIN Slabs = 1..Len(Slabs)
        BY <1>2, <2>1
      <4> QED BY <4>1, <4>2
    <3>2. a = Slabs[i] + r * c /\ Type = "UNIFORM"
      BY <2>1 DEF LineAt, InSlabs
    <3>3. Slabs[i] \in Nat /\ Slabs[i] + k * c <= o + B + P
      BY <1>2, <3>1
    <3>4. o = 0 \/ Slabs[i] # 0
      BY <3>1, <3>2 DEF NoSlabAtZero, Type, Slabs, BufferOffset
    <3> DEFINE z == Slabs[i]
    <3>6. a = z + r * c /\ z \in Nat /\ z + k * c <= o + B + P /\ (o = 0 \/ z # 0)
      BY <3>2, <3>3, <3>4
    <3> HIDE DEF i, r, k, c, o, B, P, a, z
    <3>5. r * c \in Nat /\ k * c \in Nat /\ r * c + c <= k * c
      <4>1. (r + 1) * c <= k * c /\ (r + 1) * c = r * c + c
        BY <1>1, <1>2, <3>1, SMTT(30)
      <4> QED BY <1>1, <1>2, <3>1, <4>1
    <3>7. c \in Nat /\ o \in Nat /\ B \in Nat /\ P \in Nat
      BY <1>1
    <3> DEFINE u == r * c
               v == k * c
    <3>8. u \in Nat /\ v \in Nat /\ u + c <= v /\ a = z + u /\ z + v <= o + B + P
      BY <3>5, <3>6
    <3> HIDE DEF u, v
    <3> QED BY <3>6, <3>7, <3>8
  <2>2. CASE ~InSlabs
    <3>1. a = o + l * c
      BY <2>2 DEF LineAt
    <3> HIDE DEF c, o, B, P, a, D
    <3>2. l * c \in Nat /\ l * c + c <= B
      <4>1. (l + 1) * c <= D * c /\ (l + 1) * c = l * c + c
        BY <1>1, <1>3, SMTT(30)
      <4> QED BY <1>1, <1>3, <4>1
    <3> QED BY <1>1, <3>1, <3>2
  <2> QED BY <2>1, <2>2
<1> HIDE DEF c, o, B, P, a
<1>5. a..(a + c - 2) \subseteq 0..(o + B + P - 1)
  BY <1>1, <1>4
<1> QED BY <1>1, <1>4, <1>5 DEF a, c, o

-----------------------------------------------------------------------------
(* One more entry, taken from the free words, or the word of the last one   *)
(* once more, which WUNI may draw.                                          *)
LEMMA OpenGrows ==
  ASSUME IsBuffer(mem), NEW p, NEW n, Open(mem, p, n),
         NEW e \in Addresses, mem[e] = Fresh, e # p[n], e # Fresh \/ e = p[1],
         NEW w, Written(w, p[n], e)
  PROVE  (\E q : Open(w, q, n + 1) /\ q[n + 1] = e) /\ IsBuffer(w)
<1> DEFINE m == n + 1
           q == [i \in 1..m |-> IF i = m THEN e ELSE p[i]]
<1>1. /\ n \in Nat \ {0} /\ p \in [1..n -> Addresses] /\ p[1] = BufferOffset
      /\ \A i, j \in 1..n : p[i] = p[j] => i = j
      /\ \A i \in 1..(n - 1) : mem[p[i]] = p[i + 1]
      /\ \A i \in 2..n : p[i] # Fresh
  BY DEF Open, Strung
<1>2. ASSUME NEW i \in 1..n
      PROVE  p[i] # e
  <2>1. CASE i = n
    BY <2>1
  <2>2. CASE i # n
    <3>1. i \in 1..(n - 1) /\ i + 1 \in 2..n
      BY <1>1, <2>2
    <3>2. mem[p[i]] = p[i + 1] /\ p[i + 1] # Fresh
      BY <1>1, <3>1
    <3> QED BY <3>2
  <2> QED BY <2>1, <2>2
<1>3. e # Fresh
  <2>1. 1 \in 1..n
    BY <1>1
  <2> QED BY <1>2, <2>1
<1>4. m \in Nat \ {0} /\ \A i \in 1..m : i = m \/ i \in 1..n
  BY <1>1
<1>5. q[m] = e /\ \A i \in 1..n : q[i] = p[i]
  BY <1>1
<1>6. q \in [1..m -> Addresses]
  BY <1>1, <1>4
<1>7. IsBuffer(w) /\ w[p[n]] = e
      /\ \A a \in Addresses : a # p[n] => w[a] = mem[a]
  BY <1>1 DEF IsBuffer, Written
<1> HIDE DEF q
<1>8. \A i, j \in 1..m : q[i] = q[j] => i = j
  BY <1>1, <1>2, <1>4, <1>5
<1>9. ASSUME NEW i \in 1..(m - 1)
      PROVE  w[q[i]] = q[i + 1]
  <2>1. CASE i = n
    BY <1>5, <1>7, <2>1
  <2>2. CASE i # n
    <3>1. i \in 1..(n - 1) /\ i \in 1..n /\ i + 1 \in 1..n /\ n \in 1..n
      BY <1>1, <2>2
    <3>2. p[i] # p[n] /\ p[i] \in Addresses
      BY <1>1, <2>2, <3>1
    <3>3. w[p[i]] = mem[p[i]]
      BY <1>7, <3>2
    <3> QED BY <1>1, <1>5, <3>1, <3>3
  <2> QED BY <2>1, <2>2
<1>10. \A i \in 2..m : q[i] # Fresh
  <2>1. \A i \in 2..m : i = m \/ i \in 2..n
    BY <1>1
  <2>2. \A i \in 2..n : i \in 1..n
    OBVIOUS
  <2> QED BY <1>1, <1>3, <1>5, <2>1, <2>2
<1>11. q[1] = BufferOffset
  <2>1. 1 \in 1..n
    BY <1>1
  <2> QED BY <1>1, <1>5, <2>1
<1>13. Covers(w, q, m)
  <2> SUFFICES ASSUME NEW a \in Addresses, w[a] # Fresh
               PROVE  \E i \in 1..m : q[i] = a
    BY DEF Covers
  <2>1. n \in 1..n /\ \A i \in 1..n : i \in 1..m
    BY <1>1
  <2>2. a = p[n] \/ \E i \in 1..n : p[i] = a
    BY <1>7 DEF Open, Covers
  <2> QED BY <1>5, <2>1, <2>2
<1> HIDE DEF m
<1>12. Open(w, q, m)
  BY <1>4, <1>6, <1>8, <1>9, <1>10, <1>11, <1>13 DEF Open, Strung
<1> QED BY <1>5, <1>7, <1>12 DEF m

(* Only the word of the last entry is written: the path stays.              *)
LEMMA LastWritten ==
  ASSUME IsBuffer(mem), NEW p, NEW n, Open(mem, p, n), NEW e
  PROVE  LET w == [mem EXCEPT ![p[n]] = e]
         IN  /\ Open(w, p, n) /\ IsBuffer(w)
             /\ e = BufferOffset => Closed(w, p, n)
<1> DEFINE w == [mem EXCEPT ![p[n]] = e]
<1>1. /\ n \in Nat \ {0} /\ p \in [1..n -> Addresses] /\ p[1] = BufferOffset
      /\ \A i, j \in 1..n : p[i] = p[j] => i = j
      /\ \A i \in 1..(n - 1) : mem[p[i]] = p[i + 1]
      /\ \A i \in 2..n : p[i] # Fresh
  BY DEF Open, Strung
<1>2. IsBuffer(w) /\ w[p[n]] = e
      /\ \A a \in Addresses : a # p[n] => w[a] = mem[a]
  BY <1>1 DEF IsBuffer
<1> HIDE DEF w
<1>3. ASSUME NEW i \in 1..(n - 1)
      PROVE  w[p[i]] = p[i + 1]
  <2>1. i \in 1..n /\ n \in 1..n /\ i # n
    BY <1>1
  <2>2. p[i] # p[n] /\ p[i] \in Addresses
    BY <1>1, <2>1
  <2> QED BY <1>1, <1>2, <2>2
<1>4. Strung(w, p, n)
  BY <1>1, <1>3 DEF Strung
<1>5. Covers(w, p, n)
  <2>1. n \in 1..n
    BY <1>1
  <2> QED BY <1>2, <2>1 DEF Open, Covers
<1> QED BY <1>1, <1>2, <1>4, <1>5 DEF Open, Closed, w

-----------------------------------------------------------------------------
(* What a step is to the older distributions.                               *)
LEMMA StepOfLegacy ==
  ASSUME [DNext]_allVars
  PROVE  /\ opt' = opt
         /\ \/ Linear \/ BeginUniform \/ BeginWeighted \/ UniformRound \/ RoundsOver
            \/ WeightedRound \/ Halve \/ WeightedDraw
            \/ UNCHANGED <<pc, mem, entries, previdx, search>>
            \/ pc' \notin {"legacy", "round", "search", "distributed"}
            \/ Type = "ZIPF" /\ pc' = "distributed"
<1>1. opt' = opt
  BY DEF DNext, Terminated, allVars, vars
<1>2. CASE ZipfLegacy
  BY <1>1, <1>2 DEF ZipfLegacy
<1>3. CASE Subpath /\ UNCHANGED search
  <2>1. CASE SeedChunk
    BY <1>1, <2>1 DEF SeedChunk, ZipfChunk
  <2>2. CASE CallZipf \/ InZipf
    BY <1>1, <1>3, <2>2 DEF CallZipf, InZipf, pathVars
  <2>3. CASE ZipfReturned
    BY <1>1, <2>3 DEF ZipfReturned, ZipfDraw, ZipfFull, LinkChunk, AfterChunk
  <2>4. CASE Check \/ UniformChunk \/ ZipfEnough
    BY <1>1, <2>4 DEF Check, UniformChunk, ZipfEnough, LinkChunk, AfterChunk
  <2>5. CASE Walk \/ FindEnd \/ Split
    BY <1>1, <1>3, <2>5 DEF Walk, FindEnd, Split, pathVars
  <2> QED BY <1>1, <1>3, <2>1, <2>2, <2>3, <2>4, <2>5, Zenon DEF Subpath
<1>4. CASE UNCHANGED allVars
  BY <1>1, <1>4 DEF allVars, vars, pathVars
<1> QED BY <1>1, <1>2, <1>3, <1>4, Zenon DEF DNext, Terminated

(* A path, and a closed one, are what they were: the buffer did not move.   *)
LEMMA OpenNext ==
  ASSUME opt' = opt, NEW p, NEW n
  PROVE  /\ Open(mem', p, n) => Open(mem, p, n)'
         /\ Closed(mem', p, n) => Closed(mem, p, n)'
         /\ Type' = Type /\ Slabs' = Slabs
BY SameOpt DEF Open, Closed, Strung, Covers, Type, Slabs

LEMMA LegacyStays ==
  ASSUME LegacyInv, opt' = opt, UNCHANGED <<pc, mem, entries, previdx, search>>
  PROVE  LegacyInv'
<1>1. \A p, n : Open(mem, p, n) => Open(mem, p, n)'
  BY OpenNext
<1>2. \A p, n : Closed(mem, p, n) => Closed(mem, p, n)'
  BY OpenNext
<1>3. \A n : Counted(n) => Counted(n)'
  BY OpenNext DEF Counted
<1>4. /\ pc' = "legacy" => mem' = [a \in Addresses' |-> Fresh]
      /\ pc' = "search" => Type' = "WUNI" /\ search'.mid \in 0..(NumDatalines' - 1)
                           /\ search'.min \in Nat /\ search'.max \in 0..NumDatalines'
      /\ pc' \in {"round", "search"} =>
           /\ Type' \in {"UNIFORM", "WUNI"} /\ (Type' = "WUNI" => Slabs' = <<>>)
           /\ IsBuffer(mem)'
  BY SameOpt, OpenNext DEF LegacyInv, IsBuffer
<1>5. ASSUME pc' \in {"round", "search"}
      PROVE  \E p, n : Open(mem, p, n)' /\ previdx' = p[n] /\ Counted(n)'
  BY <1>1, <1>3, <1>5 DEF LegacyInv
<1>6. ASSUME pc' = "distributed", Type' \in {"LINEAR", "UNIFORM", "WUNI"}
      PROVE  \E p, n : /\ Closed(mem, p, n)' /\ Counted(n)'
                       /\ Type' # "LINEAR" => Open(mem, p, n)' /\ previdx' = p[n]
  <2>1. Type' = Type
    BY OpenNext
  <2>2. PICK p, n : /\ Closed(mem, p, n) /\ Counted(n)
                    /\ Type # "LINEAR" => Open(mem, p, n) /\ previdx = p[n]
    BY <1>6, <2>1 DEF LegacyInv
  <2> QED BY <1>1, <1>2, <1>3, <2>1, <2>2
<1> QED BY <1>4, <1>5, <1>6 DEF LegacyInv, IsBuffer

(* One round: the line is full, or gives its first free word.               *)
LEMMA LinkLineKeeps ==
  ASSUME NoSlabAtZero, opt \in Commands, entries \in Nat, LegacyInv, opt' = opt,
         pc \in {"round", "search"}, NEW l \in 0..(NumDatalines - 1),
         InSlabs => l \div opt.pageLines < Len(Slabs), LinkLine(l)
  PROVE  LegacyInv'
<1> DEFINE line == LineAt(l)
           free == FreeLegacy(line)
           e == CHOOSE a \in free : \A b \in free : a <= b
<1>1. /\ Type \in {"UNIFORM", "WUNI"} /\ (Type = "WUNI" => Slabs = <<>>)
      /\ IsBuffer(mem)
      /\ \E p, n : Open(mem, p, n) /\ previdx = p[n] /\ Counted(n)
  BY DEF LegacyInv
<1>2. PICK p, n : Open(mem, p, n) /\ previdx = p[n] /\ Counted(n)
  BY <1>1
<1>3. n \in Nat \ {0} /\ p[1] = BufferOffset
  BY <1>2 DEF Open, Strung
<1>4. CASE free = {}
  <2>1. /\ mem' = [mem EXCEPT ![previdx] = BufferOffset] /\ pc' = "distributed"
        /\ entries' = entries /\ previdx' = previdx
    BY <1>4 DEF LinkLine, Close
  <2>2. Closed(mem', p, n) /\ Open(mem', p, n)
    BY <1>1, <1>2, <2>1, LastWritten
  <2>3. Closed(mem, p, n)' /\ Open(mem, p, n)' /\ Counted(n)' /\ previdx' = p[n]
    BY <1>2, <2>1, <2>2, OpenNext DEF Counted
  <2> QED BY <2>1, <2>3 DEF LegacyInv
<1>5. CASE free # {}
  <2>1. /\ mem' = [mem EXCEPT ![previdx] = e] /\ pc' = "round"
        /\ entries' = entries + 1 /\ previdx' = e
    BY <1>5 DEF LinkLine
  <2>2. /\ e \in Addresses /\ mem[e] = Fresh /\ (Type = "UNIFORM" => e # previdx)
        /\ e # Fresh \/ e = p[1]
    <3>1. /\ line \in Nat /\ line..(line + Cacheline - 2) \subseteq Addresses
          /\ BufferOffset = 0 \/ line > 0
      BY <1>1, LegacyLine
    <3>2. Addresses \subseteq Nat /\ Cacheline \in Nat
      BY Sizes
    <3> HIDE DEF line
    <3>3. free \in SUBSET Nat /\ \A a \in free : /\ a \in Addresses /\ a >= line /\ mem[a] = Fresh
                                                 /\ Type = "UNIFORM" => a # previdx
      BY <3>1, <3>2 DEF FreeLegacy
    <3> HIDE DEF free
    <3>4. e \in free
      BY <1>5, <3>3, FirstFree
    <3> HIDE DEF e
    <3> QED BY <1>3, <3>1, <3>3, <3>4 DEF Fresh
  <2> HIDE DEF e
  <2>3. \E q, k : Open(mem', q, k) /\ e = q[k] /\ (k # n + 1 => Type = "WUNI" /\ k = n)
                  /\ IsBuffer(mem')
    <3>1. CASE e = previdx
      BY <1>1, <1>2, <2>1, <2>2, <3>1, LastWritten
    <3>2. CASE e # previdx
      <4>1. e # p[n] /\ Written(mem', p[n], e)
        BY <1>2, <2>1, <3>2 DEF Written
      <4>2. (\E q : Open(mem', q, n + 1) /\ q[n + 1] = e) /\ IsBuffer(mem')
        BY <1>1, <1>2, <2>2, <4>1, OpenGrows
      <4> QED BY <4>2
    <3> QED BY <3>1, <3>2
  <2>4. PICK q, k : Open(mem', q, k) /\ e = q[k] /\ (k # n + 1 => Type = "WUNI" /\ k = n)
                    /\ IsBuffer(mem')
    BY <2>3
  <2>5. Open(mem, q, k)' /\ previdx' = q[k] /\ Type' = Type /\ Slabs' = Slabs
    BY <2>1, <2>4, OpenNext
  <2>6. Counted(k)'
    BY <1>2, <1>3, <2>1, <2>4, <2>5 DEF Counted
  <2>7. IsBuffer(mem)'
    BY <2>4, SameOpt DEF IsBuffer
  <2> QED BY <1>1, <2>1, <2>5, <2>6, <2>7 DEF LegacyInv
<1> QED BY <1>4, <1>5

-----------------------------------------------------------------------------
(* LINEAR goes from line to line.                                           *)
LEMMA LinearKeeps ==
  ASSUME opt \in Commands, LegacyInv, opt' = opt, Linear
  PROVE  LegacyInv'
<1> DEFINE D == NumDatalines
           c == Cacheline
           o == BufferOffset
           p == [i \in 1..D |-> o + (i - 1) * c]
<1>1. /\ c \in Nat \ {0, 1} /\ o \in Nat /\ D \in Nat \ {0} /\ D * c <= BufferSize
      /\ BufferSize \in Nat /\ opt.pool \in Nat
      /\ Addresses = 0..(o + BufferSize + opt.pool - 1)
  BY Sizes
<1>2. /\ mem' = [a \in Addresses |->
                   IF \E i \in 0..(D - 1) : a = o + i * c
                   THEN LET i == (a - o) \div c
                        IN  ((i + 1) % D) * c + o
                   ELSE mem[a]]
      /\ pc' = "distributed" /\ entries' = D /\ Type = "LINEAR"
  BY DEF Linear
<1>3. \A i \in 1..D : p[i] = o + (i - 1) * c
  OBVIOUS
<1> HIDE DEF p, c, o, D
<1>4. ASSUME NEW k \in 0..(D - 1)
      PROVE  /\ o + k * c \in Addresses /\ k * c \in Nat
             /\ mem'[o + k * c] = ((k + 1) % D) * c + o
  <2>1. k * c \in Nat /\ k * c + c <= D * c /\ D * c \in Nat
    <3>1. (k + 1) * c <= D * c /\ (k + 1) * c = k * c + c
      BY <1>1, SMTT(30)
    <3> QED BY <1>1, <3>1
  <2> DEFINE a == o + k * c
  <2>2. a \in Addresses
    <3> DEFINE u == k * c
               v == D * c
    <3>1. u \in Nat /\ u + c <= v /\ v <= BufferSize
      BY <1>1, <2>1
    <3> DEFINE P == opt.pool
               B == BufferSize
    <3>2. /\ a = o + u /\ o \in Nat /\ c \in Nat /\ c > 0 /\ P \in Nat /\ B \in Nat
          /\ Addresses = 0..(o + B + P - 1) /\ u + c <= B
      <4>1. v <= B /\ u + c <= v /\ v \in Nat
        BY <2>1, <3>1
      <4> HIDE DEF u, v
      <4> QED BY <1>1, <3>1, <4>1 DEF u
    <3> HIDE DEF u, v, P, B, a
    <3> QED BY <3>1, <3>2
  <2>3. (a - o) \div c = k
    <3> DEFINE u == k * c
    <3>1. u \in Nat /\ a - o = u
      BY <1>1, <2>1
    <3>2. u \div c = k
      BY <1>1, <2>1, SMTT(30)
    <3> HIDE DEF a, u
    <3> QED BY <3>1, <3>2
  <2> HIDE DEF a
  <2>4. \E i \in 0..(D - 1) : a = o + i * c
    BY DEF a
  <2>5. mem'[a] = (((a - o) \div c + 1) % D) * c + o
    BY <1>2, <2>2, <2>4
  <2>6. mem'[a] = ((k + 1) % D) * c + o
    BY <2>3, <2>5
  <2> QED BY <2>1, <2>2, <2>6 DEF a
<1>5. p \in [1..D -> Addresses]
  <2>1. p = [i \in 1..D |-> o + (i - 1) * c]
    BY DEF p
  <2>2. \A i \in 1..D : i - 1 \in 0..(D - 1)
    BY <1>1
  <2> QED BY <1>4, <2>1, <2>2
<1>6. p[1] = o
  <2>1. 1 \in 1..D /\ (1 - 1) * c = 0
    BY <1>1
  <2> QED BY <1>1, <1>3, <2>1
<1>7. ASSUME NEW i \in 1..D, NEW j \in 1..D, p[i] = p[j]
      PROVE  i = j
  <2>1. i - 1 \in 0..(D - 1) /\ j - 1 \in 0..(D - 1)
    BY <1>1
  <2>2. (i - 1) * c = (j - 1) * c
    <3> DEFINE u == (i - 1) * c
               v == (j - 1) * c
    <3>1. u \in Nat /\ v \in Nat /\ o + u = o + v
      BY <1>3, <1>4, <1>7, <2>1
    <3> HIDE DEF u, v
    <3>2. u = v
      BY <1>1, <3>1
    <3> QED BY <3>2 DEF u, v
  <2> QED BY <1>1, <2>1, <2>2, SMTT(30)
<1>8. ASSUME NEW i \in 1..(D - 1)
      PROVE  mem'[p[i]] = p[i + 1]
  <2>1. i - 1 \in 0..(D - 1) /\ i \in 1..D /\ i + 1 \in 1..D /\ (i - 1) + 1 = i
        /\ (i + 1) - 1 = i /\ i % D = i /\ i \in 0..(D - 1)
    BY <1>1
  <2>2. p[i] = o + (i - 1) * c /\ p[i + 1] = o + i * c /\ i * c \in Nat
    BY <1>3, <1>4, <2>1
  <2>3. mem'[o + (i - 1) * c] = i * c + o
    BY <1>4, <2>1
  <2>4. i * c + o = o + i * c
    BY <1>1, <2>2
  <2> QED BY <2>2, <2>3, <2>4
<1>9. mem'[p[D]] = o
  <2>1. D - 1 \in 0..(D - 1) /\ D \in 1..D /\ (D - 1) + 1 = D /\ D % D = 0
    BY <1>1
  <2>2. mem'[o + (D - 1) * c] = 0 * c + o /\ p[D] = o + (D - 1) * c
    BY <1>3, <1>4, <2>1
  <2> QED BY <1>1, <2>2
<1>10. Closed(mem', p, D)
  BY <1>1, <1>5, <1>6, <1>7, <1>8, <1>9 DEF Closed, Strung, o
<1>13. PICK q, n : Closed(mem', q, n) /\ n = entries'
  BY <1>2, <1>10
<1>11. Closed(mem, q, n)' /\ Type' = Type
  BY <1>13, OpenNext
<1>12. Counted(n)'
  BY <1>2, <1>11, <1>13 DEF Counted
<1> QED BY <1>2, <1>11, <1>12 DEF LegacyInv

(* UNIFORM and WUNI begin at the start of the buffer.                       *)
LEMMA BeginKeeps ==
  ASSUME opt \in Commands, LegacyInv, opt' = opt, BeginUniform \/ BeginWeighted
  PROVE  LegacyInv'
<1> DEFINE p == [i \in 1..1 |-> BufferOffset]
<1>1. /\ pc = "legacy" /\ mem' = mem /\ previdx' = BufferOffset
      /\ pc' \in {"round", "exited"} /\ Type \in {"UNIFORM", "WUNI"}
      /\ entries' = IF Type = "WUNI" THEN 0 ELSE 1
      /\ pc' = "round" /\ Type = "WUNI" => Slabs = <<>>
  BY DEF BeginUniform, BeginWeighted
<1>2. IsBuffer(mem) /\ \A a \in Addresses : mem[a] = Fresh
  BY <1>1 DEF LegacyInv, IsBuffer
<1>3. BufferOffset \in Addresses
  <2> DEFINE o == BufferOffset
             B == BufferSize
             P == opt.pool
  <2>1. o \in Nat /\ B \in Nat /\ P \in Nat \ {0} /\ Addresses = 0..(o + B + P - 1)
    BY Sizes
  <2> HIDE DEF o, B, P
  <2>2. o \in Addresses
    BY <2>1
  <2> QED BY <2>2 DEF o
<1>4. Open(mem', p, 1) /\ p[1] = BufferOffset
  BY <1>1, <1>2, <1>3 DEF Open, Strung, Covers
<1> HIDE DEF p
<1>8. PICK q, n : Open(mem', q, n) /\ q[n] = BufferOffset /\ n = 1
  BY <1>4
<1>5. Open(mem, q, n)' /\ Type' = Type /\ Slabs' = Slabs
  BY <1>8, OpenNext
<1>6. Counted(n)'
  BY <1>1, <1>5, <1>8 DEF Counted
<1>7. IsBuffer(mem)' /\ previdx' = q[n]
  BY <1>1, <1>2, <1>8, SameOpt DEF IsBuffer
<1> QED BY <1>1, <1>5, <1>6, <1>7 DEF LegacyInv

(* The rounds are over.                                                     *)
LEMMA RoundsOverKeeps ==
  ASSUME LegacyInv, opt' = opt, RoundsOver
  PROVE  LegacyInv'
<1>1. /\ mem' = [mem EXCEPT ![previdx] = BufferOffset] /\ pc' = "distributed"
      /\ entries' = entries /\ pc = "round" /\ previdx' = previdx
  BY DEF RoundsOver, Close
<1>2. IsBuffer(mem) /\ \E p, n : Open(mem, p, n) /\ previdx = p[n] /\ Counted(n)
  BY <1>1 DEF LegacyInv
<1>3. PICK p, n : Open(mem, p, n) /\ previdx = p[n] /\ Counted(n)
  BY <1>2
<1>4. Closed(mem', p, n) /\ Open(mem', p, n)
  BY <1>1, <1>2, <1>3, LastWritten
<1>5. Closed(mem, p, n)' /\ Open(mem, p, n)' /\ Counted(n)' /\ previdx' = p[n]
  BY <1>1, <1>3, <1>4, OpenNext DEF Counted
<1> QED BY <1>1, <1>5 DEF LegacyInv

(* The search for a line of WUNI leaves the path alone, and stays between   *)
(* its bounds.                                                              *)
LEMMA SearchKeeps ==
  ASSUME opt \in Commands, LegacyInv, LInv, opt' = opt, WeightedRound \/ Halve
  PROVE  LegacyInv'
<1> DEFINE D == NumDatalines
<1>1. /\ UNCHANGED <<mem, entries, previdx>> /\ pc \in {"round", "search"}
      /\ pc' = "search" /\ Type = "WUNI"
  <2>1. CASE WeightedRound
    BY <2>1 DEF WeightedRound, pathVars
  <2>2. CASE Halve
    BY <2>2 DEF Halve, pathVars, LegacyInv
  <2> QED BY <2>1, <2>2
<1>2. search'.mid \in 0..(D - 1) /\ search'.min \in Nat /\ search'.max \in 0..D
  <2>1. D \in Nat \ {0}
    BY Sizes
  <2>2. CASE WeightedRound
    <3>1. search'.mid = 0 /\ search'.min = 0 /\ search'.max = D
      BY <2>2 DEF WeightedRound
    <3> QED BY <2>1, <3>1
  <2>3. CASE Halve
    <3> DEFINE m == (search.max + search.min) \div 2
    <3>1. /\ pc = "search" /\ search.min < search.max
          /\ search \in [key : Nat, min : Nat, max : Nat, mid : Nat] /\ search.max <= D
          /\ search' = Halved(search, m)
      BY <2>3 DEF Halve, LInv, SearchInv
    <3>2. m \in Nat /\ m < search.max
      BY <3>1
    <3> HIDE DEF m, D
    <3>3. /\ search'.mid = m /\ search'.min \in {search.min, m + 1}
          /\ search'.max \in {search.max, m}
      BY <3>1 DEF Halved
    <3> QED BY <2>1, <3>1, <3>2, <3>3
  <2> QED BY <2>2, <2>3
<1>3. \A p, n : Open(mem, p, n) => Open(mem, p, n)'
  BY <1>1, OpenNext
<1>4. \A n : Counted(n) => Counted(n)'
  BY <1>1, OpenNext DEF Counted
<1>5. \E p, n : Open(mem, p, n)' /\ previdx' = p[n] /\ Counted(n)'
  BY <1>1, <1>3, <1>4 DEF LegacyInv
<1>6. Type' = Type /\ (Type = "WUNI" => Slabs = <<>>) /\ Slabs' = Slabs /\ IsBuffer(mem)'
  BY <1>1, SameOpt, OpenNext DEF LegacyInv, IsBuffer
<1> QED BY <1>1, <1>2, <1>5, <1>6, SameOpt DEF LegacyInv

(* The path of the older distributions, at each stage.                      *)
THEOREM LegacyInvariant == DSpec => [](NoSlabAtZero => LegacyInv)
<1>1. DInit => LegacyInv
  <2> SUFFICES ASSUME DInit PROVE LegacyInv
    OBVIOUS
  <2>1. mem = [a \in Addresses |-> Fresh] /\ pc \in {"check", "legacy"}
    BY DEF DInit, Setup
  <2> QED BY <2>1 DEF LegacyInv
<1>2. DInv /\ LInv /\ (NoSlabAtZero => LegacyInv) /\ [DNext]_allVars
      => (NoSlabAtZero' => LegacyInv')
  <2> SUFFICES ASSUME DInv, LInv, NoSlabAtZero => LegacyInv, [DNext]_allVars, NoSlabAtZero'
               PROVE  LegacyInv'
    OBVIOUS
  <2>11. NoSlabAtZero /\ LegacyInv
    BY StepOfLegacy, SlabsStay DEF DInv, PathInv
  <2>1. opt' = opt /\ opt \in Commands /\ entries \in Nat
    BY StepOfLegacy DEF DInv, PathInv
  <2>2. CASE Linear
    BY <2>11, <2>1, <2>2, LinearKeeps
  <2>3. CASE BeginUniform \/ BeginWeighted
    BY <2>11, <2>1, <2>3, BeginKeeps
  <2>4. CASE UniformRound
    <3>1. PICK l \in 0..(NumDatalines - 1) :
            IF InSlabs /\ l \div opt.pageLines >= Len(Slabs)
            THEN pc' = "undefined" ELSE LinkLine(l)
      BY <2>4 DEF UniformRound
    <3>2. pc = "round"
      BY <2>4 DEF UniformRound
    <3>3. CASE pc' = "undefined"
      BY <3>3 DEF LegacyInv
    <3>4. CASE pc' # "undefined"
      <4>1. LinkLine(l) /\ ~(InSlabs /\ l \div opt.pageLines >= Len(Slabs))
        BY <3>1, <3>4
      <4>2. InSlabs => l \div opt.pageLines < Len(Slabs)
        <5>1. opt.pageLines \in Nat \ {0} /\ l \in Nat /\ Slabs \in Seq(Nat)
          BY <2>1, TypeAssumption, Sizes DEF Slabs
        <5> DEFINE k == opt.pageLines
        <5>3. k \in Nat \ {0} /\ l \in Nat
          BY <5>1
        <5>4. l \div k \in Nat
          <6> HIDE DEF k
          <6> QED BY <5>3, Quotient
        <5>2. l \div opt.pageLines \in Nat /\ Len(Slabs) \in Nat
          BY <5>1, <5>4
        <5> QED BY <4>1, <5>2
      <4> QED BY <2>11, <2>1, <3>2, <4>1, <4>2, LinkLineKeeps
    <3> QED BY <3>3, <3>4
  <2>5. CASE RoundsOver
    BY <2>11, <2>1, <2>5, RoundsOverKeeps
  <2>6. CASE WeightedRound \/ Halve
    BY <2>11, <2>1, <2>6, SearchKeeps
  <2>7. CASE WeightedDraw
    <3>1. /\ pc = "search" /\ Type = "WUNI" /\ search.mid \in 0..(NumDatalines - 1)
          /\ LinkLine(search.mid) /\ ~InSlabs
      BY <2>11, <2>7 DEF WeightedDraw, Searched, LegacyInv, InSlabs
    <3> QED BY <2>11, <2>1, <3>1, LinkLineKeeps
  <2>8. CASE UNCHANGED <<pc, mem, entries, previdx, search>>
    BY <2>11, <2>1, <2>8, LegacyStays
  <2>9. CASE pc' \notin {"legacy", "round", "search", "distributed"}
    BY <2>9 DEF LegacyInv
  <2>10. CASE Type = "ZIPF" /\ pc' = "distributed"
    BY <2>11, <2>1, <2>10 DEF LegacyInv, Type
  <2> QED BY <2>2, <2>3, <2>4, <2>5, <2>6, <2>7, <2>8, <2>9, <2>10, StepOfLegacy
<1> QED BY <1>1, <1>2, PathInvariant, SearchInvariant, PTL DEF DSpec

(* LINEAR and UNIFORM leave a cycle of all the entries they count, UNIFORM  *)
(* and WUNI one through every word they have taken, unless a slab holds the *)
(* word of index 0 and the path does not begin there.                       *)
THEOREM LegacyCycles == DSpec => [](NoSlabAtZero => LegacyClosed)
<1>1. DInv /\ (NoSlabAtZero => LegacyInv) => (NoSlabAtZero => LegacyClosed)
  <2> SUFFICES ASSUME DInv, LegacyInv, pc = "distributed" PROVE LegacyClosed
    BY DEF LegacyClosed
  <2>1. entries \in Nat
    BY DEF DInv, PathInv
  <2>2. ASSUME Type \in {"LINEAR", "UNIFORM"}
        PROVE  IsCycle(Trail(BufferOffset, entries))
    <3>1. PICK p, n : Closed(mem, p, n) /\ n = entries
      BY <2>2 DEF LegacyInv, Counted
    <3> QED BY <3>1, ClosedIsCycle
  <2>3. ASSUME Type \in {"UNIFORM", "WUNI"}
        PROVE  \E n \in 1..(entries + 1) :
                 LET cycle == Trail(BufferOffset, n)
                 IN  IsCycle(cycle) /\ ToSet(cycle) = Taken
    <3>1. PICK p, n : Closed(mem, p, n) /\ Counted(n) /\ Open(mem, p, n) /\ previdx = p[n]
      BY <2>3 DEF LegacyInv
    <3>2. n \in 1..(entries + 1)
      BY <2>1, <3>1 DEF Closed, Strung, Counted
    <3>3. IsCycle(Trail(BufferOffset, n)) /\ ToSet(Trail(BufferOffset, n)) = {p[i] : i \in 1..n}
      BY <3>1, ClosedIsCycle
    <3>4. \A i \in 1..n : p[i] \in Taken
      <4>1. /\ n \in Nat \ {0} /\ p \in [1..n -> Addresses]
            /\ \A i \in 1..(n - 1) : mem[p[i]] = p[i + 1]
            /\ \A i \in 2..n : p[i] # Fresh
        BY <3>1 DEF Open, Strung
      <4>2. ASSUME NEW i \in 1..n, i # n
            PROVE  mem[p[i]] # Fresh
        <5>1. i \in 1..(n - 1) /\ i + 1 \in 2..n
          BY <4>1, <4>2
        <5> QED BY <4>1, <5>1
      <4> QED BY <3>1, <4>1, <4>2 DEF Taken
    <3>5. Taken \subseteq {p[i] : i \in 1..n}
      <4>1. n \in 1..n
        BY <3>1 DEF Open, Strung
      <4> QED BY <3>1, <4>1 DEF Taken, Open, Covers
    <3>6. ToSet(Trail(BufferOffset, n)) = Taken
      BY <3>3, <3>4, <3>5
    <3> QED BY <3>2, <3>3, <3>6
  <2> QED BY <2>2, <2>3 DEF LegacyClosed
<1> QED BY <1>1, PathInvariant, LegacyInvariant, PTL
=============================================================================
