------------------------- MODULE ChasingPathProofs --------------------------
(* Where the entries of the pointer chasing path lead, for any number of    *)
(* subpaths of any lengths: what the proofs of both variants rest on.       *)
EXTENDS ChasingPath, WellFoundedInduction, TLAPS

\* What the path is after the split while no subpath is broken.
CyclePath ==
  [e \in Entries |->
     IF e = EndIdx(e[1]) THEN StartIdx(e[1]) ELSE <<e[1], e[2] + 1>>]

LEMMA EntryForm ==
  ASSUME NEW e \in Entries
  PROVE  /\ e[1] \in Subpaths
         /\ e[2] \in 0 .. Length[e[1]] - 1
         /\ e = <<e[1], e[2]>>
<1>1. PICK s \in Subpaths : e \in {s} \X (0 .. Length[s] - 1)
  BY DEF Entries
<1> QED BY <1>1

LEMMA EntryIntro ==
  ASSUME NEW s \in Subpaths, NEW k \in 0 .. Length[s] - 1
  PROVE  <<s, k>> \in Entries
<1>1. <<s, k>> \in {s} \X (0 .. Length[s] - 1)
  OBVIOUS
<1> QED BY <1>1 DEF Entries

LEMMA StartIsEntry ==
  ASSUME NEW s \in Subpaths
  PROVE  /\ StartIdx(s) \in Entries
         /\ StartIdx(s)[1] = s /\ StartIdx(s)[2] = 0
BY SubpathAssumption, EntryIntro DEF StartIdx

LEMMA LinkedPathType == LinkedPath \in [Entries -> Entries]
<1> SUFFICES ASSUME NEW e \in Entries
             PROVE  LinkedPath[e] \in Entries
  BY DEF LinkedPath
<1>1. e[1] \in Subpaths /\ e[2] \in 0 .. Length[e[1]] - 1 /\ e = <<e[1], e[2]>>
  BY EntryForm
<1>2. CASE e = EndIdx(e[1])
  <2>1. (e[1] + 1) % NumSubpaths \in Subpaths
    BY <1>1, SubpathAssumption DEF Subpaths
  <2> QED BY <1>2, <2>1, StartIsEntry DEF LinkedPath
<1>3. CASE e # EndIdx(e[1])
  <2>1. e[2] + 1 \in 0 .. Length[e[1]] - 1
    BY <1>1, <1>3, SubpathAssumption DEF EndIdx
  <2> QED BY <1>1, <1>3, <2>1, EntryIntro DEF LinkedPath
<1> QED BY <1>2, <1>3

LEMMA SplitLinkedPath == SplitPath(LinkedPath) = CyclePath
BY DEF SplitPath, LinkedPath, CyclePath

LEMMA CyclePathType ==
  ASSUME NEW e \in Entries
  PROVE  /\ CyclePath[e] \in Entries
         /\ CyclePath[e][1] = e[1]
         /\ \/ CyclePath[e][2] = e[2] + 1
            \/ CyclePath[e][2] = 0 /\ e[2] + 1 = Length[e[1]]
<1>1. e[1] \in Subpaths /\ e[2] \in 0 .. Length[e[1]] - 1 /\ e = <<e[1], e[2]>>
  BY EntryForm
<1>2. CASE e = EndIdx(e[1])
  <2>1. e[2] + 1 = Length[e[1]]
    BY <1>1, <1>2, SubpathAssumption DEF EndIdx
  <2> QED BY <1>1, <1>2, <2>1, StartIsEntry DEF CyclePath
<1>3. CASE e # EndIdx(e[1])
  <2>1. e[2] + 1 \in 0 .. Length[e[1]] - 1
    BY <1>1, <1>3, SubpathAssumption DEF EndIdx
  <2>2. CyclePath[e] = <<e[1], e[2] + 1>>
    BY <1>3 DEF CyclePath
  <2> QED BY <1>1, <2>1, <2>2, EntryIntro
<1> QED BY <1>2, <1>3

\* The linked path goes on in the subpath, and from its end to the next.
LEMMA LinkedPathTarget ==
  ASSUME NEW e \in Entries
  PROVE  /\ LinkedPath[e] \in Entries
         /\ e[2] + 1 < Length[e[1]] => LinkedPath[e] = <<e[1], e[2] + 1>>
         /\ e[2] + 1 = Length[e[1]] =>
              LinkedPath[e] = StartIdx((e[1] + 1) % NumSubpaths)
<1>1. e[1] \in Subpaths /\ e[2] \in 0 .. Length[e[1]] - 1 /\ e = <<e[1], e[2]>>
  BY EntryForm
<1>2. Length[e[1]] \in Nat \ {0}
  BY <1>1, SubpathAssumption
<1>3. EndIdx(e[1]) = <<e[1], Length[e[1]] - 1>>
  BY DEF EndIdx
<1>4. e[2] + 1 < Length[e[1]] => e # EndIdx(e[1])
  BY <1>1, <1>2, <1>3
<1>5. e[2] + 1 = Length[e[1]] => e = EndIdx(e[1])
  BY <1>1, <1>2, <1>3
<1> QED BY <1>4, <1>5, LinkedPathType DEF LinkedPath

\* The cyclic path goes on in the subpath, and from its end to its start.
LEMMA CyclePathTarget ==
  ASSUME NEW e \in Entries
  PROVE  /\ CyclePath[e] \in Entries
         /\ e[2] + 1 < Length[e[1]] => CyclePath[e] = <<e[1], e[2] + 1>>
         /\ e[2] + 1 = Length[e[1]] => CyclePath[e] = StartIdx(e[1])
<1>1. e[1] \in Subpaths /\ e[2] \in 0 .. Length[e[1]] - 1 /\ e = <<e[1], e[2]>>
  BY EntryForm
<1>2. Length[e[1]] \in Nat \ {0}
  BY <1>1, SubpathAssumption
<1>3. EndIdx(e[1]) = <<e[1], Length[e[1]] - 1>>
  BY DEF EndIdx
<1>4. e[2] + 1 < Length[e[1]] => e # EndIdx(e[1])
  BY <1>1, <1>2, <1>3
<1>5. e[2] + 1 = Length[e[1]] => e = EndIdx(e[1])
  BY <1>1, <1>2, <1>3
<1> QED BY <1>4, <1>5, CyclePathType DEF CyclePath
-----------------------------------------------------------------------------
(* Arithmetic. Induction over the naturals is the existence of a least       *)
(* counterexample.                                                           *)

LEMMA Least ==
  ASSUME NEW T \in SUBSET Nat, T # {}
  PROVE  \E n \in T : \A m \in T : n <= m
<1> DEFINE R == {p \in Nat \X Nat : p[1] < p[2]}
<1>1. IsWellFoundedOn(R, Nat)
  BY NatLessThanWellFounded, Zenon DEF OpToRel
<1>2. PICK n \in T : \A m \in T : ~(<<m, n>> \in R)
  <2> HIDE DEF R
  <2> QED BY <1>1, WFMin, Zenon
<1>3. ASSUME NEW m \in T PROVE n <= m
  <2>1. ~(<<m, n>> \in R) /\ m \in Nat /\ n \in Nat /\ <<m, n>> \in Nat \X Nat
    BY <1>2
  <2>2. ~(m < n)
    BY <2>1
  <2> QED BY <2>1, <2>2
<1> QED BY <1>3

\* A set of naturals with 0 that with each number below N has the next one
\* has all numbers up to N.
LEMMA Upwards ==
  ASSUME NEW N \in Nat, NEW S, 0 \in S, \A n \in 0 .. N - 1 : n \in S => n + 1 \in S
  PROVE  0 .. N \subseteq S
<1> DEFINE T == {n \in 0 .. N : n \notin S}
<1> SUFFICES ASSUME T # {} PROVE FALSE
  OBVIOUS
<1>1. PICK n \in T : \A m \in T : n <= m
  <2>1. T \in SUBSET Nat
    OBVIOUS
  <2> HIDE DEF T
  <2> QED BY <2>1, Least
<1>2. n \in 0 .. N /\ n \notin S /\ n # 0
  BY <1>1
<1>3. n - 1 \in 0 .. N - 1 /\ n - 1 \notin T
  BY <1>1, <1>2
<1>4. n - 1 \in S
  BY <1>3
<1> QED BY <1>2, <1>3, <1>4

\* Two divisions with remainder are the same.
LEMMA DivisionUnique ==
  ASSUME NEW B \in Nat \ {0}, NEW n \in Int, NEW q \in Int,
         NEW r \in 0 .. B - 1, NEW m \in 0 .. B - 1, B * n + r = B * q + m
  PROVE  n = q /\ r = m
<1>1. B * n - B * q = m - r /\ B * n \in Int /\ B * q \in Int
  OBVIOUS
<1>2. CASE n >= q + 1
  <2>1. B * n >= B * (q + 1)
    BY <1>2
  <2>2. B * (q + 1) = B * q + B
    OBVIOUS
  <2> QED BY <1>1, <2>1, <2>2
<1>3. CASE q >= n + 1
  <2>1. B * q >= B * (n + 1)
    BY <1>3
  <2>2. B * (n + 1) = B * n + B
    OBVIOUS
  <2> QED BY <1>1, <2>1, <2>2
<1>4. CASE n = q
  BY <1>1, <1>4
<1> QED BY <1>2, <1>3, <1>4

LEMMA Remainder ==
  ASSUME NEW B \in Nat \ {0}, NEW n \in Int, NEW r \in 0 .. B - 1
  PROVE  (B * n + r) % B = r /\ (B * n + r) \div B = n
<1> DEFINE y == B * n + r
<1>1. y \in Int
  OBVIOUS
<1> HIDE DEF y
<1>2. y = B * (y \div B) + (y % B) /\ y % B \in 0 .. B - 1 /\ y \div B \in Int
  BY <1>1, SMTT(30)
<1>3. y = B * n + r
  BY DEF y
<1> HIDE DEF y
<1>4. y % B = r /\ y \div B = n
  <2> DEFINE q == y \div B
             m == y % B
  <2>1. q \in Int /\ m \in 0 .. B - 1 /\ B * n + r = B * q + m
    BY <1>2, <1>3
  <2> HIDE DEF q, m
  <2>2. n = q /\ r = m
    BY <2>1, DivisionUnique
  <2> QED BY <2>2 DEF q, m
<1> QED BY <1>3, <1>4
=============================================================================
