---------------------------- MODULE ChasingPath -----------------------------
(***************************************************************************)
(* The pointer chasing path as the experiments of cachetest.cc see it.  An *)
(* entry is a pair <<s, k>>: the k-th entry visited in subpath s.  A path  *)
(* is a function that gives the index stored at each entry.  Where an      *)
(* entry lies in the buffer is the concern of PointerChain, which shows    *)
(* that the code builds paths of this shape.                               *)
(***************************************************************************)
EXTENDS Integers

CONSTANTS
  NumSubpaths,      \* numSubpaths, the number of items of option -T
  Length,           \* subpathInfo[s].length, for each subpath s
  Stop              \* the invalid index (element_size_t)-1

Subpaths == 0 .. NumSubpaths - 1
Entries == UNION {{s} \X (0 .. Length[s] - 1) : s \in Subpaths}

ASSUME SubpathAssumption ==
  /\ NumSubpaths \in Nat \ {0}
  /\ Length \in [Subpaths -> Nat \ {0}]
ASSUME StopAssumption == Stop \notin Entries

Paths == [Entries -> Entries \cup {Stop}]

StartIdx(s) == <<s, 0>>
EndIdx(s) == <<s, Length[s] - 1>>

\* The path as Setup_distribution() leaves it: one cycle through all
\* subpaths, the last entry of each linked to the first of the next.
\* Mutant: linked to the second of the next.
LinkedPathPastStart ==
  [e \in Entries |->
     LET next == (e[1] + 1) % NumSubpaths
     IN  IF e # EndIdx(e[1]) THEN <<e[1], e[2] + 1>>
         ELSE IF Length[next] > 1 THEN <<next, 1>> ELSE StartIdx(next)]
LinkedPath ==
  [e \in Entries |->
     IF e = EndIdx(e[1]) THEN StartIdx((e[1] + 1) % NumSubpaths)
                         ELSE <<e[1], e[2] + 1>>]

\* Mutants of SplitPath: every subpath is closed at the first subpath; a
\* subpath is closed at its second entry.
SplitPathToFirst(path) ==
  [e \in Entries |-> IF e = EndIdx(e[1]) THEN StartIdx(0) ELSE path[e]]
SplitPathPastStart(path) ==
  [e \in Entries |->
     IF e = EndIdx(e[1])
     THEN IF Length[e[1]] > 1 THEN <<e[1], 1>> ELSE StartIdx(e[1])
     ELSE path[e]]

\* splitPointerChasingPath(): the last entry of each subpath is made to
\* point to its first entry.
SplitPath(path) ==
  [e \in Entries |-> IF e = EndIdx(e[1]) THEN StartIdx(e[1]) ELSE path[e]]

\* One iteration of alarm_handler(): the first entry of subpath s becomes
\* the invalid index.  Mutant: every iteration breaks the first subpath.
BreakFirst(path, s) == [path EXCEPT ![StartIdx(0)] = Stop]
Break(path, s) == [path EXCEPT ![StartIdx(s)] = Stop]

Broken(path, s) == path[StartIdx(s)] = Stop
=============================================================================
