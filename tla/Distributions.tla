---------------------------- MODULE Distributions ---------------------------
(* Distribution.cc as a whole: createDistribution() sets one of five        *)
(* distributions up and distribute() runs it. SUBPATH is PointerChain, its  *)
(* zipf paths drawn by ZipfGenerator; LINEAR, UNIFORM, WUNI and ZIPF are    *)
(* the older ones. A draw of the Mersenne Twister is a choice.              *)
EXTENDS PointerChain, ZipfGenerator

ASSUME TypeAssumption ==
  \A c \in Commands :
    /\ c.type \in {"SUBPATH", "LINEAR", "UNIFORM", "WUNI", "ZIPF"}
    /\ c.pageLines \in Nat \ {0}   \* lines of a page of two megabytes
    /\ c.seed \in 0..M             \* option -r
    /\ c.slabs \in Seq(Nat)         \* pages of the buffer and its pool
    /\ \A i \in DOMAIN c.slabs :
         c.slabs[i] + c.pageLines * c.cacheline
           <= c.bufferoffset + c.dataset * c.bufferfactor + c.pool
    /\ c.zipf =>     \* the ranks zipf() is asked for
         ((c.dataset * c.bufferfactor) \div c.cacheline) \div c.numSubpaths <= MaxItems

VARIABLES
  ranking,                 \* rankToDatalineMap of the chunk, from rank 1 on
  search                   \* getNextIDX(): its key, min, max and mid

zipfVars == <<gvars, ranking>>
allVars == <<vars, zipfVars, search>>

Type == opt.type
NoSearch == [key |-> 0, min |-> 0, max |-> 0, mid |-> 0]

DInit ==
  /\ Setup /\ GInit
  /\ ranking = <<>> /\ search = NoSearch
  /\ pc = IF Type = "SUBPATH" THEN "check" ELSE "legacy"

-----------------------------------------------------------------------------
(* zipfSubpath(): the generator is seeded anew for each chunk, the lines of *)
(* the chunk are ranked at random, and each round draws a rank.             *)

Rankings ==
  {p \in [1..ChunkLines -> 0..(ChunkLines - 1)] :
     \A i, j \in 1..ChunkLines : p[i] = p[j] => i = j}

SeedChunk ==
  /\ ZipfChunk
  /\ ranking' \in Rankings
  /\ \E s \in Seeds : Seed(s)

CallZipf ==
  /\ pc = "draw" /\ draws < BufferSize /\ calls = "idle"
  /\ Call(ChunkLines)
  /\ UNCHANGED <<pc, pathVars, infoVars, ranking>>

\* zipf() between its call and its return. It is asked for the ranks of a
\* chunk each time, and so never gets to ReturnAnything: see RankReached.
InZipf ==
  /\ Pull \/ Return(ChunkLines)
  /\ UNCHANGED <<pc, pathVars, infoVars, ranking>>

ZipfReturned ==
  /\ calls = "returned" /\ calls' = "idle"
  /\ ZipfDraw(ranking[rank]) \/ ZipfFull(ranking[rank])
  /\ UNCHANGED <<x, total, rank, ranking>>

Subpath ==
  \/ SeedChunk \/ CallZipf \/ InZipf \/ ZipfReturned
  \/ /\ Check \/ UniformChunk \/ ZipfEnough \/ Walk \/ FindEnd \/ Split
     /\ UNCHANGED zipfVars

-----------------------------------------------------------------------------
(* LINEAR: each line links to the next, the last to the first.              *)

Linear ==
  /\ pc = "legacy" /\ Type = "LINEAR"
  /\ mem' = [a \in Addresses |->
               IF \E i \in 0..(NumDatalines - 1) : a = BufferOffset + i * Cacheline
               THEN LET i == (a - BufferOffset) \div Cacheline
                    IN  ((i + 1) % NumDatalines) * Cacheline + BufferOffset
               ELSE mem[a]]
  /\ entries' = NumDatalines
  /\ pc' = "distributed"
  /\ UNCHANGED <<chunk, previdx, draws, infoVars, zipfVars, search>>

-----------------------------------------------------------------------------
(* UNIFORM and WUNI draw lines with repetition; each draw takes the first   *)
(* free word of the line, the last one excepted.                            *)

BeginUniform ==
  /\ pc = "legacy" /\ Type = "UNIFORM"
  /\ entries' = 1 /\ previdx' = BufferOffset /\ draws' = 1
  /\ pc' = "round"
  /\ UNCHANGED <<mem, chunk, infoVars, zipfVars, search>>

\* WUNI turns slabs down, by assert(false).
BeginWeighted ==
  /\ pc = "legacy" /\ Type = "WUNI"
  /\ entries' = 0 /\ previdx' = BufferOffset /\ draws' = 0
  /\ pc' = IF Slabs # <<>> THEN "exited" ELSE "round"
  /\ UNCHANGED <<mem, chunk, infoVars, zipfVars, search>>

\* Where line l is; in slabs, a page is looked up first.
InSlabs == Type = "UNIFORM" /\ Slabs # <<>>
LineAt(l) ==
  IF InSlabs
  THEN Slabs[l \div opt.pageLines + 1] + (l % opt.pageLines) * Cacheline
  ELSE BufferOffset + l * Cacheline

\* UNIFORM marks the word that it will write next as taken, WUNI does not.
\* Mutant: nobody does.
FreeLegacyUnmarked(line) == {a \in line..(line + Cacheline - 2) : mem[a] = Fresh}
FreeLegacy(line) ==
  {a \in line..(line + Cacheline - 2) :
     mem[a] = Fresh /\ (Type = "UNIFORM" => a # previdx)}

\* The round with line l: the distribution ends on a full one.
Close == mem' = [mem EXCEPT ![previdx] = BufferOffset] /\ pc' = "distributed"
LinkLine(l) ==
  LET free == FreeLegacy(LineAt(l))
      element == CHOOSE a \in free : \A b \in free : a <= b
  IN  /\ IF free = {}
         THEN Close /\ UNCHANGED <<entries, previdx, draws>>
         ELSE /\ mem' = [mem EXCEPT ![previdx] = element]
              /\ previdx' = element
              /\ entries' = entries + 1 /\ draws' = draws + 1
              /\ pc' = "round"
      /\ UNCHANGED <<chunk, infoVars, zipfVars>>

\* A page that has no slab is read past the end of the vector.
UniformRound ==
  /\ pc = "round" /\ Type = "UNIFORM" /\ draws < BufferSize
  /\ UNCHANGED search
  /\ \E l \in 0..(NumDatalines - 1) :
       IF InSlabs /\ l \div opt.pageLines >= Len(Slabs)
       THEN pc' = "undefined" /\ UNCHANGED <<pathVars, infoVars, zipfVars>>
       ELSE LinkLine(l)

RoundsOver ==
  /\ pc = "round" /\ draws = BufferSize
  /\ Close
  /\ UNCHANGED <<entries, chunk, previdx, draws, infoVars, zipfVars, search>>

\* WUNI weights line i with i: calculateCDF(), and getNextIDX() searches the
\* line of a key below the total weight.
Cdf(i) == (i * (i + 1)) \div 2
WeightedRound ==
  /\ pc = "round" /\ Type = "WUNI" /\ draws < BufferSize
  /\ \E key \in 0..Cdf(NumDatalines - 1) :
       /\ key < Cdf(NumDatalines - 1) \/ key = 0
       /\ search' = [key |-> key, min |-> 0, max |-> NumDatalines, mid |-> 0]
  /\ pc' = "search"
  /\ UNCHANGED <<pathVars, infoVars, zipfVars>>

\* Mutant: the search goes on above the middle it was meant to stay below.
HalvedUp(s, mid) ==
  IF s.key < Cdf(mid) THEN [s EXCEPT !.min = mid + 1, !.mid = mid]
                      ELSE [s EXCEPT !.max = mid, !.mid = mid]
Halved(s, mid) ==
  IF s.key < Cdf(mid) THEN [s EXCEPT !.max = mid, !.mid = mid]
                      ELSE [s EXCEPT !.min = mid + 1, !.mid = mid]
Halve ==
  /\ pc = "search" /\ search.min < search.max
  /\ search' = Halved(search, (search.max + search.min) \div 2)
  /\ UNCHANGED <<pc, pathVars, infoVars, zipfVars>>

\* What is returned is the last middle, not the bound.
Searched == pc = "search" /\ search.min >= search.max
WeightedDraw ==
  /\ Searched
  /\ LinkLine(search.mid)
  /\ UNCHANGED search

-----------------------------------------------------------------------------
(* ZIPF: writes no path. Its shuffle asks for an index below zero in the    *)
(* last round, and takes any.                                               *)

ZipfLegacy ==
  /\ pc = "legacy" /\ Type = "ZIPF"
  /\ IF opt.seed = 0
     THEN pc' = "exited" /\ UNCHANGED zipfVars
     ELSE /\ pc' \in {"distributed", "undefined"}
          /\ Seed(opt.seed) /\ UNCHANGED ranking
  /\ UNCHANGED <<pathVars, infoVars, search>>

Over == pc \in {"done", "distributed", "exited", "undefined"}
Terminated == Over /\ UNCHANGED allVars

DNext ==
  \/ /\ \/ Linear \/ BeginUniform \/ BeginWeighted \/ UniformRound \/ RoundsOver
        \/ WeightedRound \/ Halve \/ WeightedDraw \/ ZipfLegacy
        \/ Subpath /\ UNCHANGED search
     /\ UNCHANGED opt
  \/ Terminated

\* One thread of main(), which goes on.
DSpec == DInit /\ [][DNext]_allVars /\ WF_allVars(DNext)

-----------------------------------------------------------------------------
\* The words that hold an index, and the last entry, whose link may be 0.
Taken == {previdx} \cup {a \in Addresses : mem[a] # Fresh}

\* LINEAR and UNIFORM leave a cycle of as many distinct entries as they
\* count, from the start of the buffer back to it. UNIFORM's, and that of
\* WUNI, passes every word they have taken: no entry that was linked is lost.
\* WUNI counts its draws, those of the word that it is about to write too,
\* but not the first entry: of entries there is at most one more.
LegacyClosed ==
  pc = "distributed" =>
    /\ Type \in {"LINEAR", "UNIFORM"} => IsCycle(Trail(BufferOffset, entries))
    /\ Type \in {"UNIFORM", "WUNI"} =>
         \E n \in 1..(entries + 1) :
           LET cycle == Trail(BufferOffset, n)
           IN  IsCycle(cycle) /\ ToSet(cycle) = Taken

\* The binary search of getNextIDX() closes in on the line in whose share of
\* the weights the key lies, for every number of lines and every key. That
\* line is min, and max; doDistribute() is given mid, which is the last one
\* compared with and may be the line before, even one of weight 0.
SearchFindsKey ==
  Searched =>
    /\ search.min = search.max
    /\ search.min = 0 \/ Cdf(search.min - 1) <= search.key
    /\ search.key < Cdf(search.min) \/ NumDatalines = 1

\* Every number pulled is the product of multiplier and state modulo m,
\* although rand_val() never computes the product, and lies in 1..m; it is
\* the m that zipf() turns down, and would get again for ever, only if the
\* generator was not seeded.
LehmerStep ==
  [][calls = "pull" /\ x' # x =>
       /\ x' \in 1..M
       /\ \E k \in -1..A : x' = A * x - k * M
       /\ x' = M => x = 0]_allVars

\* Every distribution ends, and so does the analysis of the path, unless the
\* generator was given its modulus as seed: then zipf() pulls numbers for ever.
Finishes == <>(Over \/ x = M)
=============================================================================
