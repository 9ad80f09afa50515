---------------------------- MODULE PointerChain ----------------------------
(***************************************************************************)
(* How the pointer chasing path comes to be in the buffer: the             *)
(* distribution SUBPATH of Distribution.cc writes it, chunk by chunk and   *)
(* either with one entry per data line in a random order or with data      *)
(* lines drawn from a zipf distribution; cachetest.cc then walks it to     *)
(* find its subpaths and, unless fibres migrate, splits it.                *)
(*                                                                         *)
(* The buffer is a function from word addresses to words.  An index of the *)
(* path is the address of a word; the unit is the element (four bytes in   *)
(* the code), the address 0 is Get_buffer_pointer().                       *)
(***************************************************************************)
EXTENDS Integers, FiniteSets, SequencesExt

CONSTANT Commands   \* the command lines: records of the options below

\* Sizes are in words.  uniformLine is the only size of a line that
\* uniformSubpath() accepts; slabs are the starts of the slabs that a large
\* buffer has with option -a.
ASSUME SizeAssumption ==
  \A c \in Commands :
    /\ c.numSubpaths \in Nat \ {0} /\ c.dataset \in Nat \ {0}
    /\ c.bufferfactor \in Nat \ {0} /\ c.bufferoffset \in Nat
    /\ c.uniformLine \in Nat /\ c.uniformLine >= 2
    /\ c.cacheline \in Nat /\ c.cacheline >= 2    \* Configure_experiment()
    /\ c.zipf \in BOOLEAN /\ c.pool \in Nat \ {0}
    /\ c.dataset * c.bufferfactor >= c.numSubpaths * c.cacheline

VARIABLES
  opt,          \* the command line
  pc,           \* "check", "chunk", "draw", "collect", "split", "done", or
                \* "exited" (an error exit or a failed assertion)
  mem,          \* the buffer
  entries,      \* Distribution::entries
  chunk,        \* doDistribute()'s subpathIdx
  previdx,      \* zipfSubpath()'s previdx
  draws,        \* zipfSubpath()'s i
  subpathInfo,  \* the sequence of subpaths found so far
  idx,          \* collectPointerChasingSubpathInfo()'s idx
  length        \* and its length

pathVars == <<mem, entries, chunk, previdx, draws>>
infoVars == <<subpathInfo, idx, length>>
vars == <<opt, pc, pathVars, infoVars>>

NumSubpaths == opt.numSubpaths
Dataset == opt.dataset              \* in words
BufferFactor == opt.bufferfactor    \* option -b
BufferOffset == opt.bufferoffset    \* option -o, in words
Cacheline == opt.cacheline          \* option -l, in words
UniformLine == opt.uniformLine
Zipf == opt.zipf                    \* zipfAlpha > 0, option -Z
Slabs == opt.slabs

BufferSize == Dataset * BufferFactor        \* Setup_buffer(): Get_size()
NumDatalines == BufferSize \div Cacheline
ChunkLines == NumDatalines \div NumSubpaths
ChunkSize == ChunkLines * Cacheline
ChunkStart(s) == BufferOffset + s * ChunkSize

\* The buffer and the pool behind it, which is mapped as well: 32 MB.
Addresses == 0 .. BufferOffset + BufferSize + opt.pool - 1

\* Words that are no index.  A fresh word and the index 0 are the same.
Fresh == 0
Unset == -1       \* (element_size_t)-1
Torn == -2        \* three of its bytes overwritten with 0xff

\* Distribution::setup().
Setup ==
  /\ opt \in Commands
  /\ mem = [a \in Addresses |-> Fresh]
  /\ entries = 0 /\ chunk = 0 /\ previdx = 0 /\ draws = 0
  /\ subpathInfo = <<>> /\ idx = 0 /\ length = 0

-----------------------------------------------------------------------------
(* SubpathDistribution::doDistribute().                                    *)

\* Slabs are not implemented; the assertion; and the check of the line size
\* in uniformSubpath().
Check ==
  /\ pc = "check"
  /\ pc' = IF \/ Slabs # <<>>
              \/ NumDatalines % NumSubpaths # 0
              \/ ~Zipf /\ Cacheline # UniformLine
           THEN "exited" ELSE "chunk"
  /\ UNCHANGED <<pathVars, infoVars>>

\* The first entry of the chunk after chunk s.
\* Mutant: the last chunk is not linked back to the first.
NextStartUnwrapped(s) == ChunkStart(s + 1)
NextStart(s) == ChunkStart((s + 1) % NumSubpaths)

AfterChunk ==
  /\ chunk' = chunk + 1
  /\ IF chunk + 1 < NumSubpaths
     THEN pc' = "chunk" /\ UNCHANGED <<idx, length>>
     ELSE pc' = "collect" /\ idx' = BufferOffset /\ length' = 1

\* The word-wide fill with -1 at every byte of the chunk reaches three bytes
\* into the word behind it.
Filled(s) ==
  [a \in Addresses |->
     IF a \in ChunkStart(s) .. ChunkStart(s) + ChunkSize - 1 THEN Unset
     ELSE IF a = ChunkStart(s) + ChunkSize THEN Torn ELSE mem[a]]

\* What std::shuffle() may leave in the indexToShuffle of the lines but one.
Shuffles ==
  {p \in [1 .. ChunkLines - 1 -> 1 .. ChunkLines - 1] :
     \A i, j \in 1 .. ChunkLines - 1 : p[i] = p[j] => i = j}

\* The chain of lines: the first, then the others as shuffled, then link.
\* Mutant: the shuffle takes the first line along, the chain starts there.
ChainFromShuffled(s, p, link) ==
  LET line(i) == ChunkStart(s) + p[i] * Cacheline
      last == ChunkLines - 1
  IN  [a \in {line(i) : i \in 1 .. last} |->
         LET i == CHOOSE j \in 1 .. last : line(j) = a
         IN  IF i = last THEN link ELSE line(i + 1)]
Chain(s, p, link) ==
  LET line(i) == ChunkStart(s) + (IF i = 0 THEN 0 ELSE p[i] * Cacheline)
      last == ChunkLines - 1
  IN  [a \in {line(i) : i \in 0 .. last} |->
         LET i == CHOOSE j \in 0 .. last : line(j) = a
         IN  IF i = last THEN link ELSE line(i + 1)]

\* uniformSubpath() and the link to the next chunk.  The second word of a
\* line holds its indexToShuffle, back at -1 when the path is built but for
\* the last line, whose word was never used.
UniformChunk ==
  /\ pc = "chunk" /\ ~Zipf
  /\ \E p \in Shuffles :
       LET chain == Chain(chunk, p, NextStart(chunk))
       IN  mem' = [a \in Addresses |->
                     IF a \in DOMAIN chain THEN chain[a]
                     ELSE Filled(chunk)[a]]
  /\ entries' = entries + ChunkLines
  /\ AfterChunk
  /\ UNCHANGED <<previdx, draws, subpathInfo>>

\* zipfSubpath() begins: the first entry of the chunk.
ZipfChunk ==
  /\ pc = "chunk" /\ Zipf
  /\ pc' = "draw"
  /\ entries' = entries + 1
  /\ previdx' = ChunkStart(chunk)
  /\ draws' = 1
  /\ UNCHANGED <<mem, chunk, infoVars>>

\* The empty words of a line, once previdx is temporarily marked as taken.
\* Mutant: previdx is not marked.
FreeUnmarked(line) ==
  {a \in line .. line + Cacheline - 1 : mem[a] = Fresh}
Free(line) ==
  {a \in line .. line + Cacheline - 1 : mem[a] = Fresh /\ a # previdx}

\* One round: data line l of the chunk is drawn, and its first empty word
\* is linked in.
ZipfDraw(l) ==
  LET free == Free(ChunkStart(chunk) + l * Cacheline)
      element == CHOOSE a \in free : \A b \in free : a <= b
  IN  /\ pc = "draw" /\ free # {}
      /\ mem' = [mem EXCEPT ![previdx] = element]
      /\ previdx' = element
      /\ entries' = entries + 1
      /\ draws' = draws + 1
      /\ UNCHANGED <<pc, chunk, infoVars>>

\* The path of the chunk ends; the link overwrites the mark.
LinkChunk ==
  /\ mem' = [mem EXCEPT ![previdx] = NextStart(chunk)]
  /\ AfterChunk
  /\ UNCHANGED <<entries, previdx, draws, subpathInfo>>

\* After as many rounds as the buffer has words, or because the drawn line
\* is full.
ZipfEnough == pc = "draw" /\ draws = BufferSize /\ LinkChunk
ZipfFull(l) ==
  pc = "draw" /\ Free(ChunkStart(chunk) + l * Cacheline) = {} /\ LinkChunk

-----------------------------------------------------------------------------
(* collectPointerChasingSubpathInfo() and splitPointerChasingPath().       *)

\* The slices are computed from the data set size, not from the buffer size.
SliceSize == Dataset \div NumSubpaths
SliceStart(s) == BufferOffset + s * SliceSize

Current == Len(subpathInfo)
\* Mutant: the walk of the last subpath does not look for the first.
CurrentEndUnwrapped == SliceStart(Current + 1)
CurrentEnd == SliceStart((Current + 1) % NumSubpaths)

\* One round of the walk.  Reading -1 as an index leaves the buffer.  The
\* length is bounded: beyond the size of the buffer the walk is in a circle.
Walk ==
  /\ pc = "collect" /\ mem[idx] # CurrentEnd
  /\ IF mem[idx] \in Addresses
     THEN /\ idx' = mem[idx]
          /\ length' = IF length > BufferSize THEN length ELSE length + 1
          /\ UNCHANGED pc
     ELSE pc' = "exited" /\ UNCHANGED <<idx, length>>
  /\ UNCHANGED <<pathVars, subpathInfo>>

\* Mutant: the length of a subpath counts its links only.
LinksOnly == length - 1
EntriesWalked == length

FindEnd ==
  /\ pc = "collect" /\ mem[idx] = CurrentEnd
  /\ subpathInfo' = Append(subpathInfo, [startIdx |-> SliceStart(Current),
                                         endIdx |-> idx,
                                         length |-> EntriesWalked])
  /\ idx' = CurrentEnd
  /\ length' = 1
  /\ pc' = IF Current + 1 = NumSubpaths THEN "split" ELSE "collect"
  /\ UNCHANGED pathVars

\* Mutant: the last entry points to the start of the whole path.
CloseAtBuffer(i) == BufferOffset
CloseAt(i) == subpathInfo[i].startIdx

Split ==
  /\ pc = "split"
  /\ mem' = [a \in Addresses |->
               IF \E i \in 1 .. NumSubpaths : a = subpathInfo[i].endIdx
               THEN CloseAt(CHOOSE i \in 1 .. NumSubpaths :
                              a = subpathInfo[i].endIdx)
               ELSE mem[a]]
  /\ pc' = "done"
  /\ UNCHANGED <<entries, chunk, previdx, draws, infoVars>>

-----------------------------------------------------------------------------
(* Properties.                                                             *)

\* The n + 1 addresses on the path from a on, stuck at a word that is none.
Follow(a) == IF a \in Addresses THEN mem[a] ELSE a
Trail(a, n) ==
  LET trail[i \in 1 .. n + 1] == IF i = 1 THEN a ELSE Follow(trail[i - 1])
  IN  trail

Chunk(s) == ChunkStart(s) .. ChunkStart(s) + ChunkSize - 1

\* A trail that comes back to where it began, through distinct entries.
IsCycle(trail) ==
  LET n == Len(trail) - 1
  IN  /\ trail[n + 1] = trail[1]
      /\ Cardinality(ToSet(trail)) = n

\* The path as distribute() left it, from the start of the buffer.
WholePath == Trail(BufferOffset, entries)

\* SUBPATH has returned, the walk has not begun.
Distributed == pc = "collect" /\ Current = 0 /\ length = 1

\* The distribution leaves one cycle: from the start of the buffer back to
\* it through as many distinct entries as it counted, all inside the buffer,
\* whatever was shuffled or drawn.
OneCycle ==
  Distributed =>
    /\ IsCycle(WholePath)
    /\ \A a \in ToSet(WholePath) : \E s \in 0 .. NumSubpaths - 1 : a \in Chunk(s)

\* Without zipf the path visits every data line of the buffer exactly once,
\* at its first word.
EveryLineOnce ==
  ~Zipf /\ Distributed =>
    ToSet(WholePath) =
      {BufferOffset + l * Cacheline : l \in 0 .. NumDatalines - 1}

\* "the buffer is evenly divided such that each slice of the buffer contains
\* a subpath.  Further, the first entry of each slice is the first entry of
\* the subpath": what was collected says so, and accounts for every entry.
SlicesHoldSubpaths ==
  pc = "split" =>
    \A s \in 0 .. NumSubpaths - 1 :
      LET info == subpathInfo[s + 1]
          trail == Trail(info.startIdx, info.length - 1)
      IN  /\ info.startIdx = ChunkStart(s)
          /\ trail[info.length] = info.endIdx
          /\ ToSet(trail) = ToSet(WholePath) \cap Chunk(s)

\* "Each subpath is a new pointer chasing path where the locations spanned
\* by all subpaths match the locations spanned by the original": after the
\* split, subpath s is one cycle of its recorded length inside its chunk
\* (printPath() and the DEBUG assertions), and no entry was lost.
SplitIntoCycles ==
  pc = "done" =>
    /\ \A s \in 0 .. NumSubpaths - 1 :
         LET info == subpathInfo[s + 1]
             trail == Trail(info.startIdx, info.length)
         IN  IsCycle(trail) /\ ToSet(trail) \subseteq Chunk(s)
    /\ LET sum[s \in 0 .. NumSubpaths] ==
             IF s = 0 THEN 0 ELSE sum[s - 1] + subpathInfo[s].length
       IN  sum[NumSubpaths] = entries

\* The entries and paths of the experiments, for the subpaths that were found.
Experiments ==
  INSTANCE ChasingPath WITH
    Length <- [s \in 0 .. NumSubpaths - 1 |-> subpathInfo[s + 1].length],
    Stop <- Unset

\* Entry <<s, k>> is the word k links behind the start of subpath s.
Word(e) == Trail(subpathInfo[e[1] + 1].startIdx, e[2])[e[2] + 1]
Holds(path) ==
  /\ \A s \in 0 .. NumSubpaths - 1 : /\ Experiments!StartIdx(s) \in Experiments!Entries
                                     /\ Word(Experiments!StartIdx(s)) = ChunkStart(s)
  /\ \A e \in Experiments!Entries : Word(e) \in Chunk(e[1])
  /\ \A d, e \in Experiments!Entries : Word(d) = Word(e) => d = e
  /\ \A e \in Experiments!Entries : mem[Word(e)] = Word(path[e])
  /\ Cardinality(Experiments!Entries) = entries

\* The experiments find the path that they expect: what was collected is the
\* linked path of ChasingPath, which migrating fibres use, and the split
\* leaves the split one.
HandsOver ==
  /\ pc = "split" => Holds(Experiments!LinkedPath)
  /\ pc = "done" => Holds(Experiments!SplitPath(Experiments!LinkedPath))

=============================================================================
