----------------------------- MODULE BufferAlloc ----------------------------
(* Setup_buffer() and the classes of Buffer.cc: memory is allocated with a  *)
(* pool to search in, wiped, aligned to a page, and with option -a searched *)
(* for a run of pages whose frames follow one another. Addresses and sizes  *)
(* are in units of which a page has Page; integers keep their widths.       *)
EXTENDS Integers, Sequences, FiniteSets, Functions

CONSTANTS
  BufferCommands,  \* options, see BufferAssumption
  Page,            \* M_Page_size: 4 KB
  LargePage,       \* PAGE_1GB
  HugeFrames,      \* frames of a huge page of the kernel
  PoolSize,        \* POOL_SIZE_4KB
  Frames,          \* the page frames there are
  U, S             \* an unsigned int is below U, a size_t below S

ASSUME BufferAssumption ==
  /\ Page \in Nat \ {0} /\ LargePage \in Nat \ {0} /\ HugeFrames \in Nat \ {0}
  /\ PoolSize \in Nat /\ U \in Nat \ {0} /\ S \in Nat \ {0}
  /\ U % 2 = 0 /\ S >= U + PoolSize + LargePage + 3 * Page
  /\ Frames \subseteq Nat \ {0, 1}   \* the first frames are the firmware's
  /\ IsFiniteSet(Frames)
  /\ LargePage % (HugeFrames * Page) = 0
  /\ \A c \in BufferCommands :
       /\ c.dataset \in 0..(U - 1) /\ c.bufferfactor \in 0..(U - 1)
       /\ c.bufferoffset \in 0..(U - 1)
       /\ {c.huge, c.cont, c.privileged} \subseteq BOOLEAN

VARIABLES
  bopt,     \* the options
  alloc,    \* "setup", "allocate", "initialize", "populate", "find",
            \* "offset", "ready", "exited", "undefined"
  status,   \* why it exited
  M_Buffer_size, M_Pool_size, M_Buffer, M_Start_address, M_Buffer_slabs,
  touched,  \* the pages written so far
  frame,    \* and their frames, which only option -a looks at
  Tmp_slabs,     \* the map from frames to addresses
  Map_iterator,  \* the frames of Tmp_slabs that are still to come
  Last_PFN, Required_pages

bufferVars == <<M_Buffer_size, M_Pool_size, M_Buffer, M_Start_address, touched>>
findVars == <<frame, M_Buffer_slabs, Tmp_slabs, Map_iterator, Last_PFN, Required_pages>>
allocVars == <<bopt, alloc, status, bufferVars, findVars>>

Round_to_alignment(address, alignment) ==
  LET end == address + (alignment - 1) IN (end - (end % alignment)) % S

Logical_page_size == IF bopt.huge THEN LargePage ELSE Page
PageOf(address) == address \div Page

AllocInit ==
  /\ bopt \in BufferCommands
  /\ alloc = "setup" /\ status = "OK"
  /\ M_Buffer_size = 0 /\ M_Pool_size = 0 /\ M_Buffer = 0 /\ M_Start_address = 0
  /\ touched = {} /\ frame = <<>> /\ M_Buffer_slabs = <<>> /\ Tmp_slabs = <<>>
  /\ Map_iterator = {} /\ Last_PFN = 0 /\ Required_pages = 0

Exit(why) == alloc' = "exited" /\ status' = why

\* main() and Setup_buffer(): an unsigned product becomes an int, which
\* becomes a size_t; the pool is added and rounded.
AsSize(unsigned) == IF unsigned < U \div 2 THEN unsigned ELSE S - (U - unsigned)
\* Mutant: a small buffer gets no pool.
WithoutPool(size) == Round_to_alignment(size, Logical_page_size)
PoolFor(size) ==
  Round_to_alignment(((IF bopt.huge THEN 0 ELSE PoolSize) + size) % S, Logical_page_size)
TooLarge == bopt.huge /\ bopt.dataset > LargePage
SetupBuffer ==
  /\ alloc = "setup"
  /\ IF TooLarge
     THEN Exit("dataset") /\ UNCHANGED <<M_Buffer_size, M_Pool_size>>
     ELSE /\ M_Buffer_size' = AsSize((bopt.dataset * bopt.bufferfactor) % U)
          /\ M_Pool_size' = PoolFor(M_Buffer_size')
          /\ alloc' = "allocate" /\ UNCHANGED status
  /\ UNCHANGED <<M_Buffer, M_Start_address, touched, findVars>>

\* malloc() gives memory of any alignment, mmap() huge pages, and none when
\* there is too little, or none is asked for. Without memory the constructor
\* of a large buffer exits, and Initialize() that of a small one.
PagesFrom(base, size) ==
  {p \in 0..PageOf(base + size) : base < (p + 1) * Page /\ p * Page < base + size}
Allocate_memory ==
  /\ alloc = "allocate"
  /\ \/ Exit("BUFFER_NOT_ALLOCATED") /\ UNCHANGED M_Buffer
     \/ /\ \E skew \in 0..(Page - 1) :
             /\ bopt.huge => skew = 0
             /\ M_Buffer' = Page + skew
        /\ M_Pool_size < U /\ (bopt.huge => M_Pool_size > 0)
        /\ Cardinality(PagesFrom(M_Buffer', M_Pool_size)) <= Cardinality(Frames)
        /\ alloc' = "initialize" /\ UNCHANGED status
  /\ UNCHANGED <<M_Buffer_size, M_Pool_size, M_Start_address, touched, findVars>>

\* The kernel has given each page a frame when it was written; the frames of
\* a huge page follow one another, the first is aligned.
Lead(p) == ((p - 1) \div HugeFrames) * HugeFrames + 1
Mappings(pages) ==
  IF bopt.huge
  THEN {[p \in pages |-> head[Lead(p)] + (p - Lead(p))] :
          head \in Injection({Lead(p) : p \in pages}, {f \in Frames : f % HugeFrames = 0})}
  ELSE Injection(pages, Frames)

\* memset() comes before the buffer is aligned.
Aligned == IF M_Buffer % Page # 0 THEN Round_to_alignment(M_Buffer, Logical_page_size)
           ELSE M_Buffer
Initialize ==
  /\ alloc = "initialize"
  /\ touched' = PagesFrom(M_Buffer, M_Pool_size)
  /\ M_Buffer' = Aligned
  /\ alloc' = IF bopt.cont THEN "populate" ELSE "offset"
  /\ UNCHANGED <<status, M_Buffer_size, M_Pool_size, M_Start_address, findVars>>

\* Populate_frame_to_page_map(): as many pages as the pool has are looked up,
\* of huge pages the heads are kept. It is for the superuser, and it returns
\* no status: what the caller finds is anything. An empty map is dereferenced.
Dumped == {p \in 0..PageOf(M_Buffer + M_Pool_size) :
             PageOf(M_Buffer) <= p /\ p < PageOf(M_Buffer) + PageOf(M_Pool_size)}
FrameIn(map, p) == IF p \in touched THEN map[p] ELSE 0
Kept(map) == {p \in Dumped : bopt.huge => FrameIn(map, p) % HugeFrames = 0}
PagesNeeded ==
  Round_to_alignment(M_Buffer_size, Logical_page_size) \div Logical_page_size

Populate ==
  /\ alloc = "populate"
  /\ IF ~bopt.privileged /\ Dumped # {}
     THEN Exit("privilege") /\ UNCHANGED findVars
     ELSE \/ Exit("LOOKUP_STATUS") /\ UNCHANGED findVars
          \/ Dumped = {} /\ alloc' = "undefined" /\ UNCHANGED <<status, findVars>>
          \/ /\ Dumped # {}
             /\ frame' \in Mappings(touched)
             /\ Tmp_slabs' = [f \in {FrameIn(frame', p) : p \in Kept(frame')} |->
                                (CHOOSE p \in Kept(frame') : FrameIn(frame', p) = f) * Page]
             /\ Map_iterator' = DOMAIN Tmp_slabs'
             /\ Last_PFN' = 0
             /\ Required_pages' = (PagesNeeded - 1) % S
             /\ \E f \in DOMAIN Tmp_slabs' :
                  /\ \A g \in DOMAIN Tmp_slabs' : f <= g
                  /\ M_Buffer_slabs' = <<Tmp_slabs'[f]>>
             /\ alloc' = "find" /\ UNCHANGED status
  /\ UNCHANGED bufferVars

\* Find_contiguous_range(), one round: the frames come in increasing order.
\* Mutant: a gap between frames does not start the run anew.
FollowsAnyhow(PFN) == PFN > Last_PFN /\ Last_PFN # 0
Follows(PFN) == PFN = Last_PFN + 1
Find ==
  /\ alloc = "find" /\ Required_pages # 0
  /\ \E PFN \in Map_iterator :
       /\ \A f \in Map_iterator : PFN <= f
       /\ Map_iterator' = Map_iterator \ {PFN}
       /\ Last_PFN' = PFN
       /\ IF Follows(PFN)
          THEN /\ Required_pages' = Required_pages - 1
               /\ M_Buffer_slabs' = Append(M_Buffer_slabs, Tmp_slabs[PFN])
          ELSE /\ Required_pages' = (PagesNeeded - 1) % S
               /\ M_Buffer_slabs' = <<Tmp_slabs[PFN]>>
  /\ UNCHANGED <<alloc, status, bufferVars, frame, Tmp_slabs>>

Found ==
  /\ alloc = "find"
  /\ \/ Required_pages = 0 /\ alloc' = "offset" /\ UNCHANGED status
     \/ /\ Required_pages # 0 /\ Map_iterator = {}
        /\ Exit("FAILED_CONTIGUOUS_LOOKUP")
  /\ UNCHANGED <<bufferVars, findVars>>

\* The end of Initialize(), and Set_buffer_offset().
SetBufferOffset ==
  /\ alloc = "offset"
  /\ M_Start_address' = M_Buffer + bopt.bufferoffset
  /\ alloc' = "ready"
  /\ UNCHANGED <<status, M_Buffer_size, M_Pool_size, M_Buffer, touched, findVars>>

AllocStep ==
  \/ SetupBuffer \/ Allocate_memory \/ Initialize
  \/ Populate \/ Find \/ Found \/ SetBufferOffset
AllocOver == alloc \in {"ready", "exited", "undefined"}
AllocNext ==
  \/ AllocStep /\ UNCHANGED bopt
  \/ AllocOver /\ UNCHANGED allocVars
AllocSpec == AllocInit /\ [][AllocNext]_allocVars

-----------------------------------------------------------------------------
\* The pages under the data.
DataPages == PagesFrom(M_Start_address, M_Buffer_size)

\* The data lies in memory that was allocated and wiped, although the buffer
\* was moved to the next page after it was wiped, as long as the size is no
\* negative int and the offset stays within the pool that is left: a page
\* less than the pool of a small buffer, what the rounding adds to a large.
Slack == IF bopt.huge THEN M_Pool_size - M_Buffer_size ELSE PoolSize - (Page - 1)
BufferMapped ==
  alloc = "ready" /\ M_Buffer_size < U \div 2 /\ bopt.bufferoffset <= Slack =>
    \A a \in M_Start_address..(M_Start_address + M_Buffer_size - 1) :
      PageOf(a) \in touched

\* With -a: the slabs are pages of the buffer with consecutive frames, as
\* many as the data needs, and the search fails only if there is no such run.
FrameOf(p) == FrameIn(frame, p)
FrameAt(address) == FrameOf(PageOf(address))
ContiguousSlabs ==
  bopt.cont /\ M_Buffer_size \in 1..(U \div 2) =>
    /\ alloc = "ready" =>
         /\ Len(M_Buffer_slabs) = PagesNeeded
         /\ \A i \in 1..(Len(M_Buffer_slabs) - 1) :
              FrameAt(M_Buffer_slabs[i + 1]) = FrameAt(M_Buffer_slabs[i]) + 1
         /\ \A i \in DOMAIN M_Buffer_slabs : PageOf(M_Buffer_slabs[i]) \in Dumped
    /\ alloc = "exited" /\ status = "FAILED_CONTIGUOUS_LOOKUP" /\ ~bopt.huge =>
         \A f \in Frames :
           \E g \in f..(f + PagesNeeded - 1) : \A p \in Dumped : FrameOf(p) # g

\* usage() of -a: "require physically contigous memory".
ContiguousAsAsked ==
  alloc = "ready" /\ bopt.cont /\ M_Buffer_size < U \div 2 =>
    \A p \in DataPages : p + 1 \in DataPages => FrameOf(p + 1) = FrameOf(p) + 1
=============================================================================
