---------------------------- MODULE SetupProofs -----------------------------
(* The data lies in memory that was allocated and wiped, and with -a in     *)
(* frames that follow one another, for every size of the data, the pages    *)
(* and the pool; the list of events is parsed as it was given, however long *)
(* it is; and what is proved of the parts of the setup, the parser, the     *)
(* pinning and the buffer, holds of main(), which runs them one after the   *)
(* other.                                                                   *)
EXTENDS Setup, PinningProofs, WellFoundedInduction, TLAPS

Sized == {"allocate", "initialize", "populate", "find", "offset", "ready"}
Wiped == {"populate", "find", "offset", "ready"}

\* What has to be added to the data.
Extra == IF bopt.huge THEN 0 ELSE PoolSize

\* The buffer was wiped from base on and then moved to the next page.
WipedFrom(base) ==
  /\ touched = PagesFrom(base, M_Pool_size)
  /\ base <= M_Buffer /\ M_Buffer <= base + (Page - 1)
  /\ bopt.huge => M_Buffer = base

BufferInv ==
  /\ bopt \in BufferCommands
  /\ alloc \in Sized =>
       /\ M_Buffer_size \in Nat /\ M_Pool_size \in Nat
       /\ M_Buffer_size < U \div 2 => M_Buffer_size + Extra <= M_Pool_size
  /\ alloc = "initialize" =>
       \E skew \in 0..(Page - 1) : M_Buffer = Page + skew /\ (bopt.huge => skew = 0)
  /\ alloc \in Wiped => M_Buffer \in Nat /\ \E base \in Nat : WipedFrom(base)
  /\ alloc = "ready" => M_Start_address = M_Buffer + bopt.bufferoffset

-----------------------------------------------------------------------------
\* Remainders, and division by two.
LEMMA Remainder ==
  ASSUME NEW x \in Nat, NEW n \in Nat \ {0}
  PROVE  x % n \in 0..(n - 1) /\ (x < n => x % n = x)
BY SMTT(30)

LEMMA HalfOfU == U \div 2 \in Nat /\ U \div 2 <= U
BY BufferAssumption, SMTT(30)

\* Round_to_alignment() rounds up, by less than the alignment.
LEMMA Rounding ==
  ASSUME NEW x \in Nat, NEW n \in Nat \ {0}, x + (n - 1) < S
  PROVE  /\ Round_to_alignment(x, n) \in Nat
         /\ x <= Round_to_alignment(x, n) /\ Round_to_alignment(x, n) <= x + (n - 1)
<1> DEFINE e == x + (n - 1)
           r == e % n
<1>1. e \in Nat /\ r \in 0..(n - 1)
  BY Remainder
<1>2. e - r \in Nat /\ e - r < S /\ S \in Nat \ {0}
  BY <1>1, BufferAssumption
<1>3. (e - r) % S = e - r
  BY <1>2, Remainder
<1>4. Round_to_alignment(x, n) = (e - r) % S
  BY DEF Round_to_alignment
<1> QED
  BY <1>1, <1>2, <1>3, <1>4

\* An address of the memory from base on is on one of its pages.
LEMMA OnPage ==
  ASSUME NEW base \in Nat, NEW size \in Nat, NEW a \in Nat, base <= a, a < base + size
  PROVE  PageOf(a) \in PagesFrom(base, size)
<1> DEFINE p == a \div Page
           q == (base + size) \div Page
<1> USE BufferAssumption
<1>1. /\ p \in Nat /\ p * Page <= a /\ a < (p + 1) * Page
  BY SMTT(30)
<1>2. /\ q \in Nat /\ base + size < (q + 1) * Page
  BY SMTT(30)
<1>3. p <= q
  <2> SUFFICES ASSUME q + 1 <= p PROVE FALSE
    BY <1>1, <1>2
  <2>1. (q + 1) * Page <= p * Page
    BY <1>1, <1>2, SMTT(30)
  <2> HIDE DEF p, q
  <2>2. p * Page \in Nat /\ (q + 1) * Page \in Nat
    BY <1>1, <1>2, SMTT(30)
  <2> QED
    BY <1>1, <1>2, <2>1, <2>2
<1>4. base < (p + 1) * Page /\ p * Page < base + size
  <2> HIDE DEF p
  <2>1. p * Page \in Nat /\ (p + 1) * Page \in Nat
    BY <1>1, SMTT(30)
  <2> QED
    BY <1>1, <2>1
<1>5. p \in 0..q
  BY <1>1, <1>2, <1>3
<1> QED
  BY <1>4, <1>5 DEF PagesFrom, PageOf

LEMMA BufferCommand ==
  ASSUME BufferInv
  PROVE  /\ bopt.dataset \in Nat /\ bopt.bufferfactor \in Nat /\ bopt.bufferoffset \in Nat
         /\ Logical_page_size \in Nat \ {0} /\ Extra \in Nat
         /\ Logical_page_size <= Page + LargePage
BY BufferAssumption DEF BufferInv, Logical_page_size, Extra

-----------------------------------------------------------------------------
\* The sizes that Setup_buffer() computes.
LEMMA Sizes ==
  ASSUME BufferInv, NEW size, size = AsSize((bopt.dataset * bopt.bufferfactor) % U)
  PROVE  /\ size \in Nat /\ PoolFor(size) \in Nat
         /\ size < U \div 2 => size + Extra <= PoolFor(size)
<1> DEFINE product == bopt.dataset * bopt.bufferfactor
<1>1. product \in Nat /\ U \in Nat \ {0} /\ S \in Nat \ {0} /\ U <= S
  BY BufferCommand, BufferAssumption
<1>2. product % U \in 0..(U - 1)
  BY <1>1, Remainder
<1> HIDE DEF product
<1>3. size \in Nat
  BY <1>1, <1>2 DEF AsSize, product
<1> DEFINE n == Logical_page_size
           sum == (Extra + size) % S
<1>4. PoolFor(size) = Round_to_alignment(sum, n)
  BY DEF PoolFor, Extra
<1>5. n \in Nat \ {0} /\ Extra \in Nat /\ Extra <= PoolSize /\ n <= Page + LargePage
  BY BufferCommand, BufferAssumption DEF Extra
<1>6. sum \in 0..(S - 1)
  <2>1. Extra + size \in Nat
    BY <1>3, <1>5
  <2> QED
    BY <1>1, <2>1, Remainder
<1> HIDE DEF n, sum
<1>7. PoolFor(size) \in Nat
  <2>1. sum + (n - 1) \in Nat
    BY <1>5, <1>6
  <2> DEFINE e == sum + (n - 1)
  <2>2. e % n \in 0..(n - 1) /\ e - (e % n) \in Int /\ n - 1 <= e
    <3>1. e % n \in 0..(n - 1)
      BY <1>5, <2>1, Remainder
    <3>2. sum \in Nat
      BY <1>6, <1>1
    <3> QED
      BY <1>5, <2>1, <3>1, <3>2
  <2>3. e - (e % n) \in Nat
    BY <1>5, <2>1, <2>2
  <2> DEFINE rounded == e - (e % n)
  <2>4. rounded % S \in Nat
    <3> HIDE DEF rounded
    <3> QED
      BY <1>1, <2>3, Remainder DEF rounded
  <2> QED
    BY <1>4, <2>4 DEF Round_to_alignment
<1>8. ASSUME size < U \div 2 PROVE size + Extra <= PoolFor(size)
  <2>1. size <= U
    BY <1>3, <1>8, HalfOfU, BufferAssumption
  <2>2. Extra + size \in Nat /\ Extra + size < S /\ Extra + size + (n - 1) < S
    BY <1>3, <1>5, <2>1, BufferAssumption
  <2>3. sum = Extra + size
    BY <1>1, <2>2, Remainder DEF sum
  <2> QED
    BY <1>3, <1>4, <1>5, <2>2, <2>3, Rounding
<1> QED
  BY <1>3, <1>7, <1>8

\* Aligning moves a buffer up, by less than a page, and a large one not at all.
LEMMA AlignedUp ==
  ASSUME BufferInv, alloc = "initialize"
  PROVE  /\ M_Buffer \in Nat /\ Aligned \in Nat
         /\ M_Buffer <= Aligned /\ Aligned <= M_Buffer + (Page - 1)
         /\ bopt.huge => Aligned = M_Buffer
<1>1. PICK skew \in 0..(Page - 1) : M_Buffer = Page + skew /\ (bopt.huge => skew = 0)
  BY DEF BufferInv
<1>2. Page \in Nat \ {0} /\ bopt.huge \in BOOLEAN
  BY BufferAssumption DEF BufferInv
<1>3. CASE bopt.huge
  <2>1. M_Buffer = Page
    BY <1>1, <1>2, <1>3
  <2>2. Page % Page = 0
    BY <1>2, SMTT(30)
  <2> QED
    BY <1>2, <1>3, <2>1, <2>2 DEF Aligned
<1>4. CASE ~bopt.huge
  <2>1. M_Buffer \in Nat /\ M_Buffer + (Page - 1) < S
    BY <1>1, <1>2, BufferAssumption
  <2>2. /\ Round_to_alignment(M_Buffer, Page) \in Nat
        /\ M_Buffer <= Round_to_alignment(M_Buffer, Page)
        /\ Round_to_alignment(M_Buffer, Page) <= M_Buffer + (Page - 1)
    BY <1>2, <2>1, Rounding
  <2> QED
    BY <1>2, <1>4, <2>1, <2>2 DEF Aligned, Logical_page_size
<1> QED
  BY <1>3, <1>4

LEMMA AllocInitInv == AllocInit => BufferInv
BY DEF AllocInit, BufferInv, Sized, Wiped

LEMMA AllocStepInv == BufferInv /\ AllocStep /\ UNCHANGED bopt => BufferInv'
<1> SUFFICES ASSUME BufferInv, AllocStep, UNCHANGED bopt PROVE BufferInv'
  OBVIOUS
<1> USE DEF Sized, Wiped, bufferVars, findVars
<1>0. Extra' = Extra
  BY DEF Extra
<1>1. CASE SetupBuffer
  <2>1. CASE alloc' = "exited"
    BY <2>1 DEF BufferInv
  <2>2. CASE alloc' # "exited"
    <3>1. /\ alloc' = "allocate" /\ M_Pool_size' = PoolFor(M_Buffer_size')
          /\ M_Buffer_size' = AsSize((bopt.dataset * bopt.bufferfactor) % U)
      BY <1>1, <2>2 DEF SetupBuffer, Exit
    <3> QED
      BY <1>0, <3>1, Sizes DEF BufferInv
  <2> QED
    BY <2>1, <2>2
<1>2. CASE Allocate_memory
  <2>1. CASE alloc' = "exited"
    BY <2>1 DEF BufferInv
  <2>2. CASE alloc' # "exited"
    <3>1. /\ alloc = "allocate" /\ alloc' = "initialize"
          /\ UNCHANGED <<M_Buffer_size, M_Pool_size>>
          /\ \E skew \in 0..(Page - 1) : (bopt.huge => skew = 0) /\ M_Buffer' = Page + skew
      BY <1>2, <2>2 DEF Allocate_memory, Exit
    <3> QED
      BY <1>0, <3>1 DEF BufferInv
  <2> QED
    BY <2>1, <2>2
<1>3. CASE Initialize
  <2>1. /\ alloc = "initialize" /\ alloc' \in {"populate", "offset"}
        /\ touched' = PagesFrom(M_Buffer, M_Pool_size)
        /\ M_Buffer' = Aligned /\ UNCHANGED <<M_Buffer_size, M_Pool_size>>
    BY <1>3 DEF Initialize
  <2>2. M_Buffer \in Nat
    BY <2>1, AlignedUp
  <2>3. /\ touched' = PagesFrom(M_Buffer, M_Pool_size') /\ M_Buffer' \in Nat
        /\ M_Buffer <= M_Buffer' /\ M_Buffer' <= M_Buffer + (Page - 1)
        /\ bopt'.huge => M_Buffer' = M_Buffer
    BY <2>1, AlignedUp
  <2> QED
    BY <1>0, <2>1, <2>2, <2>3 DEF BufferInv, WipedFrom, PagesFrom, PageOf
<1>4. ASSUME Populate \/ Find \/ Found PROVE BufferInv'
  <2>1. alloc \in Wiped /\ UNCHANGED bufferVars /\ alloc' \in {"exited", "undefined", "find", "offset"}
    BY <1>4 DEF Populate, Find, Found, Exit
  <2>2. ASSUME NEW base PROVE WipedFrom(base)' = WipedFrom(base)
    BY <2>1 DEF WipedFrom, PagesFrom, PageOf
  <2> QED
    BY <1>0, <2>1, <2>2 DEF BufferInv
<1>5. CASE SetBufferOffset
  <2>1. /\ alloc = "offset" /\ alloc' = "ready"
        /\ M_Start_address' = M_Buffer + bopt.bufferoffset
        /\ UNCHANGED <<M_Buffer_size, M_Pool_size, M_Buffer, touched>>
    BY <1>5 DEF SetBufferOffset
  <2>2. ASSUME NEW base PROVE WipedFrom(base)' = WipedFrom(base)
    BY <2>1 DEF WipedFrom, PagesFrom, PageOf
  <2> QED
    BY <1>0, <2>1, <2>2 DEF BufferInv
<1> QED
  BY <1>1, <1>2, <1>3, <1>4, <1>5 DEF AllocStep

LEMMA AllocStutterInv == BufferInv /\ UNCHANGED allocVars => BufferInv'
<1> SUFFICES ASSUME BufferInv, UNCHANGED allocVars PROVE BufferInv'
  OBVIOUS
<1>1. UNCHANGED <<bopt, alloc, M_Buffer_size, M_Pool_size, M_Buffer, M_Start_address, touched>>
  BY DEF allocVars, bufferVars
<1>2. ASSUME NEW base PROVE WipedFrom(base)' = WipedFrom(base)
  BY <1>1 DEF WipedFrom, PagesFrom, PageOf
<1> QED
  BY <1>1, <1>2 DEF BufferInv, Extra

\* Sizes, addresses and wiped pages agree from the first step to the last.
THEOREM BufferInvariant == AllocSpec => []BufferInv
<1>1. BufferInv /\ [AllocNext]_allocVars => BufferInv'
  BY AllocStepInv, AllocStutterInv DEF AllocNext
<1> QED
  BY AllocInitInv, <1>1, PTL DEF AllocSpec

-----------------------------------------------------------------------------
\* The data lies in memory that was allocated and wiped.
THEOREM Mapped == AllocSpec => []BufferMapped
<1>1. BufferInv => BufferMapped
  <2> SUFFICES ASSUME BufferInv, alloc = "ready", M_Buffer_size < U \div 2,
                      bopt.bufferoffset <= Slack,
                      NEW a \in M_Start_address..(M_Start_address + M_Buffer_size - 1)
               PROVE  PageOf(a) \in touched
    BY DEF BufferMapped
  <2>1. PICK base \in Nat : WipedFrom(base)
    BY DEF BufferInv, Wiped
  <2>2. /\ M_Buffer_size \in Nat /\ M_Pool_size \in Nat /\ M_Buffer \in Nat
        /\ M_Buffer_size + Extra <= M_Pool_size
        /\ M_Start_address = M_Buffer + bopt.bufferoffset
    BY DEF BufferInv, Sized, Wiped
  <2>3. bopt.bufferoffset \in Nat /\ bopt.huge \in BOOLEAN /\ Page \in Nat /\ PoolSize \in Nat
    BY BufferCommand, BufferAssumption DEF BufferInv
  <2>4. a \in Nat /\ base <= a
    BY <2>1, <2>2, <2>3 DEF WipedFrom
  <2>5. M_Start_address + M_Buffer_size <= base + M_Pool_size
    BY <2>1, <2>2, <2>3 DEF WipedFrom, Slack, Extra
  <2>6. a < base + M_Pool_size
    BY <2>2, <2>3, <2>4, <2>5
  <2> QED
    BY <2>1, <2>2, <2>4, <2>6, OnPage DEF WipedFrom
<1> QED
  BY BufferInvariant, <1>1, PTL
-----------------------------------------------------------------------------
(* The search for pages whose frames follow one another (option -a).        *)

\* An int that is no overflown one, and data there is.
DataSized == M_Buffer_size \in 1..(U \div 2)

\* The frames that Populate_frame_to_page_map() found, and where they count.
Mapped_frames == DOMAIN Tmp_slabs
Searching == {"find", "offset", "ready"}

\* The map leads from frames to pages of the buffer; 1 is no frame of it.
MapInv ==
  alloc \in Searching /\ bopt.cont =>
    /\ Mapped_frames \subseteq Nat \ {1}
    /\ \A f \in Mapped_frames :
         \E p \in Dumped : Tmp_slabs[f] = p * Page /\ FrameOf(p) = f
    /\ ~bopt.huge => Mapped_frames = {FrameOf(p) : p \in Dumped}

\* The slabs are a run of frames.
SlabsInv ==
  alloc \in Searching /\ bopt.cont =>
    /\ M_Buffer_slabs \in Seq(Int) /\ M_Buffer_slabs # <<>>
    /\ \A i \in DOMAIN M_Buffer_slabs :
         \E f \in Mapped_frames : M_Buffer_slabs[i] = Tmp_slabs[f]
    /\ \A i \in 1..(Len(M_Buffer_slabs) - 1) :
         FrameAt(M_Buffer_slabs[i + 1]) = FrameAt(M_Buffer_slabs[i]) + 1

\* How many pages are still required; the run ends at the last frame looked
\* at and could not have begun earlier, and none before it was long enough.
NoRun(f, frames) == \E g \in f..(f + PagesNeeded - 1) : g \notin frames
FindInv ==
  alloc = "find" /\ bopt.cont =>
    /\ Last_PFN \in Nat /\ Map_iterator \subseteq Mapped_frames
    /\ \A f \in Mapped_frames \ Map_iterator : f <= Last_PFN /\ \A g \in Map_iterator : f < g
    /\ \/ Map_iterator = Mapped_frames /\ Last_PFN = 0
       \/ Last_PFN \in Mapped_frames \ Map_iterator
    /\ Last_PFN = 0 => Len(M_Buffer_slabs) = 1
    /\ Last_PFN # 0 =>
         /\ FrameAt(M_Buffer_slabs[Len(M_Buffer_slabs)]) = Last_PFN
         /\ Last_PFN - Len(M_Buffer_slabs) \notin Mapped_frames
    /\ DataSized =>
         /\ Required_pages = PagesNeeded - Len(M_Buffer_slabs) /\ Required_pages >= 0
         /\ Required_pages # 0 =>
              \A f \in Frames : f + PagesNeeded - 1 <= Last_PFN => NoRun(f, Mapped_frames)

\* What the search comes to.
EndInv ==
  DataSized /\ bopt.cont =>
    /\ alloc \in {"offset", "ready"} => Len(M_Buffer_slabs) = PagesNeeded
    /\ alloc = "exited" /\ status = "FAILED_CONTIGUOUS_LOOKUP" /\ ~bopt.huge =>
         \A f \in Frames : NoRun(f, {FrameOf(p) : p \in Dumped})

ContInv == MapInv /\ SlabsInv /\ FindInv /\ EndInv

\* The pages that the data needs are at least one, and are counted exactly.
LEMMA NeededPages ==
  ASSUME bopt \in BufferCommands, DataSized
  PROVE  /\ PagesNeeded \in Nat \ {0} /\ (PagesNeeded - 1) % S = PagesNeeded - 1
<1> DEFINE n == Logical_page_size
           s == M_Buffer_size
           e == s + (n - 1)
           q == e \div n
<1>1. n \in Nat \ {0} /\ n <= Page + LargePage /\ Page \in Nat \ {0} /\ LargePage \in Nat \ {0}
  BY BufferAssumption DEF Logical_page_size
<1>2. s \in Nat \ {0} /\ s <= U
  BY HalfOfU, BufferAssumption DEF DataSized
<1>3. e \in Nat /\ e >= n /\ e < S /\ S \in Nat \ {0}
  BY <1>1, <1>2, BufferAssumption
<1> HIDE DEF n, s, e
<1>4. /\ q \in Nat /\ e % n \in 0..(n - 1) /\ e = n * q + (e % n)
  BY <1>1, <1>3, SMTT(30)
<1> HIDE DEF q
<1>5. q # 0 /\ q <= n * q /\ n * q \in Nat
  <2>1. n * q \in Nat /\ (q = 0 => n * q = 0)
    BY <1>1, <1>4, SMTT(30)
  <2>2. q <= n * q
    <3>1. (n - 1) * q \in Nat /\ n * q = q + (n - 1) * q
      BY <1>1, <1>4, SMTT(30)
    <3> QED BY <1>4, <2>1, <3>1
  <2> QED BY <1>1, <1>3, <1>4, <2>1, <2>2
<1>6. e - (e % n) = n * q /\ n * q < S
  BY <1>3, <1>4, <1>5
<1>7. Round_to_alignment(s, n) = n * q
  <2> DEFINE m == n * q
  <2>1. m \in Nat /\ m < S
    BY <1>5, <1>6
  <2> HIDE DEF m
  <2>2. m % S = m
    BY <1>3, <2>1, Remainder
  <2> QED BY <1>6, <2>2 DEF Round_to_alignment, e, m
<1>8. (n * q) \div n = q
  BY <1>1, <1>4, SMTT(30)
<1>9. PagesNeeded = q
  BY <1>7, <1>8 DEF PagesNeeded, n, s
<1>10. q - 1 \in Nat /\ q - 1 < S
  BY <1>3, <1>4, <1>5, <1>6
<1>11. (q - 1) % S = q - 1
  <2> DEFINE m == q - 1
  <2>1. m \in Nat /\ m < S
    BY <1>10
  <2> HIDE DEF m
  <2>2. m % S = m
    BY <1>3, <2>1, Remainder
  <2> QED BY <2>2 DEF m
<1> QED BY <1>4, <1>5, <1>9, <1>11

-----------------------------------------------------------------------------
LEMMA PageOfPage ==
  ASSUME NEW p \in Nat
  PROVE  PageOf(p * Page) = p /\ p * Page \in Nat
BY BufferAssumption, SMTT(30) DEF PageOf

\* A page that was written has a frame, none of the first two; the others
\* have frame 0.
LEMMA FramesOfMap ==
  ASSUME NEW map \in Mappings(touched), touched \subseteq Nat, NEW p
  PROVE  FrameIn(map, p) \in Nat \ {1} /\ DOMAIN map = touched
<1>1. Frames \subseteq Nat \ {0, 1} /\ HugeFrames \in Nat \ {0}
  BY BufferAssumption
<1>2. CASE bopt.huge
  <2> DEFINE H == HugeFrames
             Leads == {Lead(q) : q \in touched}
  <2>1. PICK head \in Injection(Leads, {f \in Frames : f % H = 0}) :
          map = [q \in touched |-> head[Lead(q)] + (q - Lead(q))]
    BY <1>2 DEF Mappings
  <2>2. \A l \in Leads : head[l] \in Nat \ {0, 1}
    BY <1>1 DEF Injection
  <2>3. ASSUME NEW q \in touched
        PROVE  map[q] \in Nat \ {0, 1}
    <3>1. Lead(q) \in Int /\ Lead(q) <= q /\ q \in Nat
      <4>1. q \in Nat /\ q - 1 \in Int
        OBVIOUS
      <4> DEFINE m == q - 1
      <4>2. (m \div H) * H \in Int /\ (m \div H) * H <= m
        BY <1>1, <4>1, SMTT(30)
      <4> QED BY <4>1, <4>2 DEF Lead
    <3>2. map[q] = head[Lead(q)] + (q - Lead(q)) /\ head[Lead(q)] \in Nat \ {0, 1}
      BY <2>1, <2>2
    <3> HIDE DEF Leads
    <3> QED BY <3>1, <3>2
  <2>4. DOMAIN map = touched
    BY <2>1
  <2>5. p \in touched => map[p] \in Nat \ {1}
    BY <2>3
  <2> QED BY <2>4, <2>5 DEF FrameIn
<1>3. CASE ~bopt.huge
  <2>1. map \in [touched -> Frames]
    BY <1>3 DEF Mappings, Injection
  <2>2. DOMAIN map = touched
    BY <2>1
  <2>3. p \in touched => map[p] \in Nat \ {1}
    BY <1>1, <2>1
  <2> QED BY <2>2, <2>3 DEF FrameIn
<1> QED BY <1>2, <1>3

\* What is computed from the command line, the buffer and its map stays.
LEMMA SameMap ==
  ASSUME UNCHANGED <<bopt, bufferVars, frame, Tmp_slabs>>
  PROVE  /\ Dumped' = Dumped /\ PagesNeeded' = PagesNeeded /\ DataSized' = DataSized
         /\ Mapped_frames' = Mapped_frames
         /\ \A p : FrameOf(p)' = FrameOf(p)
         /\ \A a : FrameAt(a)' = FrameAt(a)
         /\ \A f, F : NoRun(f, F)' = NoRun(f, F)
<1> USE DEF bufferVars
<1>1. PagesNeeded' = PagesNeeded
  BY DEF PagesNeeded, Logical_page_size, Round_to_alignment
<1>2. ASSUME NEW p PROVE FrameOf(p)' = FrameOf(p)
  BY DEF FrameOf, FrameIn
<1>3. ASSUME NEW a PROVE FrameAt(a)' = FrameAt(a)
  BY DEF FrameAt, FrameOf, FrameIn, PageOf
<1>4. ASSUME NEW f, NEW F PROVE NoRun(f, F)' = NoRun(f, F)
  BY <1>1 DEF NoRun
<1>5. Dumped' = Dumped
  BY DEF Dumped, PageOf
<1> QED BY <1>1, <1>2, <1>3, <1>4, <1>5 DEF DataSized, Mapped_frames

\* A slab is on the frame that the map has it for.
LEMMA SlabOnFrame ==
  ASSUME MapInv, alloc \in Searching, bopt.cont, NEW f \in Mapped_frames
  PROVE  /\ FrameAt(Tmp_slabs[f]) = f /\ Tmp_slabs[f] \in Nat
         /\ PageOf(Tmp_slabs[f]) \in Dumped
<1>1. PICK p \in Dumped : Tmp_slabs[f] = p * Page /\ FrameOf(p) = f
  BY DEF MapInv
<1>2. p \in Nat
  BY DEF Dumped
<1>3. PageOf(Tmp_slabs[f]) = p /\ Tmp_slabs[f] \in Nat
  BY <1>1, <1>2, PageOfPage
<1> QED BY <1>1, <1>3 DEF FrameAt

\* The map is made, and the run begins with its first frame.
LEMMA PopulateKeeps ==
  ASSUME BufferInv, Populate, UNCHANGED bopt
  PROVE  ContInv'
<1> DEFINE frames == {FrameIn(frame', p) : p \in Kept(frame')}
<1>1. CASE alloc' # "find"
  <2>1. /\ alloc' \in {"undefined", "exited"}
        /\ alloc' = "exited" => status' # "FAILED_CONTIGUOUS_LOOKUP"
    BY <1>1 DEF Populate, Exit
  <2> QED BY <2>1 DEF ContInv, MapInv, SlabsInv, FindInv, EndInv, Searching
<1>2. CASE alloc' = "find"
  <2>1. /\ alloc = "populate" /\ UNCHANGED bufferVars /\ frame' \in Mappings(touched)
        /\ Tmp_slabs' = [f \in frames |->
                           (CHOOSE p \in Kept(frame') : FrameIn(frame', p) = f) * Page]
        /\ Map_iterator' = DOMAIN Tmp_slabs' /\ Last_PFN' = 0
        /\ Required_pages' = (PagesNeeded - 1) % S
        /\ \E f \in DOMAIN Tmp_slabs' : M_Buffer_slabs' = <<Tmp_slabs'[f]>>
    BY <1>2 DEF Populate, Exit
  <2>2. Mapped_frames' = frames
    BY <2>1 DEF Mapped_frames
  <2>3. touched \subseteq Nat
    <3>1. PICK base \in Nat : WipedFrom(base)
      BY <2>1 DEF BufferInv, Wiped
    <3> QED BY <3>1 DEF WipedFrom, PagesFrom
  <2>4. \A p : FrameIn(frame', p) \in Nat \ {1}
    BY <2>1, <2>3, FramesOfMap
  <2>5. \A p : FrameOf(p)' = FrameIn(frame', p)
    BY <2>1 DEF FrameOf, FrameIn, bufferVars
  <2>6. Dumped' = Dumped /\ PagesNeeded' = PagesNeeded /\ DataSized' = DataSized
    BY <2>1 DEF Dumped, PageOf, PagesNeeded, Logical_page_size, Round_to_alignment,
         DataSized, bufferVars
  <2>7. ASSUME NEW f \in frames
        PROVE  \E p \in Dumped : Tmp_slabs'[f] = p * Page /\ FrameIn(frame', p) = f /\ p \in Nat
    <3> DEFINE q == CHOOSE p \in Kept(frame') : FrameIn(frame', p) = f
    <3>1. q \in Kept(frame') /\ FrameIn(frame', q) = f
      BY Zenon
    <3>2. q \in Dumped /\ q \in Nat
      BY <3>1 DEF Kept, Dumped
    <3>3. Tmp_slabs'[f] = q * Page
      BY <2>1
    <3> QED BY <3>1, <3>2, <3>3
  <2>8. ~bopt'.huge => frames = {FrameIn(frame', p) : p \in Dumped}
    <3>1. ~bopt.huge => Kept(frame') = Dumped
      BY DEF Kept
    <3> QED BY <3>1
  <2>9. PICK f \in frames : M_Buffer_slabs' = <<Tmp_slabs'[f]>>
    BY <2>1
  <2>10. Tmp_slabs'[f] \in Int
    BY <2>7, PageOfPage
  <2> HIDE DEF frames
  <2>11. MapInv'
    BY <2>2, <2>4, <2>5, <2>6, <2>7, <2>8 DEF MapInv, frames
  <2>12. SlabsInv'
    BY <2>2, <2>9, <2>10 DEF SlabsInv
  <2>13. FindInv'
    <3>1. /\ Last_PFN' \in Nat /\ Map_iterator' = Mapped_frames' /\ Last_PFN' = 0
          /\ Len(M_Buffer_slabs') = 1
      BY <2>1, <2>9 DEF Mapped_frames
    <3>2. ASSUME DataSized
          PROVE  /\ Required_pages' = PagesNeeded - Len(M_Buffer_slabs') /\ Required_pages' >= 0
                 /\ \A g \in Frames : ~(g + PagesNeeded - 1 <= 0)
      <4>1. PagesNeeded \in Nat \ {0} /\ (PagesNeeded - 1) % S = PagesNeeded - 1
        BY <3>2, NeededPages DEF BufferInv
      <4>2. Required_pages' = PagesNeeded - 1
        BY <2>1, <4>1
      <4>3. Frames \subseteq Nat \ {0, 1}
        BY BufferAssumption
      <4> QED BY <3>1, <4>1, <4>2, <4>3
    <3> QED BY <2>6, <3>1, <3>2 DEF FindInv
  <2>14. EndInv'
    BY <1>2 DEF EndInv
  <2> QED BY <2>11, <2>12, <2>13, <2>14 DEF ContInv
<1> QED BY <1>1, <1>2

-----------------------------------------------------------------------------
\* What a round of the search takes, and what it leaves of the frames.
LEMMA FindTakes ==
  ASSUME BufferInv, MapInv, SlabsInv, FindInv, bopt.cont, Find
  PROVE  \E PFN \in Mapped_frames :
           /\ PFN \in Nat \ {1} /\ PFN \in Map_iterator
           /\ Map_iterator' = Map_iterator \ {PFN} /\ Last_PFN' = PFN
           /\ \A f \in Map_iterator : PFN <= f
           /\ \A f \in Mapped_frames : f < PFN <=> f \notin Map_iterator
           /\ Last_PFN # 0 => Last_PFN < PFN
           /\ PFN # Last_PFN + 1 => PFN - 1 \notin Mapped_frames
           /\ PFN = Last_PFN + 1 => Last_PFN # 0
<1>1. alloc = "find" /\ alloc' = "find"
  BY DEF Find
<1>2. PICK PFN \in Map_iterator :
        /\ \A f \in Map_iterator : PFN <= f
        /\ Map_iterator' = Map_iterator \ {PFN} /\ Last_PFN' = PFN
  BY DEF Find
<1>3. /\ Last_PFN \in Nat /\ Map_iterator \subseteq Mapped_frames
      /\ \A f \in Mapped_frames \ Map_iterator : f <= Last_PFN /\ \A g \in Map_iterator : f < g
      /\ \/ Map_iterator = Mapped_frames /\ Last_PFN = 0
         \/ Last_PFN \in Mapped_frames \ Map_iterator
  BY <1>1 DEF FindInv
<1>4. Mapped_frames \subseteq Nat \ {1}
  BY <1>1 DEF MapInv, Searching
<1>5. \A f \in Mapped_frames : f < PFN <=> f \notin Map_iterator
  BY <1>2, <1>3, <1>4
<1>6. Last_PFN # 0 => Last_PFN < PFN
  BY <1>2, <1>3
<1>7. ASSUME PFN # Last_PFN + 1, PFN - 1 \in Mapped_frames
      PROVE  FALSE
  <2>1. PFN \in Nat /\ PFN - 1 \in Nat
    BY <1>2, <1>3, <1>4, <1>7
  <2>2. PFN - 1 \notin Map_iterator
    BY <1>5, <1>7, <2>1
  <2>3. PFN - 1 <= Last_PFN
    BY <1>3, <1>7, <2>2
  <2>4. Last_PFN # 0
    BY <1>4, <1>7, <2>1, <2>3, <1>3, <1>2
  <2> QED BY <1>3, <1>6, <1>7, <2>1, <2>3, <2>4
<1>8. PFN = Last_PFN + 1 => Last_PFN # 0
  BY <1>2, <1>3, <1>4
<1> QED BY <1>2, <1>3, <1>4, <1>5, <1>6, <1>7, <1>8

\* A round keeps the run maximal, and rules out the runs that end at its
\* frame if the one found is still too short.
LEMMA FindRules ==
  ASSUME NEW N \in Nat \ {0}, NEW D, D \subseteq Nat, NEW last \in Nat, NEW PFN \in Nat,
         NEW n \in Nat \ {0}, NEW m \in Nat,
         n < N, \A f \in D : f < PFN => f <= last,
         PFN - n \notin D,
         NEW f \in Nat,
         f + N - 1 <= last => \E g \in f..(f + N - 1) : g \notin D,
         f + N - 1 <= PFN
  PROVE  \E g \in f..(f + N - 1) : g \notin D
<1>1. CASE f + N - 1 <= last
  BY <1>1
<1>2. CASE last < f + N - 1 /\ f + N - 1 < PFN
  <2>1. f + N - 1 \in Nat /\ f + N - 1 \in f..(f + N - 1)
    OBVIOUS
  <2>2. f + N - 1 \notin D
    BY <1>2, <2>1
  <2> QED BY <2>1, <2>2
<1>3. CASE f + N - 1 = PFN
  <2>1. PFN - n \in f..(f + N - 1)
    BY <1>3
  <2> QED BY <2>1
<1> QED BY <1>1, <1>2, <1>3

LEMMA FindKeeps ==
  ASSUME BufferInv, ContInv, Find, UNCHANGED bopt
  PROVE  ContInv'
<1> DEFINE N == PagesNeeded
           D == Mapped_frames
           n == Len(M_Buffer_slabs)
<1>1. /\ alloc = "find" /\ alloc' = "find" /\ Required_pages # 0 /\ status' = status
      /\ UNCHANGED <<bopt, bufferVars, frame, Tmp_slabs>>
  BY DEF Find
<1>2. /\ Dumped' = Dumped /\ N' = N /\ DataSized' = DataSized /\ D' = D
      /\ \A p : FrameOf(p)' = FrameOf(p)
      /\ \A a : FrameAt(a)' = FrameAt(a)
      /\ \A f, F : NoRun(f, F)' = NoRun(f, F)
  BY <1>1, SameMap
<1> USE DEF ContInv, Searching
<1>3. MapInv'
  BY <1>1, <1>2 DEF MapInv
<1>4. EndInv'
  BY <1>1 DEF EndInv
<1>5. CASE ~bopt.cont
  BY <1>1, <1>3, <1>4, <1>5 DEF FindInv, SlabsInv
<1>6. CASE bopt.cont
  <2>1. PICK PFN \in D :
          /\ PFN \in Nat \ {1} /\ PFN \in Map_iterator
          /\ Map_iterator' = Map_iterator \ {PFN} /\ Last_PFN' = PFN
          /\ \A f \in Map_iterator : PFN <= f
          /\ \A f \in D : f < PFN <=> f \notin Map_iterator
          /\ Last_PFN # 0 => Last_PFN < PFN
          /\ PFN # Last_PFN + 1 => PFN - 1 \notin D
          /\ PFN = Last_PFN + 1 => Last_PFN # 0
    BY <1>6, FindTakes
  <2>2. /\ Last_PFN \in Nat /\ Map_iterator \subseteq D
        /\ \A f \in D \ Map_iterator : f <= Last_PFN
        /\ Last_PFN # 0 => /\ FrameAt(M_Buffer_slabs[n]) = Last_PFN
                           /\ Last_PFN - n \notin D
        /\ DataSized => /\ Required_pages = N - n /\ Required_pages >= 0
                        /\ \A f \in Frames : f + N - 1 <= Last_PFN => NoRun(f, D)
    BY <1>1, <1>6 DEF FindInv
  <2>3. /\ M_Buffer_slabs \in Seq(Int) /\ n \in Nat \ {0}
        /\ \A i \in 1..n : \E f \in D : M_Buffer_slabs[i] = Tmp_slabs[f]
        /\ \A i \in 1..(n - 1) :
             FrameAt(M_Buffer_slabs[i + 1]) = FrameAt(M_Buffer_slabs[i]) + 1
    <3>1. /\ M_Buffer_slabs \in Seq(Int) /\ M_Buffer_slabs # <<>>
          /\ \A i \in DOMAIN M_Buffer_slabs :
               \E f \in D : M_Buffer_slabs[i] = Tmp_slabs[f]
          /\ \A i \in 1..(Len(M_Buffer_slabs) - 1) :
               FrameAt(M_Buffer_slabs[i + 1]) = FrameAt(M_Buffer_slabs[i]) + 1
      BY <1>1, <1>6 DEF SlabsInv
    <3>2. DOMAIN M_Buffer_slabs = 1..n /\ n \in Nat \ {0}
      BY <3>1
    <3> HIDE DEF D
    <3> QED BY <3>1, <3>2
  <2>4. FrameAt(Tmp_slabs[PFN]) = PFN /\ Tmp_slabs[PFN] \in Int
    BY <1>1, <1>6, SlabOnFrame
  <2>5. D \subseteq Nat
    BY <1>1, <1>6 DEF MapInv
  <2>6. DataSized => N \in Nat \ {0} /\ (N - 1) % S = N - 1
    BY NeededPages DEF BufferInv
  <2> DEFINE m == Len(M_Buffer_slabs')
  <2>7. /\ M_Buffer_slabs' \in Seq(Int) /\ m \in Nat \ {0}
        /\ \A i \in 1..m : \E f \in D : M_Buffer_slabs'[i] = Tmp_slabs[f]
        /\ \A i \in 1..(m - 1) :
             FrameAt(M_Buffer_slabs'[i + 1]) = FrameAt(M_Buffer_slabs'[i]) + 1
        /\ M_Buffer_slabs'[m] = Tmp_slabs[PFN]
        /\ DataSized => Required_pages' = N - m /\ Required_pages' >= 0
        /\ PFN - m \notin D /\ (PFN = 0 => m = 1)
    <3>1. CASE PFN = Last_PFN + 1
      <4>1. /\ M_Buffer_slabs' = Append(M_Buffer_slabs, Tmp_slabs[PFN])
            /\ Required_pages' = Required_pages - 1
        BY <2>1, <3>1 DEF Find, Follows
      <4>2. /\ M_Buffer_slabs' \in Seq(Int) /\ m = n + 1
            /\ \A i \in 1..n : M_Buffer_slabs'[i] = M_Buffer_slabs[i]
            /\ M_Buffer_slabs'[n + 1] = Tmp_slabs[PFN]
        BY <2>3, <2>4, <4>1
      <4> HIDE DEF m, n
      <4>3. \A i \in 1..m : i = m \/ i \in 1..n
        BY <2>3, <4>2
      <4>4. \A i \in 1..(m - 1) : i = n \/ (i \in 1..(n - 1) /\ i + 1 \in 1..n)
        BY <2>3, <4>2
      <4>5. \A i \in 1..(m - 1) :
              FrameAt(M_Buffer_slabs'[i + 1]) = FrameAt(M_Buffer_slabs'[i]) + 1
        <5>1. n \in 1..n /\ \A i \in 1..(n - 1) : i \in 1..n
          BY <2>3
        <5>2. ASSUME NEW i \in 1..(m - 1)
              PROVE  FrameAt(M_Buffer_slabs'[i + 1]) = FrameAt(M_Buffer_slabs'[i]) + 1
          <6>1. CASE i = n
            BY <2>1, <2>2, <2>4, <3>1, <4>2, <5>1, <6>1
          <6>2. CASE i # n
            BY <2>3, <4>2, <4>4, <5>1, <6>2
          <6> QED BY <6>1, <6>2
        <5> QED BY <5>2
      <4>6. \A i \in 1..m : \E f \in D : M_Buffer_slabs'[i] = Tmp_slabs[f]
        <5>1. ASSUME NEW i \in 1..m
              PROVE  \E f \in D : M_Buffer_slabs'[i] = Tmp_slabs[f]
          <6>1. CASE i = m
            BY <4>2, <6>1
          <6>2. CASE i # m
            <7>1. i \in 1..n
              BY <4>3, <6>2
            <7> QED BY <2>3, <4>2, <7>1
          <6> QED BY <6>1, <6>2
        <5> QED BY <5>1
      <4>7. ASSUME DataSized
            PROVE  Required_pages' = N - m /\ Required_pages' >= 0
        <5>1. N \in Nat /\ Required_pages = N - n /\ Required_pages >= 0
          BY <2>2, <2>6, <4>7
        <5> HIDE DEF N
        <5> QED BY <1>1, <2>3, <4>1, <4>2, <5>1
      <4>8. PFN - m \notin D /\ PFN # 0
        <5>1. PFN - m = Last_PFN - n
          BY <2>2, <2>3, <3>1, <4>2
        <5> QED BY <2>1, <2>2, <3>1, <5>1
      <4> QED BY <2>3, <4>2, <4>5, <4>6, <4>7, <4>8
    <3>2. CASE PFN # Last_PFN + 1
      <4>1. /\ M_Buffer_slabs' = <<Tmp_slabs[PFN]>> /\ Required_pages' = (N - 1) % S
        BY <2>1, <3>2 DEF Find, Follows
      <4>2. M_Buffer_slabs' \in Seq(Int) /\ m = 1 /\ M_Buffer_slabs'[1] = Tmp_slabs[PFN]
        BY <2>4, <4>1
      <4>3. DataSized => Required_pages' = N - 1 /\ N - 1 >= 0
        BY <2>6, <4>1
      <4> HIDE DEF m, N
      <4>4. PFN - 1 \notin D
        BY <2>1, <3>2
      <4> QED BY <4>2, <4>3, <4>4
    <3> QED BY <3>1, <3>2
  <2> HIDE DEF m, n, D, N
  <2>8. SlabsInv'
    <3>1. /\ M_Buffer_slabs' # <<>> /\ DOMAIN M_Buffer_slabs' = 1..m
      BY <2>7 DEF m
    <3>2. \A i \in DOMAIN M_Buffer_slabs' : \E f \in D : M_Buffer_slabs'[i] = Tmp_slabs'[f]
      BY <1>1, <2>7, <3>1
    <3>3. \A i \in 1..(m - 1) :
            FrameAt(M_Buffer_slabs[i + 1])' = FrameAt(M_Buffer_slabs[i])' + 1
      <4>1. UNCHANGED <<frame, touched>>
        BY <1>1 DEF bufferVars
      <4> QED BY <2>7, <4>1 DEF FrameAt, FrameOf, FrameIn, PageOf
    <3> QED BY <1>1, <1>2, <1>6, <2>7, <3>1, <3>2, <3>3 DEF SlabsInv, m, D
  <2>9. ASSUME DataSized, Required_pages' # 0, NEW f \in Frames, f + N - 1 <= PFN
        PROVE  NoRun(f, D)
    <3>1. Frames \subseteq Nat
      BY BufferAssumption
    <3>2. m \in Nat \ {0} /\ m < N /\ N \in Nat \ {0}
      BY <2>6, <2>7, <2>9
    <3>3. \A g \in D : g < PFN => g <= Last_PFN
      BY <2>1, <2>2
    <3>4. f + N - 1 <= Last_PFN => \E g \in f..(f + N - 1) : g \notin D
      BY <2>2, <2>9 DEF NoRun, N
    <3>5. \E g \in f..(f + N - 1) : g \notin D
      BY <2>1, <2>2, <2>5, <2>7, <2>9, <3>1, <3>2, <3>3, <3>4, FindRules
    <3> QED BY <3>5 DEF NoRun, N
  <2>10. FindInv'
    <3>1. /\ Last_PFN' \in Nat /\ Map_iterator' \subseteq D
          /\ \A f \in D \ Map_iterator' : f <= Last_PFN' /\ \A g \in Map_iterator' : f < g
          /\ Last_PFN' \in D \ Map_iterator'
      BY <2>1, <2>2, <2>5
    <3> QED BY <1>1, <1>2, <2>1, <2>4, <2>7, <2>9, <3>1 DEF FindInv, m, D, N
  <2> QED BY <1>3, <1>4, <2>8, <2>10
<1> QED BY <1>5, <1>6

-----------------------------------------------------------------------------
\* The search ends with a run that is long enough, or with all frames looked
\* at.
LEMMA FoundKeeps ==
  ASSUME BufferInv, ContInv, Found, UNCHANGED bopt
  PROVE  ContInv'
<1> DEFINE N == PagesNeeded
           D == Mapped_frames
           n == Len(M_Buffer_slabs)
<1>1. /\ alloc = "find" /\ alloc' \in {"offset", "exited"}
      /\ UNCHANGED <<bopt, bufferVars, frame, Tmp_slabs, M_Buffer_slabs>>
      /\ alloc' = "offset" => Required_pages = 0
      /\ alloc' = "exited" => Required_pages # 0 /\ Map_iterator = {}
  BY DEF Found, Exit, findVars
<1>2. /\ Dumped' = Dumped /\ N' = N /\ DataSized' = DataSized /\ D' = D
      /\ \A p : FrameOf(p)' = FrameOf(p)
      /\ \A a : FrameAt(a)' = FrameAt(a)
      /\ \A f, F : NoRun(f, F)' = NoRun(f, F)
  BY <1>1, SameMap
<1> USE DEF ContInv, Searching
<1>3. MapInv' /\ FindInv'
  BY <1>1, <1>2 DEF MapInv, FindInv
<1>4. SlabsInv'
  <2>1. UNCHANGED <<frame, touched>>
    BY <1>1 DEF bufferVars
  <2> QED BY <1>1, <2>1 DEF SlabsInv, FrameAt, FrameOf, FrameIn, PageOf, Mapped_frames
<1>5. ASSUME DataSized, bopt.cont
      PROVE  /\ N \in Nat \ {0} /\ Required_pages = N - n /\ n \in Nat
             /\ alloc' = "exited" => \A f \in Frames : NoRun(f, D)
  <2>1. /\ N \in Nat \ {0} /\ n \in Nat
    BY <1>1, <1>5, NeededPages DEF BufferInv, SlabsInv
  <2>2. /\ Required_pages = N - n /\ Last_PFN \in Nat
        /\ \A f \in D \ Map_iterator : f <= Last_PFN
        /\ Required_pages # 0 => \A f \in Frames : f + N - 1 <= Last_PFN => NoRun(f, D)
    BY <1>1, <1>5 DEF FindInv
  <2>3. ASSUME alloc' = "exited", NEW f \in Frames, ~(f + N - 1 <= Last_PFN)
        PROVE  NoRun(f, D)
    <3> DEFINE g == f + N - 1
    <3>1. f \in Nat
      BY BufferAssumption
    <3>2. \A h \in D : h <= Last_PFN
      BY <1>1, <2>2, <2>3
    <3>3. D \subseteq Nat
      BY <1>1, <1>5 DEF MapInv
    <3> HIDE DEF N, D
    <3>4. g \in f..(f + N - 1)
      BY <2>1, <3>1
    <3>5. g \notin D
      BY <2>1, <2>2, <2>3, <3>1, <3>2, <3>3
    <3> QED BY <3>4, <3>5 DEF NoRun, N
  <2> QED BY <1>1, <2>1, <2>2, <2>3
<1>6. EndInv'
  <2> SUFFICES ASSUME DataSized, bopt.cont
               PROVE  /\ alloc' = "offset" => n = N
                      /\ alloc' = "exited" /\ ~bopt.huge =>
                           \A f \in Frames : NoRun(f, {FrameOf(p) : p \in Dumped})
    <3>1. M_Buffer_slabs' = M_Buffer_slabs /\ bopt' = bopt
      BY <1>1
    <3>2. {FrameOf(p)' : p \in Dumped'} = {FrameOf(p) : p \in Dumped}
      BY <1>2
    <3> QED BY <1>1, <1>2, <3>1, <3>2 DEF EndInv
  <2>1. alloc' = "offset" => n = N
    <3>1. N \in Nat /\ n \in Nat /\ Required_pages = N - n
      BY <1>5
    <3> HIDE DEF N, n
    <3> QED BY <1>1, <3>1
  <2>2. ~bopt.huge => D = {FrameOf(p) : p \in Dumped}
    BY <1>1 DEF MapInv
  <2> QED BY <1>5, <2>1, <2>2
<1> QED BY <1>3, <1>4, <1>6

\* Nothing else touches the slabs.
LEMMA RestKeeps ==
  ASSUME ContInv, UNCHANGED bopt,
         \/ SetupBuffer \/ Allocate_memory \/ Initialize
         \/ SetBufferOffset \/ UNCHANGED allocVars
  PROVE  ContInv'
<1> USE DEF ContInv, Searching
<1>1. CASE SetupBuffer \/ Allocate_memory \/ Initialize
  <2>1. /\ alloc' \notin {"find", "ready"} /\ (alloc' = "offset" => ~bopt'.cont)
        /\ alloc' = "exited" => status' # "FAILED_CONTIGUOUS_LOOKUP"
    BY <1>1 DEF SetupBuffer, Allocate_memory, Initialize, Exit
  <2> QED BY <2>1 DEF MapInv, SlabsInv, FindInv, EndInv
<1>2. CASE SetBufferOffset \/ UNCHANGED allocVars
  <2>1. /\ UNCHANGED <<bopt, frame, Tmp_slabs, M_Buffer_slabs, Map_iterator, Last_PFN, Required_pages>>
        /\ UNCHANGED <<M_Buffer_size, M_Pool_size, M_Buffer, touched, status>>
        /\ alloc' = alloc \/ (alloc = "offset" /\ alloc' = "ready")
    BY <1>2 DEF SetBufferOffset, allocVars, bufferVars, findVars
  <2>2. /\ Dumped' = Dumped /\ PagesNeeded' = PagesNeeded /\ DataSized' = DataSized
        /\ Mapped_frames' = Mapped_frames
    BY <2>1 DEF Dumped, PagesNeeded, DataSized, Mapped_frames, Logical_page_size,
         Round_to_alignment, PageOf
  <2>3. MapInv'
    BY <2>1, <2>2 DEF MapInv, FrameOf, FrameIn
  <2>4. SlabsInv'
    BY <2>1, <2>2 DEF SlabsInv, FrameAt, FrameOf, FrameIn, PageOf
  <2>5. FindInv'
    BY <2>1, <2>2 DEF FindInv, FrameAt, FrameOf, FrameIn, PageOf, NoRun
  <2>6. EndInv'
    BY <2>1, <2>2 DEF EndInv, FrameOf, FrameIn, NoRun
  <2> QED BY <2>3, <2>4, <2>5, <2>6
<1> QED BY <1>1, <1>2

\* The run of frames that the search has found so far is one, and no run that
\* it left behind was long enough.
THEOREM ContInvariant == AllocSpec => []ContInv
<1>1. AllocInit => ContInv
  BY DEF AllocInit, ContInv, MapInv, SlabsInv, FindInv, EndInv, Searching
<1>2. BufferInv /\ ContInv /\ [AllocNext]_allocVars => ContInv'
  <2> SUFFICES ASSUME BufferInv, ContInv, [AllocNext]_allocVars PROVE ContInv'
    OBVIOUS
  <2>1. UNCHANGED bopt
    BY DEF AllocNext, allocVars
  <2> QED BY <2>1, PopulateKeeps, FindKeeps, FoundKeeps, RestKeeps, Zenon DEF AllocNext, AllocStep
<1> QED BY <1>1, <1>2, BufferInvariant, PTL DEF AllocSpec

\* With -a the slabs are as many pages of the buffer as the data needs, and
\* their frames follow one another; and the search fails only if there is no
\* such run.
THEOREM SlabsContiguous == AllocSpec => []ContiguousSlabs
<1>1. ContInv => ContiguousSlabs
  <2> SUFFICES ASSUME ContInv, bopt.cont, DataSized
               PROVE  /\ alloc = "ready" =>
                           /\ Len(M_Buffer_slabs) = PagesNeeded
                           /\ \A i \in 1..(Len(M_Buffer_slabs) - 1) :
                                FrameAt(M_Buffer_slabs[i + 1]) = FrameAt(M_Buffer_slabs[i]) + 1
                           /\ \A i \in DOMAIN M_Buffer_slabs : PageOf(M_Buffer_slabs[i]) \in Dumped
                      /\ alloc = "exited" /\ status = "FAILED_CONTIGUOUS_LOOKUP" /\ ~bopt.huge =>
                           \A f \in Frames :
                             \E g \in f..(f + PagesNeeded - 1) : \A p \in Dumped : FrameOf(p) # g
    BY DEF ContiguousSlabs, DataSized
  <2> USE DEF ContInv
  <2>1. ASSUME alloc = "ready"
        PROVE  /\ Len(M_Buffer_slabs) = PagesNeeded
               /\ \A i \in 1..(Len(M_Buffer_slabs) - 1) :
                    FrameAt(M_Buffer_slabs[i + 1]) = FrameAt(M_Buffer_slabs[i]) + 1
    BY <2>1 DEF EndInv, SlabsInv, Searching
  <2>2. ASSUME alloc = "ready", NEW i \in DOMAIN M_Buffer_slabs
        PROVE  PageOf(M_Buffer_slabs[i]) \in Dumped
    <3>1. PICK f \in Mapped_frames : M_Buffer_slabs[i] = Tmp_slabs[f]
      BY <2>2 DEF SlabsInv, Searching
    <3> QED BY <2>2, <3>1, SlabOnFrame DEF Searching
  <2>3. ASSUME alloc = "exited", status = "FAILED_CONTIGUOUS_LOOKUP", ~bopt.huge, NEW f \in Frames
        PROVE  \E g \in f..(f + PagesNeeded - 1) : \A p \in Dumped : FrameOf(p) # g
    <3>1. NoRun(f, {FrameOf(p) : p \in Dumped})
      BY <2>3 DEF EndInv
    <3> QED BY <3>1 DEF NoRun
  <2> QED BY <2>1, <2>2, <2>3
<1> QED BY <1>1, ContInvariant, PTL

-----------------------------------------------------------------------------
(* The list of events.                                                      *)

\* Induction over the naturals is the existence of a least counterexample.
LEMMA Least ==
  ASSUME NEW T \in SUBSET Nat, T # {}
  PROVE  \E n \in T : \A m \in T : n <= m
<1> DEFINE Less == {p \in Nat \X Nat : p[1] < p[2]}
<1>1. IsWellFoundedOn(Less, Nat)
  BY NatLessThanWellFounded, Zenon DEF OpToRel
<1>2. PICK n \in T : \A m \in T : ~(<<m, n>> \in Less)
  <2> HIDE DEF Less
  <2> QED BY <1>1, WFMin, Zenon
<1>3. ASSUME NEW m \in T PROVE n <= m
  <2>1. ~(<<m, n>> \in Less) /\ m \in Nat /\ n \in Nat /\ <<m, n>> \in Nat \X Nat
    BY <1>2
  <2>2. ~(m < n)
    BY <2>1
  <2> QED BY <2>1, <2>2
<1> QED BY <1>3

LEMMA Upwards ==
  ASSUME NEW N \in Nat, NEW T, 0 \in T, \A n \in 0..(N - 1) : n \in T => n + 1 \in T
  PROVE  0..N \subseteq T
<1> DEFINE Rest == {n \in 0..N : n \notin T}
<1> SUFFICES ASSUME Rest # {} PROVE FALSE
  OBVIOUS
<1>1. PICK n \in Rest : \A m \in Rest : n <= m
  <2>1. Rest \in SUBSET Nat
    OBVIOUS
  <2> HIDE DEF Rest
  <2> QED BY <2>1, Least
<1>2. n \in 0..N /\ n \notin T /\ n # 0
  BY <1>1
<1>3. n - 1 \in 0..(N - 1) /\ n - 1 \notin Rest
  BY <1>1, <1>2
<1>4. n - 1 \in T
  BY <1>3
<1> QED BY <1>2, <1>3, <1>4

\* The positions of the events among the first i tokens, for every i.
IsEvent(i) == list[i] \in {"raw", "test", "code"}
Reads(E, k) ==
  E = [i \in 0..k |-> IF i = 0 THEN <<>>
                      ELSE IF IsEvent(i) THEN Append(E[i - 1], i)
                      ELSE E[i - 1]]
Upto == CHOOSE E : Reads(E, Len(list))

LEMMA ReadsAll ==
  ASSUME list \in Seq(Kinds)
  PROVE  /\ Reads(Upto, Len(list)) /\ EventsAt = Upto[Len(list)]
<1> DEFINE L == Len(list)
           T == {k \in 0..L : \E E : Reads(E, k)}
<1>1. L \in Nat
  OBVIOUS
<1>2. 0 \in T
  <2> DEFINE E == [i \in 0..0 |-> <<>>]
  <2>1. Reads(E, 0)
    BY DEF Reads
  <2> HIDE DEF E
  <2> QED BY <1>1, <2>1
<1>3. ASSUME NEW k \in 0..(L - 1), k \in T
      PROVE  k + 1 \in T
  <2>1. PICK E : Reads(E, k)
    BY <1>3
  <2> DEFINE j == k + 1
             G == [i \in 0..j |-> IF i = j THEN (IF IsEvent(j) THEN Append(E[k], j) ELSE E[k])
                                  ELSE E[i]]
  <2>2. j \in 0..L /\ k \in Nat /\ j - 1 = k /\ j # 0
    BY <1>1
  <2>3. ASSUME NEW i \in 0..j
        PROVE  G[i] = IF i = 0 THEN <<>>
                      ELSE IF IsEvent(i) THEN Append(G[i - 1], i) ELSE G[i - 1]
    <3>1. CASE i = j
      <4>1. G[i] = IF IsEvent(j) THEN Append(E[k], j) ELSE E[k]
        BY <3>1
      <4>2. G[k] = E[k]
        BY <2>2
      <4> HIDE DEF G
      <4> QED BY <2>2, <3>1, <4>1, <4>2
    <3>2. CASE i # j
      <4>1. i \in 0..k /\ (i = 0 \/ i - 1 \in 0..k) /\ i - 1 # j
        BY <2>2, <3>2
      <4>2. G[i] = E[i] /\ (i # 0 => G[i - 1] = E[i - 1])
        BY <2>2, <3>2, <4>1
      <4>3. E[i] = IF i = 0 THEN <<>>
                   ELSE IF IsEvent(i) THEN Append(E[i - 1], i) ELSE E[i - 1]
        BY <2>1, <4>1 DEF Reads
      <4> HIDE DEF G
      <4> QED BY <4>2, <4>3
    <3> QED BY <3>1, <3>2
  <2>4. G = [i \in 0..j |-> G[i]]
    OBVIOUS
  <2> HIDE DEF G
  <2>5. Reads(G, j)
    BY <2>3, <2>4 DEF Reads
  <2> QED BY <2>2, <2>5
<1> HIDE DEF T, L
<1>4. L \in T
  <2>1. 0..L \subseteq T
    BY <1>1, <1>2, <1>3, Upwards
  <2>2. L \in 0..L
    BY <1>1
  <2> QED BY <2>1, <2>2
<1>5. Reads(Upto, L)
  BY <1>4 DEF T, Upto, L
<1>6. EventsAt = Upto[L]
  BY Zenon DEF EventsAt, Upto, Reads, IsEvent, L
<1> QED BY <1>5, <1>6 DEF L

\* Token i adds itself or nothing, and the events do not become less.
LEMMA UptoStep ==
  ASSUME list \in Seq(Kinds)
  PROVE  /\ Upto[0] = <<>>
         /\ \A i \in 1..Len(list) :
              Upto[i] = IF IsEvent(i) THEN Append(Upto[i - 1], i) ELSE Upto[i - 1]
         /\ \A i \in 0..Len(list) :
              Upto[i] \in Seq(Nat) /\ Len(Upto[i]) <= Len(EventsAt)
<1> DEFINE L == Len(list)
<1>1. L \in Nat
  OBVIOUS
<1>2. Upto[0] = <<>> /\ \A i \in 1..L :
        Upto[i] = IF IsEvent(i) THEN Append(Upto[i - 1], i) ELSE Upto[i - 1]
  <2>1. Reads(Upto, L)
    BY ReadsAll
  <2> HIDE DEF L
  <2>2. Upto[0] = <<>>
    BY <1>1, <2>1 DEF Reads
  <2>3. ASSUME NEW i \in 1..L
        PROVE  Upto[i] = IF IsEvent(i) THEN Append(Upto[i - 1], i) ELSE Upto[i - 1]
    <3>1. i \in 0..L /\ i # 0
      BY <1>1
    <3> QED BY <2>1, <3>1 DEF Reads
  <2> QED BY <2>2, <2>3
<1>3. \A i \in 0..L : Upto[i] \in Seq(Nat)
  <2> DEFINE T == {i \in 0..L : Upto[i] \in Seq(Nat)}
  <2> HIDE DEF L
  <2>1. 0 \in T
    <3>1. Upto[0] \in Seq(Nat) /\ 0 \in 0..L
      BY <1>1, <1>2
    <3> QED BY <3>1
  <2>2. ASSUME NEW k \in 0..(L - 1), k \in T
        PROVE  k + 1 \in T
    <3> DEFINE j == k + 1
    <3>1. j \in 1..L /\ j - 1 = k /\ j \in Nat /\ j \in 0..L
      BY <1>1
    <3> HIDE DEF j
    <3>2. Upto[j] = IF IsEvent(j) THEN Append(Upto[k], j) ELSE Upto[k]
      BY <1>2, <3>1
    <3>3. Upto[j] \in Seq(Nat)
      BY <2>2, <3>1, <3>2
    <3> QED BY <3>1, <3>3 DEF j
  <2> HIDE DEF T
  <2>3. 0..L \subseteq T
    BY <1>1, <2>1, <2>2, Upwards
  <2> QED BY <2>3 DEF T
<1>4. ASSUME NEW i \in 0..L
      PROVE  Len(Upto[i]) <= Len(Upto[L])
  <2> DEFINE m == L - i
             T == {k \in 0..m : Len(Upto[i]) <= Len(Upto[i + k])}
  <2> HIDE DEF L
  <2>1. m \in Nat /\ i + 0 = i /\ i + m = L
    BY <1>1
  <2>2. 0 \in T
    BY <1>1, <1>3, <2>1
  <2>3. ASSUME NEW k \in 0..(m - 1), k \in T
        PROVE  k + 1 \in T
    <3> DEFINE j == i + (k + 1)
               p == i + k
    <3>1. j \in 1..L /\ j - 1 = p /\ p \in 0..L /\ j \in 0..L /\ k + 1 \in 0..m
      BY <1>1
    <3>2. Len(Upto[i]) <= Len(Upto[p])
      BY <2>3
    <3> HIDE DEF j, p
    <3>3. Upto[j] = IF IsEvent(j) THEN Append(Upto[p], j) ELSE Upto[p]
      BY <1>2, <3>1
    <3>4. Upto[p] \in Seq(Nat) /\ Upto[i] \in Seq(Nat)
      BY <1>3, <3>1
    <3>5. Len(Upto[j]) \in {Len(Upto[p]), Len(Upto[p]) + 1}
      BY <3>3, <3>4
    <3>6. Len(Upto[p]) \in Nat /\ Len(Upto[i]) \in Nat
      BY <3>4
    <3>7. Len(Upto[i]) <= Len(Upto[j])
      <4> DEFINE x == Len(Upto[i])
                 y == Len(Upto[p])
                 z == Len(Upto[j])
      <4>1. x \in Nat /\ y \in Nat /\ z \in {y, y + 1} /\ x <= y
        BY <3>2, <3>5, <3>6
      <4> HIDE DEF x, y, z
      <4>2. x <= z
        BY <4>1
      <4> QED BY <4>2 DEF x, z
    <3> QED BY <3>1, <3>7 DEF j
  <2> HIDE DEF T, m
  <2>4. m \in T
    <3>1. 0..m \subseteq T
      BY <2>1, <2>2, <2>3, Upwards
    <3>2. m \in 0..m
      BY <2>1
    <3> QED BY <3>1, <3>2
  <2> QED BY <2>1, <2>4 DEF T
<1>5. EventsAt = Upto[L]
  BY ReadsAll
<1> QED BY <1>2, <1>3, <1>4, <1>5 DEF L

-----------------------------------------------------------------------------
(* The loop over the tokens has taken, whenever it looks for another event, *)
(* exactly the events among the tokens before next, found nothing there     *)
(* that is ill-formed, and does not stand on the mask of an event id.       *)

\* The vector v holds the events at the positions e.
Holds(v, e) ==
  /\ v \in Seq([id : Nat, mask : Nat]) /\ Len(v) = Len(e)
  /\ \A n \in 1..Len(e) : v[n].id = e[n] /\ v[n].mask \in MaskFor(e[n])

\* Token i is one that may stand where it does.
InPlace(i) == list[i] # "junk" /\ (list[i] = "mask" => i > 1 /\ list[i - 1] = "code")

\* The tokens before p have become the events v, c of them.
TakenTo(p, c, v) ==
  /\ p \in 1..(Len(list) + 1)
  /\ c = Len(Upto[p - 1]) /\ c <= EventLimit
  /\ Holds(v, Upto[p - 1])
  /\ \A i \in 1..(p - 1) : InPlace(i)
  /\ p <= Len(list) /\ list[p] = "mask" => p = 1 \/ list[p - 1] # "code"
Taken == TakenTo(next, num_events, events)

ParserInv ==
  /\ list \in Seq(Kinds)
  /\ pc \in {"scan", "parsed", "exited"}
  /\ pc \in {"scan", "parsed"} => Taken
  /\ pc = "parsed" => next = Len(list) + 1
  /\ pc = "exited" => ~WellFormed \/ Len(EventsAt) > EventLimit

\* The vector after one more event is the one of one more position.
LEMMA VectorAppend ==
  ASSUME NEW v, NEW e \in Seq(Nat), Holds(v, e), NEW i \in 1..Len(list),
         NEW mask \in MaskFor(i), list \in Seq(Kinds)
  PROVE  Holds(Append(v, [id |-> i, mask |-> mask]), Append(e, i))
<1> DEFINE r == [id |-> i, mask |-> mask]
           w == Append(v, r)
           f == Append(e, i)
<1>1. mask \in Nat
  BY DEF MaskFor, Indeterminate
<1>2. r \in [id : Nat, mask : Nat] /\ r.id = i /\ r.mask = mask
  BY <1>1
<1> HIDE DEF r
<1>3. v \in Seq([id : Nat, mask : Nat]) /\ Len(v) = Len(e) /\ i \in Nat
  BY DEF Holds
<1>4. /\ w \in Seq([id : Nat, mask : Nat]) /\ Len(w) = Len(e) + 1 /\ w[Len(e) + 1] = r
      /\ \A n \in 1..Len(e) : w[n] = v[n]
  BY <1>2, <1>3
<1>5. Len(f) = Len(e) + 1 /\ f[Len(e) + 1] = i /\ \A n \in 1..Len(e) : f[n] = e[n]
  BY <1>3
<1> HIDE DEF w, f
<1>6. ASSUME NEW n \in 1..Len(f)
      PROVE  w[n].id = f[n] /\ w[n].mask \in MaskFor(f[n])
  <2>1. n = Len(e) + 1 \/ n \in 1..Len(e)
    <3>1. n \in 1..(Len(e) + 1) /\ Len(e) \in Nat
      BY <1>5
    <3> QED BY <3>1
  <2>2. CASE n = Len(e) + 1
    BY <1>2, <1>4, <1>5, <2>2
  <2>3. CASE n \in 1..Len(e)
    BY <1>4, <1>5, <2>3 DEF Holds
  <2> QED BY <2>1, <2>2, <2>3
<1>7. Holds(w, f)
  BY <1>4, <1>5, <1>6 DEF Holds
<1> QED BY <1>7 DEF w, f, r

\* The lists Init chooses from are sequences.
LEMMA ListIsSeq ==
  ASSUME NEW l \in UNION {[1..n -> Kinds] : n \in 0..MaxTokens}
  PROVE  l \in Seq(Kinds)
<1>1. PICK n \in 0..MaxTokens : l \in [1..n -> Kinds]
  OBVIOUS
<1>2. n \in Nat
  BY TokensAssumption
<1> QED BY <1>1, <1>2

LEMMA ParserInit == Init => ParserInv
<1> SUFFICES ASSUME Init PROVE ParserInv
  OBVIOUS
<1>1. list \in Seq(Kinds)
  BY ListIsSeq DEF Init
<1>2. Upto[0] = <<>>
  BY <1>1, UptoStep
<1>3. next = 1 /\ num_events = 0 /\ events = <<>> /\ pc = "scan"
  BY DEF Init
<1>4. Holds(<<>>, <<>>)
  BY DEF Holds
<1>5. Len(list) \in Nat /\ Len(<<>>) = 0
  BY <1>1
<1>6. Taken
  BY <1>2, <1>3, <1>4, <1>5 DEF Taken, TakenTo, EventLimit
<1> QED BY <1>1, <1>3, <1>6 DEF ParserInv

\* No step changes the list, nor what it means.
LEMMA SameList ==
  ASSUME UNCHANGED list
  PROVE  /\ Upto' = Upto /\ EventsAt' = EventsAt /\ WellFormed' = WellFormed
         /\ Taken' = TakenTo(next', num_events', events')
<1>1. Upto' = Upto
  BY DEF Upto, Reads, IsEvent
<1>2. EventsAt' = EventsAt
  BY Zenon DEF EventsAt
<1>3. WellFormed' = WellFormed
  BY Zenon DEF WellFormed
<1>4. Taken' = TakenTo(next', num_events', events')
  BY <1>1 DEF Taken, TakenTo, Holds, InPlace, MaskFor, Indeterminate, Token
<1> QED BY <1>1, <1>2, <1>3, <1>4

LEMMA OutOfPlace ==
  ASSUME list \in Seq(Kinds), Taken, next <= Len(list), list[next] \in {"mask", "junk"}
  PROVE  ~WellFormed
<1>1. next \in DOMAIN list
  BY DEF Taken, TakenTo
<1>2. CASE list[next] = "junk"
  BY <1>1, <1>2 DEF WellFormed
<1>3. CASE list[next] = "mask"
  <2>1. next = 1 \/ list[next - 1] # "code"
    BY <1>3 DEF Taken, TakenTo
  <2> QED BY <1>1, <1>3, <2>1 DEF WellFormed
<1> QED BY <1>2, <1>3

\* An event more than the limit is one of a list with too many of them.
LEMMA OneTooMany ==
  ASSUME ParserInv, TooMany
  PROVE  ~WellFormed \/ Len(EventsAt) > EventLimit
<1> SUFFICES ASSUME WellFormed PROVE Len(EventsAt) > EventLimit
  OBVIOUS
<1>1. list \in Seq(Kinds) /\ Taken /\ next <= Len(list) /\ ~Room
  BY DEF ParserInv, TooMany
<1>2. next \in 1..Len(list) /\ list[next] \in Kinds
  BY <1>1 DEF Taken, TakenTo
<1>3. IsEvent(next)
  BY <1>1, <1>2, OutOfPlace DEF Kinds, IsEvent
<1>4. Upto[next] = Append(Upto[next - 1], next)
  BY <1>1, <1>2, <1>3, UptoStep
<1>5. Upto[next - 1] \in Seq(Nat) /\ Len(Upto[next]) <= Len(EventsAt)
  <2>1. next - 1 \in 0..Len(list) /\ next \in 0..Len(list)
    BY <1>2
  <2> QED BY <1>1, <2>1, UptoStep
<1>6. num_events = Len(Upto[next - 1]) /\ num_events <= 4 /\ ~(num_events + 1 <= 4)
  BY <1>1 DEF Taken, TakenTo, Room, EventLimit
<1>7. Len(Upto[next]) = Len(Upto[next - 1]) + 1 /\ Len(Upto[next - 1]) \in Nat
  BY <1>4, <1>5
<1>8. EventsAt \in Seq(Nat)
  <2>1. Len(list) \in 0..Len(list)
    BY <1>1
  <2> QED BY <1>1, <2>1, UptoStep, ReadsAll
<1>9. Len(EventsAt) \in Nat
  BY <1>8
<1> QED
  <2> DEFINE x == Len(Upto[next - 1])
             y == Len(Upto[next])
             z == Len(EventsAt)
  <2>1. x \in Nat /\ y = x + 1 /\ y <= z /\ z \in Nat /\ ~(x + 1 <= 4)
    BY <1>5, <1>6, <1>7, <1>9
  <2> HIDE DEF x, y, z
  <2>2. z > 4
    BY <2>1
  <2> QED BY <2>2 DEF z, EventLimit

\* The events before the one that is pushed, and those with it.
LEMMA OneMore ==
  ASSUME ParserInv, Begin, IsEvent(next)
  PROVE  /\ next \in 1..Len(list) /\ Upto[next] = Append(Upto[next - 1], next)
         /\ num_events' = Len(Upto[next]) /\ num_events' <= EventLimit
         /\ \A mask \in MaskFor(next) :
              Holds(Append(events, [id |-> next, mask |-> mask]), Upto[next])
<1>1. list \in Seq(Kinds) /\ Taken /\ next <= Len(list) /\ Room
      /\ num_events' = num_events + 1
  BY DEF ParserInv, Begin
<1>2. next \in 1..Len(list) /\ next \in Nat
  BY <1>1 DEF Taken, TakenTo
<1>3. Upto[next] = Append(Upto[next - 1], next)
  BY <1>1, <1>2, UptoStep
<1>4. Upto[next - 1] \in Seq(Nat)
  <2>1. next - 1 \in 0..Len(list)
    BY <1>2
  <2> QED BY <1>1, <2>1, UptoStep
<1>5. num_events = Len(Upto[next - 1]) /\ Holds(events, Upto[next - 1])
  BY <1>1 DEF Taken, TakenTo
<1>6. ASSUME NEW mask \in MaskFor(next)
      PROVE  Holds(Append(events, [id |-> next, mask |-> mask]), Upto[next])
  <2>1. Holds(Append(events, [id |-> next, mask |-> mask]), Append(Upto[next - 1], next))
    BY <1>1, <1>2, <1>4, <1>5, VectorAppend
  <2> QED BY <1>3, <2>1
<1>7. num_events' = Len(Upto[next])
  BY <1>1, <1>3, <1>4, <1>5
<1> QED BY <1>1, <1>2, <1>3, <1>6, <1>7 DEF Room

\* An event that is one token.
LEMMA TakesOneToken ==
  ASSUME ParserInv, OneToken
  PROVE  ParserInv'
<1>1. /\ Begin /\ next <= Len(list) /\ Token(next) \in {"raw", "test"}
      /\ events' = Append(events, [id |-> next, mask |-> next])
      /\ next' = next + 1 /\ list' = list /\ pc' = pc /\ pc = "scan"
  BY DEF OneToken, Begin, Push
<1>2. list \in Seq(Kinds) /\ Taken
  BY <1>1 DEF ParserInv
<1>3. list[next] \in {"raw", "test"} /\ IsEvent(next)
  BY <1>1 DEF Token, IsEvent
<1>4. /\ next \in 1..Len(list) /\ num_events' = Len(Upto[next]) /\ num_events' <= EventLimit
      /\ \A mask \in MaskFor(next) :
           Holds(Append(events, [id |-> next, mask |-> mask]), Upto[next])
  BY <1>1, <1>3, OneMore
<1>5. Holds(events', Upto[next])
  <2>1. next \in MaskFor(next)
    BY <1>3 DEF MaskFor
  <2> QED BY <1>1, <1>4, <2>1
<1>6. next' - 1 = next /\ next' \in 1..(Len(list) + 1)
  BY <1>1, <1>4
<1>7. \A i \in 1..(next' - 1) : InPlace(i)
  <2> SUFFICES ASSUME NEW i \in 1..next PROVE InPlace(i)
    BY <1>6
  <2>1. i \in 1..(next - 1) \/ i = next
    BY <1>4
  <2> QED BY <2>1, <1>2, <1>3 DEF Taken, TakenTo, InPlace
<1>8. TakenTo(next', num_events', events')
  BY <1>1, <1>3, <1>4, <1>5, <1>6, <1>7 DEF TakenTo
<1>9. Taken'
  BY <1>1, <1>8, SameList
<1> QED BY <1>1, <1>2, <1>9 DEF ParserInv

\* An event id, with the mask behind it or without one.
LEMMA TakesCode ==
  ASSUME ParserInv, Code
  PROVE  ParserInv'
<1>1. /\ Begin /\ next <= Len(list) /\ Token(next) = "code"
      /\ \E mask \in MaskOfCode : events' = Append(events, [id |-> next, mask |-> mask])
      /\ next' = AfterCode /\ list' = list /\ pc' = pc /\ pc = "scan"
  BY DEF Code, Begin, Push
<1>2. list \in Seq(Kinds) /\ Taken
  BY <1>1 DEF ParserInv
<1>3. list[next] = "code" /\ IsEvent(next)
  BY <1>1 DEF Token, IsEvent
<1>4. /\ next \in 1..Len(list) /\ num_events' = Len(Upto[next]) /\ num_events' <= EventLimit
      /\ \A mask \in MaskFor(next) :
           Holds(Append(events, [id |-> next, mask |-> mask]), Upto[next])
  BY <1>1, <1>3, OneMore
<1>5. Holds(events', Upto[next])
  <2>1. MaskFor(next) = MaskOfCode
    BY <1>3 DEF MaskFor, MaskOfCode, MaskFollows
  <2> QED BY <1>1, <1>4, <2>1
<1>6. ASSUME NEW i \in 1..next
      PROVE  InPlace(i)
  <2>1. i \in 1..(next - 1) \/ i = next
    BY <1>4
  <2> QED BY <2>1, <1>2, <1>3 DEF Taken, TakenTo, InPlace
<1>7. TakenTo(next', num_events', events')
  <2>1. CASE MaskFollows
    <3>1. next + 1 \in 1..Len(list) /\ list[next + 1] = "mask"
      BY <2>1, <1>4 DEF MaskFollows, Token
    <3>2. next' = next + 2 /\ next' - 1 = next + 1 /\ (next + 1) - 1 = next
      BY <2>1, <1>1, <1>4 DEF AfterCode
    <3>3. Upto[next + 1] = Upto[next]
      <4>1. ~IsEvent(next + 1)
        BY <3>1 DEF IsEvent
      <4> QED BY <4>1, <3>1, <3>2, <1>2, UptoStep
    <3>4. InPlace(next + 1)
      BY <3>1, <3>2, <1>3, <1>4 DEF InPlace
    <3>5. \A i \in 1..(next' - 1) : InPlace(i)
      <4> SUFFICES ASSUME NEW i \in 1..(next + 1) PROVE InPlace(i)
        BY <3>2
      <4>1. i \in 1..next \/ i = next + 1
        BY <1>4
      <4> QED BY <4>1, <3>4, <1>6
    <3>6. next' \in 1..(Len(list) + 1)
      BY <3>1, <3>2, <1>4
    <3> QED BY <3>1, <3>2, <3>3, <3>5, <3>6, <1>1, <1>4, <1>5 DEF TakenTo
  <2>2. CASE ~MaskFollows
    <3>1. next' = next + 1 /\ next' - 1 = next /\ next' \in 1..(Len(list) + 1)
      BY <2>2, <1>1, <1>4 DEF AfterCode
    <3>2. ~(next' <= Len(list) /\ list[next'] = "mask")
      BY <2>2, <3>1 DEF MaskFollows, Token
    <3>3. \A i \in 1..(next' - 1) : InPlace(i)
      BY <3>1, <1>6
    <3> QED BY <3>1, <3>2, <3>3, <1>1, <1>4, <1>5 DEF TakenTo
  <2> QED BY <2>1, <2>2
<1>8. Taken'
  BY <1>1, <1>7, SameList
<1> QED BY <1>1, <1>2, <1>8 DEF ParserInv

LEMMA ParserNext == ParserInv /\ [Next]_vars => ParserInv'
<1> SUFFICES ASSUME ParserInv, [Next]_vars PROVE ParserInv'
  OBVIOUS
<1>1. CASE TooMany
  <2>1. ~WellFormed \/ Len(EventsAt) > EventLimit
    BY <1>1, OneTooMany
  <2>2. UNCHANGED list /\ pc' = "exited"
    BY <1>1 DEF TooMany
  <2>3. EventsAt' = EventsAt /\ WellFormed' = WellFormed
    BY <2>2, SameList
  <2> QED BY <2>1, <2>2, <2>3 DEF ParserInv, EventLimit
<1>2. CASE OneToken
  BY <1>2, TakesOneToken
<1>3. CASE Code
  BY <1>3, TakesCode
<1>4. CASE IllFormed
  <2>1. UNCHANGED list /\ pc' = "exited" /\ next <= Len(list) /\ pc = "scan"
        /\ list[next] \in {"mask", "junk"}
    BY <1>4 DEF IllFormed, Begin, Token
  <2>2. ~WellFormed
    BY <2>1, OutOfPlace DEF ParserInv
  <2>3. EventsAt' = EventsAt /\ WellFormed' = WellFormed
    BY <2>1, SameList
  <2> QED BY <2>1, <2>2, <2>3 DEF ParserInv
<1>5. CASE EndOfList
  <2>1. /\ pc = "scan" /\ pc' = "parsed" /\ next > Len(list)
        /\ UNCHANGED <<list, next, num_events, events>>
    BY <1>5 DEF EndOfList
  <2>2. list \in Seq(Kinds) /\ Taken
    BY <2>1 DEF ParserInv
  <2>3. Taken' /\ next = Len(list) + 1
    BY <2>1, <2>2, SameList DEF Taken, TakenTo
  <2> QED BY <2>1, <2>2, <2>3 DEF ParserInv
<1>6. CASE Terminated \/ UNCHANGED vars
  <2>1. UNCHANGED <<list, next, num_events, events, pc>>
    BY <1>6 DEF Terminated, vars
  <2>2. EventsAt' = EventsAt /\ WellFormed' = WellFormed /\ Taken' = Taken
    BY <2>1, SameList DEF Taken
  <2> QED BY <2>1, <2>2 DEF ParserInv, EventLimit
<1> QED BY <1>1, <1>2, <1>3, <1>4, <1>5, <1>6 DEF Next, Scan

\* The loop of parseEvents() keeps the account of the tokens it has left
\* behind.
THEOREM ParserInvariant == Spec => []ParserInv
<1> QED BY ParserInit, ParserNext, PTL DEF Spec

\* What parseEvents() returns is what the list says: every event once, each
\* with its own mask if it has one, from a well-formed list of no more than four.
THEOREM ParsesAsGiven == Spec => []ParsedAsGiven
<1>1. ASSUME ParserInv PROVE ParsedAsGiven
  <2> SUFFICES ASSUME pc = "parsed"
               PROVE  /\ WellFormed /\ Len(EventsAt) <= EventLimit
                      /\ Holds(events, EventsAt)
    BY DEF ParsedAsGiven, Holds
  <2>1. list \in Seq(Kinds) /\ Taken /\ next = Len(list) + 1
    BY <1>1 DEF ParserInv
  <2>2. next - 1 = Len(list) /\ DOMAIN list = 1..Len(list)
    BY <2>1
  <2>3. WellFormed
    BY <2>1, <2>2 DEF Taken, TakenTo, InPlace, WellFormed
  <2>4. EventsAt = Upto[next - 1]
    BY <2>1, <2>2, ReadsAll
  <2> QED BY <2>1, <2>3, <2>4 DEF Taken, TakenTo
<1> QED BY <1>1, ParserInvariant, PTL

\* A list parseEvents() refuses is ill-formed or has more than four events.
THEOREM RefusesWithReason == Spec => []RejectsWithReason
<1>1. ParserInv => RejectsWithReason
  BY DEF ParserInv, RejectsWithReason
<1> QED BY <1>1, ParserInvariant, PTL

-----------------------------------------------------------------------------
(* The setup as a whole: its steps are steps of its parts, in an order of   *)
(* their own, so what is proved of a part holds of main().                  *)

\* Parsing, starting and pinning take the steps of Pinning, whatever the
\* parser of events and the buffer do between them.
THEOREM SetupPins == SetupSpec => PinSpec
<1>1. SetupInit => PinInit
  BY DEF SetupInit
<1>2. [SetupNext]_setupVars => [PinNext]_pinVars
  BY DEF SetupNext, setupVars, ParseEvents, Usage, ReadOptions, ParsePinning,
       Configure_experiment, Setup_buffer, StartThreads, PinNext
<1> QED BY <1>1, <1>2, PTL DEF SetupSpec, PinSpec

\* Setup_buffer() is undisturbed by the steps before and after it.
THEOREM SetupAllocates == SetupSpec => AllocSpec
<1>1. SetupInit => AllocInit
  BY DEF SetupInit
<1>2. [SetupNext]_setupVars => [AllocNext]_allocVars
  BY DEF SetupNext, setupVars, ParseEvents, Usage, ReadOptions, ParsePinning,
       Configure_experiment, Setup_buffer, StartThreads, AllocNext
<1> QED BY <1>1, <1>2, PTL DEF SetupSpec, AllocSpec

\* parseEvents() is undisturbed by the options before and after its own.
THEOREM SetupParses == SetupSpec => Spec
<1>1. SetupInit => Init
  BY DEF SetupInit
<1>2. [SetupNext]_setupVars => [Next]_vars
  BY DEF SetupNext, setupVars, ParseEvents, Usage, ReadOptions, ParsePinning,
       Configure_experiment, Setup_buffer, StartThreads, Next
<1> QED BY <1>1, <1>2, PTL DEF SetupSpec, Spec

\* When main() starts the experiment, the events to count are those that were
\* given, the caches of every CPU that a worker can run on are wiped, the
\* threads are where they were asked to be, and the data lies in memory of the
\* process, in frames that follow one another if that was asked for.
THEOREM SetupSafe ==
  SetupSpec => [](/\ ParsedAsGiven /\ RejectsWithReason
                  /\ WipeCoversWorkers /\ PinnedAsAsked /\ OutOfBoundsOnlyWithoutC
                  /\ BufferMapped /\ ContiguousSlabs)
BY SetupPins, SetupAllocates, SetupParses, ParsesAsGiven, RefusesWithReason,
   WipeCovers, AsAsked, BoundsWithC, Mapped, SlabsContiguous, PTL
=============================================================================
