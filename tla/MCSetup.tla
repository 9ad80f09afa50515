------------------------------- MODULE MCSetup ------------------------------
(* Instances of Setup for TLC: one of the four parts is given every input,  *)
(* the others a plain one.                                                  *)
EXTENDS Setup

\* Lists of CPUs, of which 2 is not there and 3 is beyond CPU_SETSIZE.
PlainPin == [threads |-> <<2, 1>>, fibres |-> <<>>, individual |-> FALSE,
             main |-> <<1>>, items |-> <<>>]
Group(l) == [perThread |-> FALSE, lists |-> <<l>>]
Each(l) == [perThread |-> TRUE, lists |-> l]
ItemSet ==
  {Group(l) : l \in {<<>>, <<0>>, <<1>>, <<2>>, <<3>>, <<0, 1>>, <<1, 1>>, <<1, 2>>}}
    \cup {Each(<<l, m>>) : l, m \in {<<>>, <<0>>, <<1, 2>>, <<1, 1>>}}
AllPin ==
  {PlainPin} \cup
  [threads : {<<1>>, <<2>>, <<2, 1>>, <<0, 1>>}, fibres : {<<>>, <<2>>, <<1, 1>>, <<0, 0>>},
   individual : BOOLEAN, main : {<<>>, <<1>>, <<2>>},
   items : {<<>>} \cup {<<i>> : i \in ItemSet} \cup {<<i, j>> : i, j \in ItemSet}]

\* Sizes: a page is two units, the pool two pages, an int is below 16.
PlainBuffer == [dataset |-> 2, bufferfactor |-> 1, bufferoffset |-> 0, huge |-> FALSE,
                cont |-> FALSE, privileged |-> FALSE]
Huge == [PlainBuffer EXCEPT !.dataset = 8, !.huge = TRUE]
Cont(c) == [c EXCEPT !.cont = TRUE, !.privileged = TRUE]
AllBuffers == {
  PlainBuffer,
  \* up to the end of the pool, and beyond; no data; more than an int holds,
  \* and so much that less than the pool is allocated
  [PlainBuffer EXCEPT !.bufferoffset = 3],
  [PlainBuffer EXCEPT !.bufferoffset = 4],
  [PlainBuffer EXCEPT !.dataset = 0],
  [PlainBuffer EXCEPT !.dataset = 20],
  [PlainBuffer EXCEPT !.dataset = 20, !.bufferfactor = 2, !.bufferoffset = 3],
  [PlainBuffer EXCEPT !.dataset = 31],
  [Cont(PlainBuffer) EXCEPT !.dataset = 28],
  \* runs of one, two and three pages
  [PlainBuffer EXCEPT !.cont = TRUE],
  Cont(PlainBuffer),
  [Cont(PlainBuffer) EXCEPT !.dataset = 4],
  [Cont(PlainBuffer) EXCEPT !.dataset = 5],
  \* one large page, or two
  Huge, [Huge EXCEPT !.dataset = 0], [Huge EXCEPT !.dataset = 9],
  [Huge EXCEPT !.dataset = 6, !.bufferoffset = 2],
  Cont(Huge), [Cont(Huge) EXCEPT !.bufferfactor = 2] }
EightFrames == 2..9

\* Durations and sizes of a line below and at their limits, of which -1 is
\* far above, and options that getopt() turns down.
PlainLine == [options |-> TRUE, size |-> TRUE,
              duration |-> 1, loopfactor |-> 1, cacheline |-> 8]
AllLines ==
  [options : BOOLEAN, size : BOOLEAN,
   duration : {-1, 0, 1}, loopfactor : {-1, 0}, cacheline : {-1, 0, 7, 8}] \cup {PlainLine}

\* The starting CPUs are a choice where the pinning is varied.
MCInit ==
  /\ \/ cmd = PlainPin /\ bopt = Huge /\ line = PlainLine
     \/ list = <<>> /\ bopt = Huge /\ line = PlainLine
     \/ list = <<>> /\ cmd = PlainPin /\ line = PlainLine
     \/ list \in {<<>>, <<"raw">>} /\ cmd = PlainPin /\ bopt = Huge
  /\ SetupInit
  /\ cmd = PlainPin => started = Present
MCSpec == MCInit /\ [][SetupNext]_setupVars

\* -m without -C.
OnlyMain == {[PlainPin EXCEPT !.main = m] : m \in {<<>>, <<1>>}}
\* -a and two pages.
OnlyCont == {[Cont(PlainBuffer) EXCEPT !.dataset = 4]}
OnlyPlainPin == {PlainPin}
OnlyPlainLine == {PlainLine}
OnlyPlainBuffer == {PlainBuffer}
=============================================================================
