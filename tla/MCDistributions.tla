--------------------------- MODULE MCDistributions --------------------------
(* Command lines for Distributions.                                         *)
EXTENDS Distributions

Base == [type |-> "SUBPATH", numSubpaths |-> 2, dataset |-> 16, bufferfactor |-> 1,
         bufferoffset |-> 0, uniformLine |-> 2, cacheline |-> 2, zipf |-> FALSE,
         pool |-> 1, slabs |-> <<>>, pageLines |-> 2, seed |-> 1]
ZipfBase == [Base EXCEPT !.zipf = TRUE, !.dataset = 12, !.cacheline = 3]
Old == [Base EXCEPT !.numSubpaths = 1, !.dataset = 9, !.cacheline = 3]

AllCommands == {
  \* Uniform paths: two subpaths of four lines at an offset, three of two
  \* lines, one of three; seven lines for two subpaths; other lines; slabs.
  [Base EXCEPT !.bufferoffset = 3],
  [Base EXCEPT !.numSubpaths = 3, !.dataset = 12],
  [Base EXCEPT !.numSubpaths = 1, !.dataset = 6],
  [Base EXCEPT !.dataset = 14],
  [Base EXCEPT !.cacheline = 4],
  [Base EXCEPT !.slabs = <<16>>, !.pool = 4],
  \* Zipf paths: two subpaths of two lines of three words, one subpath of
  \* one line, which the rounds fill to the last word.
  ZipfBase,
  [ZipfBase EXCEPT !.bufferoffset = 1, !.numSubpaths = 1, !.dataset = 6],
  [ZipfBase EXCEPT !.numSubpaths = 1, !.dataset = 3],
  \* The older ones, with and without slabs in two pages behind the buffer.
  [Old EXCEPT !.type = "LINEAR", !.bufferoffset = 2],
  [Old EXCEPT !.type = "UNIFORM", !.bufferoffset = 2],
  [Old EXCEPT !.type = "UNIFORM", !.dataset = 2, !.cacheline = 2],
  [Old EXCEPT !.type = "UNIFORM", !.slabs = <<15, 9>>, !.pool = 12],
  [Old EXCEPT !.type = "UNIFORM", !.slabs = <<9>>, !.pool = 6],
  [Old EXCEPT !.type = "WUNI"],
  [Old EXCEPT !.type = "WUNI", !.bufferoffset = 1, !.dataset = 12],
  [Old EXCEPT !.type = "WUNI", !.dataset = 3],
  [Old EXCEPT !.type = "WUNI", !.slabs = <<9>>, !.pool = 6],
  [Old EXCEPT !.type = "ZIPF"],
  [Old EXCEPT !.type = "ZIPF", !.seed = 0] }

\* Option -b 2.
FactorCommands == {[Base EXCEPT !.dataset = 8, !.bufferfactor = 2]}

\* Two lines, the first drawn twice as often.
TwoWeights == <<6, 3, 2, 1>>
=============================================================================
