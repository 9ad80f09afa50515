-------------------------- MODULE MCFibreExperiment -------------------------
(***************************************************************************)
(* Instances of FibreExperiment for TLC.                                   *)
(***************************************************************************)
EXTENDS FibreExperiment, TLC

CONSTANTS w1, w2, w3

\* -T 1,1 -F 2,1: two subpaths with a worker each, three fibres.
PairNumSubpaths == 2
PairLength == (0 :> 2) @@ (1 :> 1)
PairClusterOf == (w1 :> 0) @@ (w2 :> 1)
PairNumFibres == 3
PairSubpathOf == (0 :> 0) @@ (1 :> 0) @@ (2 :> 1)

\* -T 2,1 -F 1,1: three workers for two fibres, one on each subpath.
WideClusterOf == (w1 :> 0) @@ (w2 :> 0) @@ (w3 :> 1)
WideLength == (0 :> 2) @@ (1 :> 3)
WideNumFibres == 2
WideSubpathOf == (0 :> 0) @@ (1 :> 1)
=============================================================================
