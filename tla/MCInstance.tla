----------------------------- MODULE MCInstance -----------------------------
(* An instance for TLC: CPUs that are there, one that is not, one beyond    *)
(* the set and a negative one; nice values about 9, which nice() makes -1.  *)
(* The command was started with standard input closed, or not.              *)
EXTENDS Instance, TLC

SomeCPUOptions == {-1, 0, 1, 3, 70}
SomePresent == {0, 1, 70}
SomeNiceLevels == {-15, 0, 9, 19}
FdsWithStdin == {0, 3, 4, 5}

\* Nothing tells one worker from another.
WorkerSymmetry == Permutations(Threads)
=============================================================================
