--------------------------- MODULE MCPerfCounters ---------------------------
(* Instances of PerfCounters for TLC. *)
EXTENDS PerfCounters, TLC

\* Nothing tells one worker from another.
WorkerSymmetry == Permutations(Threads)

\* The command was started with standard input closed, or not.
FdsWithStdin == {0, 3, 4, 5}
=============================================================================
