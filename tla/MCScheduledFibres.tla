-------------------------- MODULE MCScheduledFibres --------------------------
(***************************************************************************)
(* Instances of ScheduledFibreExperiment for TLC.                          *)
(***************************************************************************)
EXTENDS MCFibreExperiment, ScheduledFibreExperiment

\* Time-shared on one CPU; as the launcher has it; and with a CPU for each of
\* the two workers and the main fibre.
ThreeSchedules ==
  {[policy |-> "other", cpus |-> 1], [policy |-> "fifo", cpus |-> 1],
   [policy |-> "fifo", cpus |-> 3]}
=============================================================================
