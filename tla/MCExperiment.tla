---------------------------- MODULE MCExperiment ----------------------------
(***************************************************************************)
(* Instances of ScheduledExperiment for TLC.                               *)
(***************************************************************************)
EXTENDS ScheduledExperiment, TLC

\* -T 2,0,1: two threads share a subpath of three entries, one subpath has no
\* thread, one thread has a subpath of a single entry.
MixedNumSubpaths == 3
MixedLength == (0 :> 3) @@ (1 :> 2) @@ (2 :> 1)
MixedNumThreads == 3
MixedSubpathOf == (0 :> 0) @@ (1 :> 0) @@ (2 :> 2)

\* Time-shared on one CPU; as the launcher has it; and with a CPU for each
\* thread, or one too few.
FourSchedules ==
  {[policy |-> "other", cpus |-> 1], [policy |-> "fifo", cpus |-> 1],
   [policy |-> "fifo", cpus |-> MixedNumThreads],
   [policy |-> "fifo", cpus |-> MixedNumThreads + 1]}

\* launcher.cc: SCHED_FIFO and the one CPU of option -c.
LauncherSchedule == {[policy |-> "fifo", cpus |-> 1]}
=============================================================================
