------------------------------ MODULE Scheduling -----------------------------
(***************************************************************************)
(* Which threads of an experiment the kernel runs. Started from a shell    *)
(* they are time-shared. The launcher makes the benchmark SCHED_FIFO, of   *)
(* the highest priority, and gives it one CPU; the threads it creates      *)
(* inherit both, and a thread that has a CPU then keeps it until it blocks *)
(* or ends: busy waiting is neither.                                       *)
(***************************************************************************)
EXTENDS Naturals, FiniteSets

CONSTANT Schedules   \* the ways in which the benchmark is started

ASSUME ScheduleAssumption ==
  Schedules \subseteq [policy : {"other", "fifo"}, cpus : Nat \ {0}]

VARIABLES
  sched,    \* the policy, and the number of CPUs the threads share
  onCpu     \* the threads that hold a CPU, under SCHED_FIFO

schedVars == <<sched, onCpu>>

\* The main thread is alone at first.
SchedInit(main) ==
  /\ sched \in Schedules
  /\ onCpu = IF sched.policy = "fifo" THEN {main} ELSE {}

HoldsCpu(p) == sched.policy = "fifo" => p \in onCpu

\* Thread p takes a step, after which the threads of runnable neither block
\* nor have ended. It takes a free CPU if it has none; which one of several
\* that wait gets it, the order of the kernel's queue, is left open.
Scheduled(p, runnable) ==
  /\ HoldsCpu(p) \/ Cardinality(onCpu) < sched.cpus
  /\ onCpu' = IF sched.policy = "fifo" THEN (onCpu \cup {p}) \cap runnable
                                       ELSE {}
  /\ UNCHANGED sched

\* n threads need not wait for each other's CPUs.
CpusFor(n) == sched.policy = "other" \/ sched.cpus >= n
=============================================================================
