------------------------------ MODULE Instance ------------------------------
(* An instance as the launcher starts it, with the performance counters it  *)
(* opens while it sets up, before it waits for SIGUSR1, and that it starts, *)
(* stops and reads in its experiment. Startup and PerfCounters each show    *)
(* one side of it: here what ends main() ends both, and no counter is       *)
(* touched while the process waits or once it is dead.                      *)
EXTENDS Startup, PerfCounters

instanceVars == <<startVars, vars>>

InstanceInit == StartInit /\ Init

\* error() prints and calls exit(1).
Error == Dies(Exited(1)) /\ UNCHANGED <<fifo, affinity, niceness, launcherVars, signalVars>>

-----------------------------------------------------------------------------
(* main() up to Synchronize_instances(), with Setup_perf().                 *)

OpenEvent ==
  /\ child = "setup" /\ \E fd \in Fds : AddEvent(fd)
  /\ UNCHANGED startVars
OpenFails == child = "setup" /\ Fails /\ Error
\* Another part of the setup fails, before or after Setup_perf().
SetUpFails == SetUp /\ child' = "dead" /\ UNCHANGED vars
IsSetUp == SetUp /\ child' # "dead" /\ AllOpened

-----------------------------------------------------------------------------
(* threadTest(), and the report of main().                                  *)

Measure ==
  /\ child = "test"
  /\ \/ Start /\ pc' # "failed"
     \/ Stop \/ Read
     \/ \E t \in Threads : Spawn(t) \/ Load(t) \/ End(t)
  /\ UNCHANGED startVars
\* perf->start() or perf->read_results() fails.
CountersFail == child = "test" /\ (Start \/ Fails) /\ pc' = "failed" /\ Error
\* An assertion, evictCacheEntries(), or a thread that cannot be created.
TestFails == Experiment /\ child_ret' \in {Exited(255), Aborted} /\ UNCHANGED vars
Reported == Experiment /\ child_ret' = Exited(0) /\ Report

\* What happens around main(): the launcher, the signals and the wait.
Around ==
  /\ Options \/ Fork \/ WaitChild \/ SetScheduler \/ Pin \/ Renice \/ Exec
       \/ SetHandler \/ Pause \/ Signal
  /\ UNCHANGED vars

InstanceNext ==
  \/ Around
  \/ OpenEvent \/ OpenFails \/ SetUpFails \/ IsSetUp
  \/ Measure \/ CountersFail \/ TestFails \/ Reported
  \/ Idle /\ UNCHANGED instanceVars
InstanceSpec == InstanceInit /\ [][InstanceNext]_instanceVars

-----------------------------------------------------------------------------
\* With -w the experiment begins on a signal that came during pause(), one that
\* came earlier being lost. Until then there is no worker and no counter is
\* on, although the events were opened before the wait.
MeasuresOnSignal ==
  /\ StartedOnSignal
  /\ opt_wait /\ (spawned # {} \/ enabled # {}) => "paused" \in heard
=============================================================================
