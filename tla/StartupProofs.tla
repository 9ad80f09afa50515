--------------------------- MODULE StartupProofs ----------------------------
(* The properties of Startup for every set of CPUs, nice value and number   *)
(* of signals, and of an instance with its counters.                        *)
EXTENDS Instance, PerfCountersProofs

\* The child before it waits for the signal.
Before == {"none", "schedule", "pin", "renice", "exec", "setup", "signal"}
Prepared == {"setup", "signal", "pause", "paused", "test"}
Ends == {Exited(0), Exited(1), Exited(255), Aborted, Killed(SIGUSR1)}
Waiting == {"pause", "paused", "test"}

ProcessInv ==
  /\ opt_wait \in BOOLEAN /\ given \in Int
  /\ forked => launcher \in {"wait", "over"}
  /\ child = "none" <=> ~forked
  /\ child \in Before \cup Waiting \cup {"dead"}
  /\ child = "dead" => child_ret \in Ends
  /\ launcher = "over" /\ forked => child = "dead" /\ code = ReturnCode(child_ret)

PreparedInv ==
  /\ child \in {"pin", "renice", "exec"} \cup Prepared => fifo
  /\ child \in {"none", "schedule", "pin", "renice"} => niceness = given
  /\ child \in {"exec"} \cup Prepared =>
       niceness = (IF given < -10 THEN -20 ELSE given - 10) /\ given # 9
  /\ child \in {"none", "schedule", "pin"} => affinity = Present
  /\ child \in {"renice", "exec"} \cup Prepared =>
       (affinity # {cpu} => affinity = Present /\ cpu \notin Present \cap 0..(SetRoom - 1))

SignalInv ==
  /\ child \in Before => heard = {}
  /\ opt_wait /\ child \in {"pause", "paused"} => heard \subseteq {"pause"}
  /\ opt_wait /\ child = "test" => "paused" \in heard
  /\ opt_wait /\ child = "dead" /\ child_ret = Killed(SIGUSR1) =>
       heard \cap Waiting = {}

SInv == ProcessInv /\ PreparedInv /\ SignalInv

-----------------------------------------------------------------------------
LEMMA Statuses ==
  /\ Exited(0) = 0 /\ Exited(1) = 256 /\ Exited(255) = 65280
  /\ Killed(SIGUSR1) \in 1..127 /\ Aborted \in 129..255
  /\ StatusOf(Exited(0)) = 0 /\ StatusOf(Exited(1)) = 0 /\ StatusOf(Exited(255)) = 0
  /\ StatusOf(Killed(SIGUSR1)) = Killed(SIGUSR1) /\ StatusOf(Aborted) = Aborted
BY StartupAssumption, SMTT(30) DEF Exited, Killed, Aborted, StatusOf

LEMMA StartInitInv == StartInit => SInv
<1> SUFFICES ASSUME StartInit PROVE SInv
  OBVIOUS
<1>1. given \in Int
  BY StartupAssumption DEF StartInit
<1> QED
  BY <1>1 DEF StartInit, SInv, ProcessInv, PreparedInv, SignalInv, Before, Waiting, Prepared

LEMMA StartNextInv == SInv /\ [StartNext]_startVars => SInv'
<1> SUFFICES ASSUME SInv, [StartNext]_startVars PROVE SInv'
  OBVIOUS
<1> USE DEF SInv, ProcessInv, PreparedInv, SignalInv, Before, Waiting, Prepared,
            childVars, launcherVars, signalVars
<1>1. CASE Options
  BY <1>1 DEF Options, Ends
<1>2. CASE Fork
  BY <1>2 DEF Fork
<1>3. CASE WaitChild
  BY <1>3 DEF WaitChild, Ends, ReturnCode
<1>4. CASE SetScheduler
  BY <1>4, Statuses DEF SetScheduler, Goes, Dies, Ends
<1>5. CASE Pin
  <2>1. affinity = Present
    BY <1>5 DEF Pin, Goes
  <2>2. Asked = {} => cpu \notin Present \cap 0..(SetRoom - 1)
    BY DEF Asked
  <2>3. Asked # {} => Asked = {cpu}
    BY DEF Asked
  <2> QED
    BY <1>5, <2>1, <2>2, <2>3, Statuses DEF Pin, Goes, Dies, Ends
<1>6. CASE Renice
  <2>1. niceness = given /\ given \in Int /\ child = "renice"
    BY <1>6 DEF Renice
  <2>2. Raised = IF given < -10 THEN -20 ELSE given - 10
    BY <2>1 DEF Raised
  <2>3. Raised # -1 => given # 9
    BY <2>1, <2>2
  <2>4. CASE Dies(Exited(1))
    BY <1>6, <2>1, <2>4, Statuses DEF Renice, Dies, Ends
  <2>5. CASE Goes("renice", "exec") /\ Raised # -1 /\ niceness' = Raised
    BY <1>6, <2>1, <2>2, <2>3, <2>5 DEF Renice, Goes
  <2> QED
    BY <1>6, <2>4, <2>5 DEF Renice, ReniceFails
<1>7. CASE Exec
  BY <1>7, Statuses DEF Exec, Goes, Dies, Ends
<1>8. CASE SetUp
  BY <1>8, Statuses DEF SetUp, Goes, Dies, Ends
<1>9. CASE SetHandler
  BY <1>9 DEF SetHandler, Goes
<1>10. CASE Pause
  BY <1>10 DEF Pause, Goes
<1>11. CASE Experiment
  BY <1>11, Statuses DEF Experiment, Dies, Ends
<1>12. CASE Signal
  <2>1. CASE Handled
    BY <1>12, <2>1 DEF Signal, Handled
  <2>2. CASE ~Handled
    <3>1. Dies(Killed(SIGUSR1)) /\ heard' = heard \cup {child} /\ child \notin {"none", "dead"}
      BY <1>12, <2>2 DEF Signal
    <3>2. opt_wait => heard = {} /\ child \in Before
      BY <2>2, <3>1 DEF Handled
    <3> QED
      BY <1>12, <3>1, <3>2 DEF Signal, Dies, Ends
  <2> QED
    BY <2>1, <2>2
<1>13. CASE UNCHANGED startVars
  BY <1>13 DEF startVars
<1> QED
  BY <1>1, <1>2, <1>3, <1>4, <1>5, <1>6, <1>7, <1>8, <1>9, <1>10, <1>11, <1>12, <1>13
     DEF StartNext, ChildStep

\* What the launcher and its child know of each other at every step.
THEOREM StartInvariant == StartSpec => []SInv
BY StartInitInv, StartNextInv, PTL DEF StartSpec

-----------------------------------------------------------------------------
\* With -w the experiment begins on a signal that came during pause(), and
\* whoever waits has lost every signal sent so far.
THEOREM SignalHeard == StartSpec => []StartedOnSignal
<1>1. SInv => StartedOnSignal
  BY DEF SInv, SignalInv, StartedOnSignal, Waiting
<1> QED
  BY StartInvariant, <1>1, PTL

\* A benchmark that runs was prepared as the launcher means to.
THEOREM Preparation == StartSpec => []RunsAsPrepared
<1>1. SInv => RunsAsPrepared
  BY DEF SInv, PreparedInv, RunsAsPrepared, Running, Prepared
<1> QED
  BY StartInvariant, <1>1, PTL

\* The exit code of the launcher tells of signals only.
THEOREM ExitCode == StartSpec => []StatusTellsKilledOnly
<1>1. SInv => StatusTellsKilledOnly
  <2> SUFFICES ASSUME SInv, launcher = "over", forked
               PROVE  IF child_ret \in {Killed(SIGUSR1), Aborted} THEN code = child_ret
                      ELSE code = 0
    BY DEF StatusTellsKilledOnly
  <2>1. code = StatusOf(child_ret) /\ child_ret \in Ends
    BY DEF SInv, ProcessInv, ReturnCode
  <2> QED
    BY <2>1, Statuses DEF Ends
<1> QED
  BY StartInvariant, <1>1, PTL

-----------------------------------------------------------------------------
(* An instance is the process of Startup and the counters of PerfCounters.  *)

LEMMA StartPart == InstanceNext => [StartNext]_startVars
<1> SUFFICES ASSUME InstanceNext PROVE [StartNext]_startVars
  OBVIOUS
<1>1. CASE Around
  BY <1>1 DEF Around, StartNext, ChildStep
<1>2. CASE OpenEvent \/ Measure \/ (Idle /\ UNCHANGED instanceVars)
  BY <1>2 DEF OpenEvent, Measure, instanceVars
<1>3. CASE OpenFails
  BY <1>3 DEF OpenFails, Error, SetUp, StartNext, ChildStep
<1>4. CASE SetUpFails \/ IsSetUp
  BY <1>4 DEF SetUpFails, IsSetUp, StartNext, ChildStep
<1>5. CASE CountersFail
  BY <1>5 DEF CountersFail, Error, Experiment, StartNext, ChildStep
<1>6. CASE TestFails \/ Reported
  BY <1>6 DEF TestFails, Reported, StartNext, ChildStep
<1> QED
  BY <1>1, <1>2, <1>3, <1>4, <1>5, <1>6 DEF InstanceNext

LEMMA CountersPart == InstanceNext => [Next]_vars
<1> SUFFICES ASSUME InstanceNext PROVE [Next]_vars
  OBVIOUS
<1>1. CASE Around \/ SetUpFails \/ TestFails
  BY <1>1 DEF Around, SetUpFails, TestFails
<1>2. CASE OpenEvent \/ OpenFails \/ IsSetUp
  BY <1>2 DEF OpenEvent, OpenFails, IsSetUp, Next
<1>3. CASE Measure
  BY <1>3 DEF Measure, Next
<1>4. CASE CountersFail \/ Reported
  BY <1>4 DEF CountersFail, Reported, Next
<1>5. CASE Idle /\ UNCHANGED instanceVars
  BY <1>5 DEF instanceVars
<1> QED
  BY <1>1, <1>2, <1>3, <1>4, <1>5 DEF InstanceNext

\* What holds of the launched process and what holds of the counters holds
\* of the instance: failures of the counters end it like any other, and the
\* signals and the wait come between opening the events and counting.
THEOREM InstanceImplements == InstanceSpec => StartSpec /\ Spec
<1>1. InstanceInit => StartInit /\ Init
  BY DEF InstanceInit
<1>2. UNCHANGED instanceVars => UNCHANGED startVars /\ UNCHANGED vars
  BY DEF instanceVars
<1>3. [InstanceNext]_instanceVars => [StartNext]_startVars /\ [Next]_vars
  BY <1>2, StartPart, CountersPart
<1> QED
  BY <1>1, <1>3, PTL DEF InstanceSpec, StartSpec, Spec

\* With -w an instance has no worker and no counter on before its signal.
THEOREM MeasuredOnSignal == InstanceSpec => []MeasuresOnSignal
<1> DEFINE Quiet == opt_wait /\ (spawned # {} \/ enabled # {}) => "paused" \in heard
<1>1. InstanceInit => Quiet
  BY DEF InstanceInit, Init
<1>2. ASSUME SInv, Quiet, [InstanceNext]_instanceVars
      PROVE  Quiet'
  <2>1. CASE child = "test" /\ UNCHANGED startVars
    BY <1>2, <2>1 DEF SInv, SignalInv, startVars, launcherVars, signalVars
  <2>2. CASE UNCHANGED <<spawned, enabled>>
    <3>1. heard \subseteq heard' /\ opt_wait' = opt_wait
      <4>1. [StartNext]_startVars
        BY <1>2, StartPart DEF instanceVars
      <4> QED
        BY <4>1 DEF StartNext, ChildStep, Options, Fork, WaitChild, SetScheduler, Pin, Renice,
           Exec, SetUp, SetHandler, Pause, Experiment, Signal, startVars, launcherVars,
           signalVars
    <3> QED
      BY <1>2, <2>2, <3>1
  <2>3. Around \/ SetUpFails \/ TestFails => UNCHANGED <<spawned, enabled>>
    BY DEF Around, SetUpFails, TestFails, vars, kernel, workers
  <2>4. OpenEvent \/ OpenFails \/ IsSetUp => UNCHANGED <<spawned, enabled>>
    BY DEF OpenEvent, OpenFails, IsSetUp, AddEvent, Fails, AllOpened, kernel, workers
  <2>5. Measure => child = "test" /\ UNCHANGED startVars
    BY DEF Measure
  <2>6. CountersFail \/ Reported => UNCHANGED <<spawned, enabled>>
    BY DEF CountersFail, Reported, Fails, Start, StartCounters, NothingToStart, CannotStart,
       MainGoes, Report, kernel, workers
  <2> QED
    BY <1>2, <2>1, <2>2, <2>3, <2>4, <2>5, <2>6
       DEF InstanceNext, instanceVars, vars, kernel, workers
<1>3. SInv /\ Quiet => MeasuresOnSignal
  BY DEF SInv, SignalInv, StartedOnSignal, MeasuresOnSignal, Waiting
<1>4. InstanceSpec => []SInv
  BY InstanceImplements, StartInvariant, PTL
<1> HIDE DEF Quiet
<1> QED
  BY <1>1, <1>2, <1>3, <1>4, PTL DEF InstanceSpec
=============================================================================
