------------------------------ MODULE Startup -------------------------------
(* How an instance of the benchmark comes to run: the launcher forks, the   *)
(* child takes a real-time priority, a CPU and a lower nice value, and      *)
(* becomes the benchmark, which with option -w waits for SIGUSR1 before its *)
(* experiment. The launcher waits for it and returns what waitpid() says.   *)
(* Nothing here sends the signal (the launcher's kill() is commented out);  *)
(* it comes from outside, at any time.                                      *)
EXTENDS Integers, FiniteSets

CONSTANTS
  CPUOptions,    \* arguments of -c
  Present,       \* CPUs that are there
  SetRoom,       \* CPUs a set of CPU_ALLOC_SIZE(MAX_CPUS) bytes has room for
  NiceLevels,    \* nice values the launcher may be started with
  SIGUSR1, SIGABRT,
  MaxSignals     \* bound: signals sent to the child

ASSUME StartupAssumption ==
  /\ CPUOptions \subseteq Int /\ Present \subseteq Nat
  /\ SetRoom \in Nat /\ NiceLevels \subseteq -20..19
  /\ {SIGUSR1, SIGABRT} \subseteq 1..127 /\ SIGUSR1 # SIGABRT
  /\ MaxSignals \in Nat

VARIABLES
  launcher,   \* "options", "fork", "wait", "over"
  code,       \* its exit code
  cpu,        \* where the child is to run
  opt_wait,   \* option -w of the benchmark
  child,      \* "none", "schedule", "pin", "renice", "exec"; then, as the
              \* benchmark, "setup", "signal", "pause", "paused",
              \* "test"; "dead"
  child_ret,  \* the child's wait status, when it is dead
  forked,     \* fork() succeeded
  fifo, affinity, niceness,   \* of the child
  given,      \* the nice value it began with
  sent,       \* signals sent to the child
  heard       \* where the child was when they came
childVars == <<child, child_ret, fifo, affinity, niceness>>
launcherVars == <<launcher, code, cpu, opt_wait, forked, given>>
signalVars == <<sent, heard>>
startVars == <<childVars, launcherVars, signalVars>>

\* How waitpid() reports the end of a process.
Exited(n) == n * 256
Killed(signal) == signal
Aborted == SIGABRT + 128   \* with a core
StatusOf(n) == n % 256

StartInit ==
  /\ launcher = "options" /\ code = 0 /\ cpu = 1 /\ forked = FALSE
  /\ opt_wait \in BOOLEAN
  /\ given \in NiceLevels /\ niceness = given
  /\ child = "none" /\ child_ret = 0
  /\ fifo = FALSE /\ affinity = Present
  /\ sent = 0 /\ heard = {}

-----------------------------------------------------------------------------
(* The launcher.                                                            *)

\* -c, or the default; -h, an unknown option or no program: usage().
Options ==
  /\ launcher = "options"
  /\ \/ cpu' \in CPUOptions \cup {cpu} /\ launcher' = "fork" /\ UNCHANGED code
     \/ launcher' = "over" /\ code' = StatusOf(1) /\ UNCHANGED cpu
  /\ UNCHANGED <<opt_wait, forked, given, childVars, signalVars>>

\* A failure, -1, goes the way of the parent.
Fork ==
  /\ launcher = "fork" /\ launcher' = "wait"
  /\ \/ forked' = TRUE /\ child' = "schedule"
     \/ forked' = FALSE /\ UNCHANGED child
  /\ UNCHANGED <<code, cpu, opt_wait, given, child_ret, fifo, affinity, niceness, signalVars>>

\* return child_ret: what the shell sees are its low eight bits.
\* Mutant: WEXITSTATUS(child_ret).
ExitCodeOf(status) == status \div 256
ReturnCode(status) == StatusOf(status)

\* Without a child waitpid(-1) fails and child_ret was never set.
WaitChild ==
  /\ launcher = "wait" /\ (forked => child = "dead")
  /\ IF forked THEN code' = ReturnCode(child_ret) ELSE code' \in 0..255
  /\ launcher' = "over"
  /\ UNCHANGED <<cpu, opt_wait, forked, given, childVars, signalVars>>

-----------------------------------------------------------------------------
(* The child, before and after execv().                                     *)

Dies(status) == child' = "dead" /\ child_ret' = status
Goes(from, to) == child = from /\ child' = to /\ UNCHANGED child_ret

SetScheduler ==
  /\ child = "schedule"
  /\ \/ Goes("schedule", "pin") /\ fifo' = TRUE
     \/ Dies(Exited(1)) /\ UNCHANGED fifo
  /\ UNCHANGED <<affinity, niceness, launcherVars, signalVars>>

\* pinExperiment(): a CPU beyond the set is not entered, a set without a CPU
\* that is there is refused, which is only reported.
Asked == {cpu} \cap 0..(SetRoom - 1) \cap Present
Pin ==
  /\ child = "pin"
  /\ \/ Goes("pin", "renice") /\ affinity' = IF Asked = {} THEN affinity ELSE Asked
     \/ Dies(Exited(1)) /\ UNCHANGED affinity    \* CPU_ALLOC
  /\ UNCHANGED <<fifo, niceness, launcherVars, signalVars>>

\* nice() returns the new value, or -1 for a failure.
Raised == IF niceness - 10 < -20 THEN -20 ELSE niceness - 10
\* Mutant: a failure is overlooked.
ReniceOverlooks(returned) == FALSE
ReniceFails(returned) == returned = -1
Renice ==
  /\ child = "renice"
  /\ \E returned \in {Raised, -1} :
       /\ IF ReniceFails(returned) THEN Dies(Exited(1)) ELSE Goes("renice", "exec")
       /\ niceness' = IF returned = Raised THEN Raised ELSE niceness
  /\ UNCHANGED <<fifo, affinity, launcherVars, signalVars>>

\* execv() may fail, not least because the list of arguments has no end:
\* memset() clears only its first entry. main() then returns 0.
Exec ==
  /\ \/ Goes("exec", "setup")
     \/ child = "exec" /\ Dies(Exited(0))
  /\ UNCHANGED <<fifo, affinity, niceness, launcherVars, signalVars>>

\* main() of the benchmark up to Synchronize_instances(). It may fail:
\* exit(1), exit(-1), or an assertion.
SetUp ==
  /\ child = "setup"
  /\ \/ Goes("setup", IF opt_wait THEN "signal" ELSE "test")
     \/ \E status \in {Exited(1), Exited(255), Aborted} : Dies(status)
  /\ UNCHANGED <<fifo, affinity, niceness, launcherVars, signalVars>>

\* Synchronize_instances(): signal(SIGUSR1, start_handler), then pause().
SetHandler ==
  /\ Goes("signal", "pause")
  /\ UNCHANGED <<fifo, affinity, niceness, launcherVars, signalVars>>
Pause ==
  /\ Goes("pause", "paused")
  /\ UNCHANGED <<fifo, affinity, niceness, launcherVars, signalVars>>

\* The end of main(), or of its process: error() is exit(1), the wiping of
\* the caches calls exit(-1), and assertions abort.
Experiment ==
  /\ child = "test"
  /\ \E status \in {Exited(0), Exited(1), Exited(255), Aborted} : Dies(status)
  /\ UNCHANGED <<fifo, affinity, niceness, launcherVars, signalVars>>

\* start_handler(), which does nothing but end a pause(). Without it the
\* signal ends the process.
\* Mutant: signal() is called after pause().
HandledLate == opt_wait /\ child = "test"
Handled == opt_wait /\ child \in {"pause", "paused", "test"}
Signal ==
  /\ child \notin {"none", "dead"} /\ sent < MaxSignals
  /\ sent' = sent + 1 /\ heard' = heard \cup {child}
  /\ IF Handled
     THEN child' = (IF child = "paused" THEN "test" ELSE child) /\ UNCHANGED child_ret
     ELSE Dies(Killed(SIGUSR1))
  /\ UNCHANGED <<fifo, affinity, niceness, launcherVars>>

ChildStep ==
  \/ SetScheduler \/ Pin \/ Renice \/ Exec
  \/ SetUp \/ SetHandler \/ Pause \/ Experiment
\* Over, or waiting for a signal that does not come.
Idle == launcher = "over" \/ (child = "paused" /\ sent = MaxSignals)
StartNext ==
  \/ Options \/ Fork \/ WaitChild \/ ChildStep \/ Signal
  \/ Idle /\ UNCHANGED startVars
StartSpec == StartInit /\ [][StartNext]_startVars

-----------------------------------------------------------------------------
\* With -w the experiment begins on a signal that came during pause(): one
\* that came earlier is lost, and the benchmark that waits has been sent no
\* other; a signal kills only before signal() or without -w.
StartedOnSignal ==
  opt_wait =>
    /\ child = "test" => "paused" \in heard
    /\ child = "paused" => heard \subseteq {"pause"}
    /\ child = "dead" /\ child_ret = Killed(SIGUSR1) =>
         heard \cap {"pause", "paused", "test"} = {}

\* Whatever fails on the way, a benchmark that runs has its priority, its
\* nice value, which is not the -1 taken for a failure, and the CPU asked
\* for, unless that CPU is not there or beyond the set.
Running == child \in {"setup", "signal", "pause", "paused", "test"}
RunsAsPrepared ==
  Running =>
    /\ fifo
    /\ niceness = (IF given < -10 THEN -20 ELSE given - 10) /\ given # 9
    /\ affinity # {cpu} => affinity = Present /\ cpu \notin Present \cap 0..(SetRoom - 1)

\* The launcher's exit code tells a benchmark that was killed, and by which
\* signal; one that failed by itself, or never started, looks like success.
StatusTellsKilledOnly ==
  launcher = "over" /\ forked =>
    IF child_ret \in {Killed(SIGUSR1), Aborted} THEN code = child_ret
    ELSE code = 0
=============================================================================
