------------------------ MODULE ScheduledExperiment --------------------------
(***************************************************************************)
(* The thread variant on the CPUs it is given. What a thread may do is     *)
(* said in Experiment; here it also needs a CPU to do it. That decides     *)
(* whether the experiment comes to an end.                                 *)
(***************************************************************************)
EXTENDS Experiment, Scheduling

scheduledVars == <<vars, schedVars>>

\* Threads that would use a CPU: all that live, but for main() while it waits
\* in join() and threads that wait for the mutex; a thread that spins does.
\* A signal wakes the thread that is to handle it.
Runnable ==
  IF ~Alive THEN {}
  ELSE {t \in LiveThreads : pc[t] = "starting" => loggingMutex = Nobody}
         \cup {p \in {Main} : mainPc = "join" => pc[joined] = "done"}
         \cup ({handlerOn} \ {Nobody})

\* The busy waits of main() for the threads and of these for main().
Spin ==
  /\ \/ HoldsCpu(Main) /\ Runs(Main) /\ mainPc = "gather" /\ ~AllAtBarrior
     \/ \E t \in Threads :
          HoldsCpu(t) /\ Runs(t) /\ pc[t] = "spinning" /\ ~startExperiment
  /\ UNCHANGED scheduledVars

MainRuns == MainStep /\ Scheduled(Main, Runnable')
ThreadRuns(t) == Worker(t) /\ Scheduled(t, Runnable')
HandlerRuns == Handler /\ Scheduled(handlerOn, Runnable')
SignalSent == AlarmFires /\ UNCHANGED schedVars

ScheduledInit == Init /\ SchedInit(Main)
ScheduledNext ==
  \/ MainRuns
  \/ \E t \in Threads : ThreadRuns(t)
  \/ SignalSent \/ HandlerRuns
  \/ Spin
  \/ Terminated /\ UNCHANGED schedVars

\* The kernel gives a thread that has a CPU, or for which one is free, its
\* turn, and the timer of alarm() expires. A thread whose CPU another one
\* keeps is promised nothing.
Fairness ==
  /\ WF_scheduledVars(MainRuns)
  /\ \A t \in Threads : WF_scheduledVars(ThreadRuns(t))
  /\ WF_scheduledVars(SignalSent)
  /\ WF_scheduledVars(HandlerRuns)

ScheduledSpec == ScheduledInit /\ [][ScheduledNext]_scheduledVars /\ Fairness

-----------------------------------------------------------------------------
\* A run ends, with its results or with an error, if its threads are
\* time-shared or each has a CPU of its own: main() and the workers wait for
\* each other in busy loops, and a worker's own pinning comes after it began.
Ended == mainPc \in {"exit", "failed"}
Terminates == CpusFor(NumThreads + 1) => <>Ended

\* Once the alarm has gone off every thread hears of it, even one that was
\* still spinning at the barrier.
StopIsHeard ==
  alarm = "fired" ~>
    (mainPc = "failed" \/ \A t \in Threads : pc[t] = "done")

\* usage(): "-d duration in seconds". However the benchmark is started it
\* ends when the time is over.
EndsInTime == <>Ended
=============================================================================
