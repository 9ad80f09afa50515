---------------------- MODULE ScheduledFibreExperiment -----------------------
(***************************************************************************)
(* The fibre variant on the CPUs it is given: the worker threads of        *)
(* libfibre, and the one that runs the main fibre, need a CPU for what     *)
(* FibreExperiment lets them do.                                           *)
(***************************************************************************)
EXTENDS FibreExperiment, Scheduling

scheduledVars == <<vars, schedVars>>

\* An idle worker sleeps until its cluster has a ready fibre, and so does
\* the one of the main fibre when this is blocked.  Between fibres a worker
\* keeps its CPU.
Runnable ==
  IF ~Alive THEN {}
  ELSE {w \in Workers :
          \/ running[w] # Nobody
          \/ \E f \in Fibres : Ready(f) /\ subpathIdx[f] = ClusterOf[w]}
         \cup {p \in {Main} : /\ mainPc # "blocked"
                              /\ mainPc = "join" => pc[joined] = "done"}
         \cup ({handlerOn} \ {Nobody})

\* The busy wait of main() for the fibres; these block at a barrier.
Spin ==
  /\ HoldsCpu(Main) /\ WorkerRuns(Main)
  /\ mainPc = "gather" /\ numAtBarrior # NumFibres
  /\ UNCHANGED scheduledVars

MainRuns == MainStep /\ Scheduled(Main, Runnable')
ThreadRuns(w) == Worker(w) /\ Scheduled(w, Runnable')
HandlerRuns == Handler /\ Scheduled(handlerOn, Runnable')
SignalSent == AlarmFires /\ UNCHANGED schedVars

ScheduledInit == Init /\ SchedInit(Main)
ScheduledNext ==
  \/ MainRuns
  \/ \E w \in Workers : ThreadRuns(w)
  \/ SignalSent \/ HandlerRuns
  \/ Spin
  \/ Terminated /\ UNCHANGED schedVars

\* As for threads.  A worker that is idle picks some ready fibre: no
\* fairness among fibres is assumed.
Fairness ==
  /\ WF_scheduledVars(MainRuns)
  /\ \A w \in Workers : WF_scheduledVars(ThreadRuns(w))
  /\ WF_scheduledVars(SignalSent)
  /\ WF_scheduledVars(HandlerRuns)

ScheduledSpec == ScheduledInit /\ [][ScheduledNext]_scheduledVars /\ Fairness

-----------------------------------------------------------------------------
EnoughCpus == CpusFor(Cardinality(Workers) + 1)

\* A run ends, with its results or with an error, if the worker threads are
\* time-shared or each has a CPU of its own.  main() waits for the fibres in
\* a busy loop, and each cluster for a worker that chases pointers.
Terminates == EnoughCpus => <>(mainPc \in {"exit", "failed"})

\* Then, once the alarm has gone off, every fibre hears of it, even those
\* that wait for a worker because another fibre loops on it without yielding.
\* With fewer CPUs the handler may wait for a fibre to stop that only the
\* handler can stop.
StopIsHeard ==
  EnoughCpus =>
    (alarm = "fired" ~>
       (mainPc = "failed" \/ \A f \in Fibres : pc[f] = "done"))
=============================================================================
