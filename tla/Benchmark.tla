----------------------------- MODULE Benchmark -----------------------------
(***************************************************************************)
(* What one cachetest run promises, whichever kind of worker performs it:  *)
(* workers touch the pointer chasing path only while the measurement is    *)
(* on, a worker leaves its loop only after it was told to stop, and a      *)
(* report exists only when every worker has finished, holding the final    *)
(* number of accesses of each.  Experiment (kernel threads) and            *)
(* FibreExperiment (fibres) are shown to implement this specification.     *)
(***************************************************************************)
EXTENDS Naturals

CONSTANTS Workers       \* the threads or the fibres that run loop()

VARIABLES
  phase,        \* "setup", "measuring", "reported" or "failed"
  stop,         \* the timeout has been signalled
  finished,     \* workers that have left their loop
  count,        \* accesses made so far by each worker
  report        \* access counts written to the output, once phase = "reported"

bvars == <<phase, stop, finished, count, report>>

\* The output before anything was reported: every LoopResult is zero.
NothingReported == [w \in Workers |-> 0]

Init ==
  /\ phase = "setup"
  /\ stop = FALSE
  /\ finished = {}
  /\ count = [w \in Workers |-> 0]
  /\ report = NothingReported

\* All workers stand at the barrier and are let loose.
Begin ==
  /\ phase = "setup"
  /\ phase' = "measuring"
  /\ UNCHANGED <<stop, finished, count, report>>

\* The timeout.  Nothing orders it after Begin.
Timeout ==
  /\ ~stop
  /\ stop' = TRUE
  /\ UNCHANGED <<phase, finished, count, report>>

Access(w) ==
  /\ phase = "measuring" /\ w \notin finished
  /\ count' = [count EXCEPT ![w] = @ + 1]
  /\ UNCHANGED <<phase, stop, finished, report>>

\* No worker gives up before the timeout, nor without one access.
Finish(w) ==
  /\ phase = "measuring" /\ w \notin finished
  /\ stop /\ count[w] > 0
  /\ finished' = finished \cup {w}
  /\ UNCHANGED <<phase, stop, count, report>>

Report ==
  /\ phase = "measuring" /\ finished = Workers
  /\ phase' = "reported"
  /\ report' = count
  /\ UNCHANGED <<stop, finished, count>>

Fail ==
  /\ phase \in {"setup", "measuring"}
  /\ phase' = "failed"
  /\ UNCHANGED <<stop, finished, count, report>>

Next ==
  \/ Begin \/ Timeout \/ Report \/ Fail
  \/ \E w \in Workers : Access(w) \/ Finish(w)

Spec == Init /\ [][Next]_bvars
=============================================================================
