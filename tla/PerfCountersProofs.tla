------------------------ MODULE PerfCountersProofs -------------------------
(* Theorems about PerfCounters for every number of events, every set of     *)
(* workers and every set of free descriptors.                               *)
EXTENDS PerfCounters, TLAPS

\* Past the opening all events are open, and no worker runs or has run
\* before the group is started.
PhaseInv ==
  /\ pc \in {"spawn", "loose", "read", "reported"} => Opened = measured
  /\ pc = "open" => spawned = {}
  /\ pc \in {"open", "spawn"} => ended = {} /\ loads = 0
  /\ pc \in {"loose", "read", "reported"} => spawned = Threads

\* An event that is open counts the main thread and all its children.
CopiesInv ==
  \A e \in 1..Opened : spawned \union {Main} \subseteq copies[e]

\* The leader is on while workers are loose, and then counts each load.
LeaderInv ==
  /\ pc = "loose" /\ measured > 0 => Leader \in enabled
  /\ pc # "failed" /\ measured > 0 => count[Leader] = loads

\* What was read of the leader is what it still holds.
ResultsInv ==
  /\ pc \in {"open", "spawn", "loose"} => results = <<>>
  /\ pc \in {"read", "reported"} /\ Len(results) > 0
       => results[Leader] = count[Leader]
  /\ pc = "reported" => Len(results) = measured

IInv == TypeOK /\ PhaseInv /\ CopiesInv /\ LeaderInv /\ ResultsInv

USE EventsAssumption, MainAssumption, FdAssumption, LoadsAssumption
  DEF Events, Leader, Opened

LEMMA InitInv == Init => IInv
BY DEF Init, IInv, TypeOK, PhaseInv, CopiesInv, LeaderInv, ResultsInv, NoFd

\* Opening events changes only who is counted, and grows the group.
LEMMA AddEventInv ==
  ASSUME IInv, NEW fd \in Fds, AddEvent(fd)
  PROVE IInv'
<1> USE DEF IInv, AddEvent, workers
<1>1. TypeOK'
  <2>1. fd \in Nat /\ fds' \in Seq(Nat) /\ Len(fds') = Len(fds) + 1
    BY DEF TypeOK
  <2>2. fd_leader' = fds'[Leader]
    <3>1. CASE Len(fds) = 0
      <4>1. fd_leader' = fd
        BY <3>1 DEF TypeOK, LeaderAfter, NoFd
      <4>2. fds'[1] = fd
        BY <3>1 DEF TypeOK
      <4>3. QED BY <4>1, <4>2
    <3>2. CASE Len(fds) # 0
      <4>1. 1 \in 1..Len(fds) /\ fds[1] \in Nat
        BY <3>2 DEF TypeOK
      <4>2. fd_leader' = fds[1]
        BY <3>2, <4>1 DEF TypeOK, LeaderAfter
      <4>3. fds'[1] = fds[1]
        BY <4>1 DEF TypeOK
      <4>4. QED BY <4>2, <4>3
    <3>3. QED BY <3>1, <3>2
  <2>3. copies' \in [Events -> SUBSET (Threads \union {Main})]
    BY DEF TypeOK
  <2>4. Len(fds') # 0 /\ Len(fds') <= measured
    BY <2>1 DEF TypeOK
  <2>5. /\ pc' = pc /\ measured' = measured /\ enabled' = enabled
        /\ spawned' = spawned /\ ended' = ended /\ loads' = loads
        /\ count' = count /\ results' = results
    OBVIOUS
  <2> HIDE DEF AddEvent
  <2>6. QED BY <2>1, <2>2, <2>3, <2>4, <2>5 DEF TypeOK
<1>2. PhaseInv'
  BY DEF PhaseInv, TypeOK
<1>3. CopiesInv'
  <2> SUFFICES ASSUME NEW e \in 1..Opened'
               PROVE  spawned' \union {Main} \subseteq copies'[e]
    BY DEF CopiesInv
  <2>1. /\ Opened' = Opened + 1 /\ Opened \in Nat
        /\ Opened + 1 \in Events /\ e \in Events
    BY DEF TypeOK
  <2>2. spawned' = {}
    BY DEF PhaseInv
  <2>3. CASE e = Opened + 1
    BY <2>1, <2>2, <2>3 DEF TypeOK
  <2>4. CASE e # Opened + 1
    BY <2>1, <2>2, <2>4 DEF TypeOK, CopiesInv
  <2>5. QED BY <2>3, <2>4
<1>4. LeaderInv' /\ ResultsInv'
  BY DEF LeaderInv, ResultsInv
<1>5. QED BY <1>1, <1>2, <1>3, <1>4

LEMMA SpawnInv ==
  ASSUME IInv, NEW t \in Threads, Spawn(t)
  PROVE IInv'
<1> USE DEF IInv, Spawn, Inherited, descriptors
<1>1. TypeOK'
  BY DEF TypeOK
<1>2. PhaseInv'
  BY DEF PhaseInv, TypeOK
<1>3. CopiesInv'
  BY DEF CopiesInv, TypeOK
<1>4. LeaderInv' /\ ResultsInv'
  BY DEF LeaderInv, ResultsInv
<1>5. QED BY <1>1, <1>2, <1>3, <1>4

\* The reset at the start wipes nothing: no worker has made a load.
LEMMA StartInv ==
  ASSUME IInv, Start
  PROVE IInv'
<1> USE DEF IInv, Start, StartCounters, NothingToStart, CannotStart, MainGoes,
            descriptors, workers, kernel
<1>1. TypeOK'
  <2>1. count' \in [Events -> Nat] /\ enabled' \subseteq Events
    <3>1. 1 \in Events
      OBVIOUS
    <3>2. count \in [Events -> Nat] /\ enabled \subseteq Events
      BY DEF TypeOK
    <3>3. CASE StartCounters
      BY <3>1, <3>2, <3>3
    <3>4. CASE UNCHANGED kernel
      BY <3>2, <3>4
    <3>5. QED BY <3>3, <3>4
  <2>2. pc' \in {"loose", "failed"}
    OBVIOUS
  <2>3. QED BY <2>1, <2>2 DEF TypeOK
<1>2. PhaseInv'
  BY DEF PhaseInv, TypeOK
<1>3. CopiesInv'
  BY DEF CopiesInv, TypeOK
<1>4. LeaderInv'
  BY DEF LeaderInv, PhaseInv, TypeOK
<1>5. ResultsInv'
  BY DEF ResultsInv
<1>6. QED BY <1>1, <1>2, <1>3, <1>4, <1>5

\* The leader counts the worker, for it is on and the worker was born after
\* it was opened.
LEMMA LoadInv ==
  ASSUME IInv, NEW t \in Threads, Load(t)
  PROVE IInv'
<1> USE DEF IInv, Load, descriptors
<1>1. TypeOK'
  <2>1. count' \in [Events -> Nat]
    <3>1. count \in [Events -> Nat]
      BY DEF TypeOK
    <3>2. count' = [e \in Events |->
                      IF Counts(e, t) THEN count[e] + 1 ELSE count[e]]
      OBVIOUS
    <3> HIDE DEF IInv, Load
    <3>3. QED BY <3>1, <3>2
  <2>2. loads' \in Nat
    BY DEF TypeOK
  <2>3. QED BY <2>1, <2>2 DEF TypeOK
<1>2. PhaseInv' /\ CopiesInv' /\ ResultsInv'
  BY DEF PhaseInv, CopiesInv, ResultsInv
<1>3. measured > 0 => Counts(Leader, t)
  BY DEF Counts, CopiesInv, LeaderInv, PhaseInv, TypeOK
<1>4. LeaderInv'
  BY <1>3 DEF LeaderInv, TypeOK
<1>5. QED BY <1>1, <1>2, <1>4

LEMMA ReadInv ==
  ASSUME IInv, Read
  PROVE IInv'
<1> USE DEF IInv, Read, NextToRead, descriptors, workers, kernel
<1>1. TypeOK'
  <2>1. count[Len(results) + 1] \in Nat
    <3>1. /\ Len(results) \in Nat /\ Len(results) < measured
          /\ measured \in 0..MaxEvents
      BY DEF TypeOK
    <3>2. count \in [Events -> Nat]
      BY DEF TypeOK
    <3> HIDE DEF IInv, Read
    <3>3. QED BY <3>1, <3>2
  <2>2. results' \in Seq(Nat) /\ Len(results') <= measured
    BY <2>1 DEF TypeOK
  <2>3. QED BY <2>2 DEF TypeOK
<1>2. PhaseInv' /\ CopiesInv' /\ LeaderInv'
  BY DEF PhaseInv, CopiesInv, LeaderInv
<1>3. ResultsInv'
  BY DEF ResultsInv, TypeOK
<1>4. QED BY <1>1, <1>2, <1>3

\* The actions left change nothing of the invariant but the phase.
LEMMA OtherInv ==
  ASSUME IInv,
         \/ AllOpened \/ Stop \/ Report \/ Fails
         \/ \E t \in Threads : End(t)
         \/ UNCHANGED vars
  PROVE IInv'
<1> USE DEF IInv, descriptors, workers, kernel, MainGoes
<1>1. CASE AllOpened
  BY <1>1 DEF AllOpened, TypeOK, PhaseInv, CopiesInv, LeaderInv, ResultsInv
<1>2. CASE Stop
  BY <1>2, SMTT(30)
     DEF Stop, TypeOK, PhaseInv, CopiesInv, LeaderInv, ResultsInv
<1>3. CASE Report
  BY <1>3, SMTT(30)
     DEF Report, TypeOK, PhaseInv, CopiesInv, LeaderInv, ResultsInv
<1>4. CASE Fails
  BY <1>4 DEF Fails, TypeOK, PhaseInv, CopiesInv, LeaderInv, ResultsInv
<1>5. CASE \E t \in Threads : End(t)
  BY <1>5 DEF End, TypeOK, PhaseInv, CopiesInv, LeaderInv, ResultsInv
<1>6. CASE UNCHANGED vars
  BY <1>6 DEF vars, TypeOK, PhaseInv, CopiesInv, LeaderInv, ResultsInv
<1>7. QED BY <1>1, <1>2, <1>3, <1>4, <1>5, <1>6

\* The inductive invariant holds in every state of PerfCounters.
THEOREM CounterInvariance == Spec => []IInv
<1>1. IInv /\ [Next]_vars => IInv'
  BY AddEventInv, SpawnInv, StartInv, LoadInv, ReadInv, OtherInv
     DEF Next, Terminated
<1>2. QED BY <1>1, InitInv, PTL DEF Spec

\* The variables keep their types, and the first event stays the leader of
\* the group (Perf_Cachetest.cc 83).
THEOREM GroupCorrect == Spec => []TypeOK
<1>1. IInv => TypeOK
  BY DEF IInv
<1>2. QED BY <1>1, CounterInvariance, PTL

\* The first count printed has seen every load of every worker, however many
\* workers and events there are and however the workers come and go.
THEOREM FirstResultComplete == Spec => []FirstEventSeesAllLoads
<1>1. IInv => FirstEventSeesAllLoads
  BY DEF IInv, LeaderInv, ResultsInv, FirstEventSeesAllLoads, TypeOK
<1>2. QED BY <1>1, CounterInvariance, PTL
=============================================================================
