---------------------------- MODULE PerfCounters ---------------------------
(* The counters of a run: Setup_perf() opens one descriptor per event, the  *)
(* first leads the group of all; the workers are spawned, the group is      *)
(* started, the workers chase pointers, the group is stopped and read. The  *)
(* kernel's part is modelled from the attributes the code passes and the    *)
(* ioctls it makes: an event opened with disabled = 1 stays off until it is *)
(* enabled itself, an event counts only while its leader is on, and with    *)
(* inherit = 1 a thread is born with copies of its creator's events.        *)
EXTENDS Integers, Sequences

CONSTANTS
  MaxEvents,    \* the most events that option -e accepts
  Threads,      \* the workers
  Main,         \* the main thread, which opens the events
  Fds,          \* descriptors not in use; 0 among them if stdin is closed
  MaxLoads      \* bound on the loads that are made

Events == 1..MaxEvents

ASSUME EventsAssumption == MaxEvents \in Nat \ {0}
ASSUME MainAssumption == Main \notin Threads
ASSUME FdAssumption == Fds \subseteq Nat
ASSUME LoadsAssumption == MaxLoads \in Nat

VARIABLES
  pc,         \* where the main thread is
  measured,   \* length of Measured_events; 0 stands for NULL
  fd_leader,  \* descriptor of the leader, -1 before the first event
  fds,        \* descriptors in the order of the events
  enabled,    \* the events the kernel has switched on
  copies,     \* the threads an event counts, per event opened
  spawned,    \* workers born
  ended,      \* workers gone
  loads,      \* loads made by all workers
  count,      \* what each event has counted
  results     \* counts read

kernel == <<enabled, copies, count>>
workers == <<spawned, ended, loads>>
descriptors == <<measured, fd_leader, fds>>
vars == <<pc, descriptors, kernel, workers, results>>

NoFd == -1
Opened == Len(fds)

Init ==
  /\ pc = "open"
  /\ measured \in 0..MaxEvents
  /\ fd_leader = NoFd /\ fds = <<>>
  /\ enabled = {}
  /\ copies = [e \in Events |-> {}]
  /\ count = [e \in Events |-> 0]
  /\ spawned = {} /\ ended = {} /\ loads = 0
  /\ results = <<>>

MainGoes(from, to) == pc = from /\ pc' = to

\* Any system call may fail, and ends the process.
Fails ==
  /\ \/ pc = "open" /\ Opened < measured
     \/ pc = "read" /\ Len(results) < measured
  /\ pc' = "failed"
  /\ UNCHANGED <<descriptors, kernel, workers, results>>

\* addEvent(): the first descriptor stays the leader.
\* Mutant: every event is made the leader.
LeaderAlways(fd) == fd
LeaderAfter(fd) == IF fd_leader < 0 THEN fd ELSE fd_leader

\* The event is off and counts the calling thread.
AddEvent(fd) ==
  /\ pc = "open" /\ Opened < measured
  /\ \A e \in 1..Opened : fds[e] # fd
  /\ fds' = Append(fds, fd)
  /\ fd_leader' = LeaderAfter(fd)
  /\ copies' = [copies EXCEPT ![Opened + 1] = {Main}]
  /\ UNCHANGED <<pc, measured, enabled, count, workers, results>>

AllOpened ==
  /\ MainGoes("open", "spawn") /\ Opened = measured
  /\ UNCHANGED <<descriptors, kernel, workers, results>>

\* A new thread is counted by the events that count its creator.
\* Mutant: attr.inherit is not set.
Uninherited(t) == copies
Inherited(t) ==
  [e \in Events |-> IF Main \in copies[e] THEN copies[e] \union {t}
                                          ELSE copies[e]]

Spawn(t) ==
  /\ pc = "spawn" /\ t \notin spawned
  /\ spawned' = spawned \union {t}
  /\ copies' = Inherited(t)
  /\ UNCHANGED <<pc, descriptors, enabled, count, ended, loads, results>>

\* start(): a leader whose descriptor is not positive counts as none. Reset
\* and enable reach the leader alone, for neither is asked for the group.
Leader == 1
LeaderFound == fd_leader > 0

StartCounters ==
  /\ measured > 0 /\ LeaderFound /\ MainGoes("spawn", "loose")
  /\ count' = [count EXCEPT ![Leader] = 0]
  /\ enabled' = enabled \union {Leader}
  /\ UNCHANGED copies

NothingToStart ==
  /\ measured = 0 /\ MainGoes("spawn", "loose")
  /\ UNCHANGED kernel

CannotStart ==
  /\ measured > 0 /\ ~LeaderFound /\ MainGoes("spawn", "failed")
  /\ UNCHANGED kernel

Start ==
  /\ spawned = Threads
  /\ StartCounters \/ NothingToStart \/ CannotStart
  /\ UNCHANGED <<descriptors, workers, results>>

\* The kernel runs a group as a whole, if its leader is on.
Counts(e, t) == e \in enabled /\ Leader \in enabled /\ t \in copies[e]

Load(t) ==
  /\ pc = "loose" /\ t \in spawned \ ended
  /\ loads < MaxLoads
  /\ loads' = loads + 1
  /\ count' = [e \in Events |->
                 IF Counts(e, t) THEN count[e] + 1 ELSE count[e]]
  /\ UNCHANGED <<pc, descriptors, enabled, copies, spawned, ended, results>>

\* A worker leaves; the kernel keeps what its copies have counted.
End(t) ==
  /\ pc = "loose" /\ t \in spawned \ ended
  /\ ended' = ended \union {t}
  /\ UNCHANGED <<pc, descriptors, kernel, spawned, loads, results>>

\* stop(), after all workers were joined; it finds the leader that start()
\* found. The ioctl lacks its argument, so the kernel may take it for the
\* whole group or not.
Stop ==
  /\ MainGoes("loose", "read") /\ ended = Threads
  /\ enabled' \in {enabled \ {Leader}, {}}
  /\ UNCHANGED <<descriptors, copies, count, workers, results>>

\* read_results(): one descriptor after the other, in the order of opening.
\* Mutant: the leader is read last.
LeaderLast == IF Len(results) + 1 = measured THEN 1 ELSE Len(results) + 2
NextToRead == Len(results) + 1

Read ==
  /\ pc = "read" /\ Len(results) < measured
  /\ results' = Append(results, count[NextToRead])
  /\ UNCHANGED <<pc, descriptors, kernel, workers>>

Report ==
  /\ MainGoes("read", "reported") /\ Len(results) = measured
  /\ UNCHANGED <<descriptors, kernel, workers, results>>

Terminated == pc \in {"reported", "failed"} /\ UNCHANGED vars

Next ==
  \/ \E fd \in Fds : AddEvent(fd)
  \/ AllOpened \/ Start \/ Stop \/ Read \/ Report \/ Fails
  \/ \E t \in Threads : Spawn(t) \/ Load(t) \/ End(t)
  \/ Terminated

Spec == Init /\ [][Next]_vars

TypeOK ==
  /\ pc \in {"open", "spawn", "loose", "read", "reported", "failed"}
  /\ measured \in 0..MaxEvents
  /\ fds \in Seq(Nat) /\ Opened <= measured
  /\ fd_leader = IF Opened = 0 THEN NoFd ELSE fds[Leader]
  /\ enabled \subseteq Events
  /\ copies \in [Events -> SUBSET (Threads \union {Main})]
  /\ spawned \subseteq Threads /\ ended \subseteq spawned
  /\ loads \in Nat
  /\ count \in [Events -> Nat]
  /\ results \in Seq(Nat) /\ Len(results) <= measured

\* What is printed first is the count of the first event of option -e, and it
\* has seen every load of every worker: those that were spawned after the
\* event was opened, and those that ended before it was read.
FirstEventSeesAllLoads ==
  pc = "reported" /\ measured > 0 => results[1] = loads

\* start() is documented to start counting (Perf_Cachetest.hpp 22): the
\* result of every event given has seen every load.
EveryEventSeesAllLoads ==
  pc = "reported" => \A e \in 1..measured : results[e] = loads
=============================================================================
