\* Five CPUs, four nice values, up to three signals; up to three events, or
\* none, and two workers; a descriptor may be 0.
SPECIFICATION InstanceSpec
CONSTANTS
  CPUOptions <- SomeCPUOptions
  Present <- SomePresent
  SetRoom = 64
  NiceLevels <- SomeNiceLevels
  SIGUSR1 = 10
  SIGABRT = 6
  MaxSignals = 3
  MaxEvents = 3
  Threads = {t1, t2}
  Main = Main
  Fds <- FdsWithStdin
  MaxLoads = 4
SYMMETRY WorkerSymmetry
INVARIANTS
  TypeOK
  FirstEventSeesAllLoads
  MeasuresOnSignal
  RunsAsPrepared
  StatusTellsKilledOnly
