\* The thread variant with counters: three subpaths of three, two and one
\* entries, three threads, two on the first and none on the second.
SPECIFICATION ScheduledSpec
CONSTANTS
  NumSubpaths <- MixedNumSubpaths
  Length <- MixedLength
  NumThreads <- MixedNumThreads
  SubpathOf <- MixedSubpathOf
  MeasuredEvents = TRUE
  MaxLoads = 4
  Schedules <- FourSchedules
  Stop = Stop
  Main = Main
  Nobody = Nobody
INVARIANTS
  TypeOK
  StaysInSubpath
  CountsWholeLaps
  OverrunBounded
  CountersSeeAllLoads
  ReportIsFinal
PROPERTIES
  QuietSetup
  KeepsPromise
  Terminates
  StopIsHeard
