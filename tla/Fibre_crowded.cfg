\* More fibres than workers, without migration, in a build whose loop()
\* yields: two fibres share the one worker of their cluster.
SPECIFICATION ScheduledSpec
CONSTANTS
  w1 = w1
  w2 = w2
  w3 = w3
  NumSubpaths <- PairNumSubpaths
  Length <- PairLength
  Workers = {w1, w2}
  ClusterOf <- PairClusterOf
  NumFibres <- PairNumFibres
  SubpathOf <- PairSubpathOf
  Migrate = FALSE
  Yield = TRUE
  MeasuredEvents = TRUE
  MaxLoads = 2
  Schedules <- ThreeSchedules
  Stop = Stop
  Main = Main
  Nobody = Nobody
INVARIANTS
  CountersSeeAllLoads
  ReportIsFinal
PROPERTIES
  QuietSetup
  Terminates
  StopIsHeard
