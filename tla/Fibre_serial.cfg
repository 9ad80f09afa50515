\* fibreTest() asserts that the main fibre arrives last at the barrier.
SPECIFICATION Spec
CONSTANTS
  w1 = w1
  w2 = w2
  w3 = w3
  NumSubpaths <- PairNumSubpaths
  Length <- PairLength
  Workers = {w1, w2}
  ClusterOf <- PairClusterOf
  NumFibres <- PairNumFibres
  SubpathOf <- PairSubpathOf
  Migrate = FALSE
  Yield = TRUE
  MeasuredEvents = TRUE
  MaxLoads = 2
  Stop = Stop
  Main = Main
  Nobody = Nobody
INVARIANT
  MainReleasesFibres
