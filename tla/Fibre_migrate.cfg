\* Migrating fibres: two clusters of two workers and one, two fibres.
SPECIFICATION Spec
CONSTANTS
  w1 = w1
  w2 = w2
  w3 = w3
  NumSubpaths <- PairNumSubpaths
  Length <- WideLength
  Workers = {w1, w2, w3}
  ClusterOf <- WideClusterOf
  NumFibres <- WideNumFibres
  SubpathOf <- WideSubpathOf
  Migrate = TRUE
  Yield = FALSE
  MeasuredEvents = FALSE
  MaxLoads = 6
  Stop = Stop
  Main = Main
  Nobody = Nobody
INVARIANTS
  TypeOK
  OnOwnCluster
  CountGivesPosition
  OverrunBounded
PROPERTIES
  KeepsPromise
