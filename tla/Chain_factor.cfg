\* Option -b 2: the buffer is twice the data set.
SPECIFICATION DSpec
CONSTANTS
  Commands <- FactorCommands
  A = 2
  M = 13
  Q = 6
  R = 1
  Weight <- TwoWeights
  MaxItems = 4
INVARIANTS
  SlicesHoldSubpaths
