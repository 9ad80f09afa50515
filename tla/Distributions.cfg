\* Every distribution on small buffers, with 2 v mod 13 as generator.
SPECIFICATION DSpec
CONSTANTS
  Commands <- AllCommands
  A = 2
  M = 13
  Q = 6
  R = 1
  Weight <- TwoWeights
  MaxItems = 4
INVARIANTS
  OneCycle
  EveryLineOnce
  HandsOver
  SplitIntoCycles
  LegacyClosed
  SearchFindsKey
PROPERTIES
  LehmerStep
  Finishes
