\* Option -a with data of two pages.
SPECIFICATION SetupSpec
CONSTANTS
  MaxTokens = 0
  PinCommands <- OnlyPlainPin
  CPUs = 2
  SetSize = 3
  BufferCommands <- OnlyCont
  Page = 2
  LargePage = 8
  HugeFrames = 2
  PoolSize = 4
  Frames <- EightFrames
  U = 32
  OptionLines <- OnlyPlainLine
  LeastLine = 8
  S = 1024
INVARIANTS
  ContiguousAsAsked
