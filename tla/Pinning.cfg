\* The main thread is pinned with -m, the workers are not, without -C.
SPECIFICATION SetupSpec
CONSTANTS
  MaxTokens = 0
  PinCommands <- OnlyMain
  CPUs = 2
  SetSize = 3
  BufferCommands <- OnlyPlainBuffer
  Page = 2
  LargePage = 8
  HugeFrames = 2
  PoolSize = 4
  Frames <- EightFrames
  U = 32
  OptionLines <- OnlyPlainLine
  LeastLine = 8
  S = 1024
INVARIANTS
  NotPinnedByDefault
