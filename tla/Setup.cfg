\* Lists of up to six tokens, options at their limits, two CPUs, eight page
\* frames.
SPECIFICATION MCSpec
CONSTANTS
  MaxTokens = 6
  PinCommands <- AllPin
  CPUs = 2
  SetSize = 3
  BufferCommands <- AllBuffers
  Page = 2
  LargePage = 8
  HugeFrames = 2
  PoolSize = 4
  Frames <- EightFrames
  U = 32
  OptionLines <- AllLines
  LeastLine = 8
  S = 1024
INVARIANTS
  ParsedAsGiven
  RejectsWithReason
  WipeCoversWorkers
  PinnedAsAsked
  OutOfBoundsOnlyWithoutC
  BufferMapped
  ContiguousSlabs
