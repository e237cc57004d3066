SPECIFICATION FairNetSpec
CONSTANTS
  Threads <- MCThreads
  Streams <- MCStreams
  Tokens <- MCTokens
  BUFFER_SIZE = 1
  NULL = NULL
  Signals = FALSE
  mult1 = 2
  mult2 = 1
  ConsumerLimit = 1
INVARIANTS
  SoleOwner
  NothingStranded
PROPERTIES
  ImplementsPipeline
  EventuallySleeps
\* The threads wait for free slots for ever once the consumer has returned.
CHECK_DEADLOCK FALSE
