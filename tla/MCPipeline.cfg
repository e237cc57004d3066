SPECIFICATION FairPipeSpec
CONSTANTS
  Capacity = 5
  mult1 = 3
  mult2 = 5
  ConsumerLimit = 10
  NONE = NONE
INVARIANT
  SortedOutput
PROPERTY
  EventuallyRests
\* The threads wait for free slots for ever once the consumer has returned.
CHECK_DEADLOCK FALSE
