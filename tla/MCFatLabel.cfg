SPECIFICATION FairSpec
CONSTANTS
  Procs = {p1, p2}
  SLOTS = 2
  Old = Old
  None = None
  MaxCrashes = 1
INVARIANTS
  SuccessIsOnDisk
  FailureLeavesBoot
  OneLabel
PROPERTY
  CallReturns
\* The programs end.
CHECK_DEADLOCK FALSE
