SPECIFICATION FairSpec
CONSTANTS
  p1 = p1
  p2 = p2
  Procs = {p1, p2}
  Users <- MCUsers
  AUTHOR = 2
  SIZE = 3
  None = None
INVARIANTS
  OverrunOnlyBy
  ReadIsSnapshot
  LockInitialized
  WholeValueJudged
PROPERTY
  CallReturns
CHECK_DEADLOCK FALSE
