SPECIFICATION FairSpec
CONSTANT N = 4
INVARIANTS
  ThreadsGone
  UndefinedOnlyBy
PROPERTY
  CleanupEnds
\* A module may stay unloaded, and nothing follows an undefined step.
CHECK_DEADLOCK FALSE
