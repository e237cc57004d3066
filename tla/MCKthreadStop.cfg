SPECIFICATION FairStopSpec
CONSTANTS
  NThreads = 3
  Rounds = 2
INVARIANTS
  OnlyTailOutlivesModule
  FullRun
PROPERTY
  CleanupTerminates
