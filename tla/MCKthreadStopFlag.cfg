SPECIFICATION FairStopSpec
CONSTANTS
  NThreads = 2
  Rounds = 2
PROPERTY
  FlagPreventsLateStop
