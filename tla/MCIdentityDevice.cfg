SPECIFICATION FairSpec
CONSTANTS
  Writers = {w1, w2}
  LEN = 1
  NAME_SIZE = 2
  MaxWrites = 2
  AllocMayFail = TRUE
  EarlyWriters = {w1}
  LateWriters = {w2}
INVARIANTS
  TypeOK
  WakeUpLostOnlyUnprepared
PROPERTIES
  InOrder
  ExitEnds
