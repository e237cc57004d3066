SPECIFICATION Spec
CONSTANTS
  Threads = {t1, t2, t3}
  Streams = {s1, s2}
  Tokens = {a, b}
  BUFFER_SIZE = 2
  NULL = NULL
  Signals = TRUE
SYMMETRY MCSymmetry
INVARIANTS TypeOK MutualExclusion Backed
PROPERTY ImplementsFifo
