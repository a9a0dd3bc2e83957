CONSTANTS
  Threads = {t1, t2, t3}
  NoThread = NoThread
  Ordered = FALSE
SPECIFICATION FairSpec
INVARIANTS
  SeededOnce
  ReturnsReady
PROPERTY CallsReturn
