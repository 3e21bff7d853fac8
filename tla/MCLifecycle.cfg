SPECIFICATION Spec
CONSTANTS
  t1 = t1
  t2 = t2
  Threads = {t1, t2}
  Forkers = {t1}
  Objects = {o1, o2}
  Ctxs = {c1, c2}
  None = None
  Programs <- CarefulOrNot
  MaxOwned = 1
  MaxInits = 2
  MaxGeneration = 2
  MaxDepth = 1
SYMMETRY Symmetry
CHECK_DEADLOCK FALSE
INVARIANTS
  InUseIsLive
  CountersMatchCalls
  NoOrphanedLock
  FinalizeReleasesAll
