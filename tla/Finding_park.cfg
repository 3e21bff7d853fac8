SPECIFICATION Spec
CONSTANTS
  p1 = p1
  p2 = p2
  Threads = {p1, t1, t2}
  Patchers = {p1}
  FirstThreads = {p1, t1}
  Guarded = TRUE
  Parks = TRUE
  Pages = {1}
  FirstProtection <- CodePage
  PagesOf <- SharedPage
  MaxSlots = 2
  None = None
  Refusable = {}
  Attempts <- UnequalAttempts
CHECK_DEADLOCK FALSE
INVARIANTS
  EveryPeerIsParked
