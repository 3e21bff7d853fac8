SPECIFICATION Spec
CONSTANTS
  p1 = p1
  p2 = p2
  Threads = {p1, p2, t1}
  Patchers = {p1, p2}
  FirstThreads = {p1, p2}
  Guarded = TRUE
  Parks = TRUE
  Pages = {1}
  FirstProtection <- CodePage
  PagesOf <- SharedPage
  MaxSlots = 2
  None = None
  Refusable = {p2}
  Attempts <- UnequalAttempts
CHECK_DEADLOCK FALSE
INVARIANTS
  PeersAreParked
  
  
PROPERTIES
  ParkedThreadsComeBack
