SPECIFICATION Spec
CONSTANTS
  Threads = {t1}
  Batches = {b1, b2}
  SlicesPerBatch = 2
  Bases = {0, 4}
  NearAddress = 4
  MaxDistance = 3
  Alignment = 2
  Platforms <- AllPlatforms
  None = None
  MaxFailed = 1
CHECK_DEADLOCK FALSE
INVARIANTS
  
  PendingPagesAreLive
  NothingLeftBehind
