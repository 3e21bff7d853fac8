SPECIFICATION FairSpec
CONSTANTS
  Threads = {t1, t2}
  Mutators = {t1, t2}
  Callers = {t2}
  Functions = {f}
  Replacements = {}
  Listeners = {l1}
  LeaveListeners = {l1}
  Ctxs = {c1}
  None = None
  MaxListeners = 1
  MaxOps = 2
  MaxOpen = 0
  MaxDepth = 1
PROPERTIES
  GivenUpIsReleased
  ApiCallsReturn
