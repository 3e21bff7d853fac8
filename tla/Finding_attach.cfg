SPECIFICATION Spec
CONSTANTS
  Threads = {t1, t2}
  Mutators = {t1}
  Callers = {t2}
  Functions = {f}
  Replacements = {}
  Listeners = {l1}
  LeaveListeners = {l1}
  Ctxs = {c1, c2, c3}
  None = None
  MaxListeners = 1
  MaxOps = 3
  MaxOpen = 1
  MaxDepth = 1
CHECK_DEADLOCK FALSE
INVARIANTS
  AttachedListenersAreReached
