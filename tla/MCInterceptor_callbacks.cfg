SPECIFICATION Spec
CONSTANTS
  Threads = {t1, t2}
  Mutators = {t1, t2}
  Callers = {t1, t2}
  Functions = {f}
  Replacements = {}
  Listeners = {l1, l2}
  LeaveListeners = {l1}
  Ctxs = {c1, c2}
  None = None
  MaxListeners = 2
  MaxOps = 2
  MaxOpen = 1
  MaxDepth = 1
SYMMETRY Symmetry
CHECK_DEADLOCK FALSE
INVARIANTS
  TypeOK
  LockProtects
  CounterCountsInvocations
  InvocationsAreProtected
  ListenersAreProtected
  
PROPERTIES
  PatchesOnlyAtOutermostEnd
