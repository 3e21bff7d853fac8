SPECIFICATION Spec
CONSTANTS
  Threads = {t1, t2}
  Mutators = {t1}
  Callers = {t2}
  Functions = {f}
  Replacements = {r, s}
  Listeners = {l1}
  LeaveListeners = {l1}
  Ctxs = {c1, c2}
  None = None
  MaxListeners = 1
  MaxOps = 3
  MaxOpen = 0
  MaxDepth = 2
SYMMETRY CtxSymmetry
INVARIANTS
  CodeMatchesTable
  AttachedListenersAreReached
PROPERTIES
  ContextsAreReleasedInOrder
  HooksChangeAtomically
