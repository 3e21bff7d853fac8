SPECIFICATION Spec
CONSTANTS
  f1 = f1
  f2 = f2
  l1 = l1
  l2 = l2
  None = None
  Threads = {t1, t2}
  Callers = {t1}
  Selectors = {t2}
  Functions = {f1, f2}
  Listeners = {l1, l2}
  Keepers = {l1, l2}
  Attached <- AttachedAtFirst
  Replaced = {f1}
  LeaveListeners = {l1}
  Unignorable = {l2}
  MaxSp = 2
  MaxEntries = 2
  MaxIgnore = 1
CONSTRAINT OneConcern
INVARIANTS
  ReturnsToCaller
  EnteredAsDue
  LeftWereEntered
  ThreadDataIsPrivate
  CountersCountEntries
  LiveFramesKeepEntries
