CONSTANTS
  Archs <- MCArchs
  Base <- Start
  MaxAsked = 3
  Cases <- MCCases
  Threads <- MCThreads
  Calls <- MCCalls
  Labels <- MCLabels
  Gaps <- MCGaps
SPECIFICATION Spec
CHECK_DEADLOCK FALSE
INVARIANTS
  ReadsBackAsAsked
  FlushedCodeIsComplete
  ArgumentsArrive
