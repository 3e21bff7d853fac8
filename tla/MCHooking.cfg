CONSTANTS
  Archs <- MCArchs
  Hooks <- MCHooks
  ChangeSets <- MCChanging
SPECIFICATION Spec
CHECK_DEADLOCK FALSE
INVARIANTS
  ControlArrives
  
  ContextIsCallers
  CodeFits
