CONSTANTS
  Inputs <- MCInputs
  SearchBudget = 24
  Reach = 100000
  ShortReach = 128
SPECIFICATION Spec
INVARIANTS
  
  NoBranchIntoTheRedirect
  NoReturnIntoTheRedirect
