CONSTANTS
  Var <- FixedVars
  ElementType <- MCElementType
  Problems <- FixedProblems
SPECIFICATION Spec
CHECK_DEADLOCK FALSE
INVARIANTS NothingLost
