CONSTANTS
  Var <- SameVarsVars
  ElementType <- MCElementType
  Problems <- SameVarsProblems
SPECIFICATION Spec
CHECK_DEADLOCK FALSE
INVARIANTS SameVarsEqual
