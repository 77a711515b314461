CONSTANTS
  Var <- PropagateVars
  ElementType <- MCElementType
  Problems <- PropagateProblems
SPECIFICATION Spec
CHECK_DEADLOCK FALSE
INVARIANTS ContradictionStops
