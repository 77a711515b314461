CONSTANTS
  Var <- OneTestVars
  ElementType <- MCElementType
  Problems <- OneTestProblems
SPECIFICATION FairSpec
CHECK_DEADLOCK FALSE
INVARIANTS TypeOK SolutionsKept PropagatedOnce FixedPoint RefutedRightly SameVarsLinked SameVarsResolved
           NoSelfReference Linearized NeededKept NeverFails
PROPERTIES EventuallyEnds Solved
