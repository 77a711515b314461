SPECIFICATION FairSpec
CONSTANTS
  Var <- MCVar
  Problems <- MCProblems
  Settings <- MCSettings
  Draws <- MCDraws
  MaxTests = 2
INVARIANTS TypeOK ModelsKept FileRight SimplifiedSame ReusedDefined NeverFails
PROPERTY EventuallyWritten
CHECK_DEADLOCK FALSE
