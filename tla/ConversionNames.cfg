SPECIFICATION FairSpec
CONSTANTS
  Var <- MCVar
  Problems <- AlikeProblems
  Settings <- PlainSettings
  Draws <- MCDraws
  MaxTests = 1
INVARIANT Nameable
CHECK_DEADLOCK FALSE
