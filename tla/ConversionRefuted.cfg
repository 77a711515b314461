SPECIFICATION FairSpec
CONSTANTS
  Var <- MCVar
  Problems <- RefutedProblems
  Settings <- PlainSettings
  Draws <- MCDraws
  MaxTests = 1
INVARIANT ContradictionsKept
CHECK_DEADLOCK FALSE
