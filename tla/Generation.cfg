CONSTANTS
  Var <- SoundVars
  Jobs <- SoundJobs
SPECIFICATION FairSpec
INVARIANTS EquationsTrue EveryBitDefinedOnce Determined
PROPERTY GenerationEnds
CHECK_DEADLOCK FALSE
