CONSTANTS
  Descriptions <- MCDescriptions
  HelpBits = {0, 1, 2, 3}
  Difficulties = {1}
  MaxRuns = 2
  MaxTests = 1
SPECIFICATION Spec
CHECK_DEADLOCK FALSE
INVARIANT ReadsWhatItWrote
