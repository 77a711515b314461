CONSTANTS
  Descriptions <- MCDescriptions
  HelpBits = {0, 1, 2, 3}
  Difficulties = {1, 2}
  MaxRuns = 3
  MaxTests = 1
SPECIFICATION FairSpec
CHECK_DEADLOCK FALSE
INVARIANTS TypeOK GuessesUsable LoadedAreBest NeverStuck EnoughCandidates ClaimRight
PROPERTIES ChosenIsLowest SearchEnds
