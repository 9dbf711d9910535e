SPECIFICATION Spec
CONSTANTS
  Ranks = {0, 1}
  Rank0 = 0
  NumIters = 3
  SaveInterval = 2
  ExitInterval = 2
  RampUp = {1}
  MaxRestarts = 1
  MaxDeaths = 1
  Configs <- MCConfigs
INVARIANTS
  OnlyCompleteIsPublished
  CollectivesMatch
PROPERTIES
  TrackerAdvances
  JobEndsSaved
CHECK_DEADLOCK FALSE
