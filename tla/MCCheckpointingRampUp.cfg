SPECIFICATION Spec
CONSTANTS
  Ranks = {0, 1}
  Rank0 = 0
  NumIters = 3
  SaveInterval = 2
  ExitInterval = 3
  RampUp = {2}
  MaxRestarts = 0
  MaxDeaths = 0
  Configs <- MCRampUpConfigs
PROPERTIES
  RampUpSavesCheckpoint
CHECK_DEADLOCK FALSE
