SPECIFICATION Spec
CONSTANTS
  Replicas = {1, 2}
  Shards = {1, 2}
  LastShard = 2
  InitialScale = 1
  MinScale = 0
  GrowthInterval = 2
  Hysteresis = 2
  SafeScale = 1
  MaxSpikes = 2
  MaxRestarts = 0
PROPERTIES
  BackoffNeedsConsecutiveNaNs
