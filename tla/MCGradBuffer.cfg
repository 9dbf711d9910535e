SPECIFICATION Spec
CONSTANTS
  tied = tied
  linear = linear
  norm = norm
  other = other
  b1 = b1
  b2 = b2
  Params <- MCParams
  LinearParams <- MCLinearParams
  TiedParams <- MCTiedParams
  Buckets <- MCBuckets
  BucketOf <- MCBucketOf
  MaxMicrobatches = 3
  MaxIterations = 3
  Configs <- MCConfigs
INVARIANTS
  CommunicatesCompleteGrads
  OptimizerReadsThisIteration
  NoAssertionFails
  A2aAgIsQuantizedSum
PROPERTIES
  IterationsComplete
CHECK_DEADLOCK FALSE
