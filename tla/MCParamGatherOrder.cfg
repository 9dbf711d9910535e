CONSTANTS
  DP = 2
  Iterations = 2
  Configurations <- OrderConfigurations
SPECIFICATION Spec
INVARIANT GatheredBeforeUse
