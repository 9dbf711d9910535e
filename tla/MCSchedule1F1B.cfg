SPECIFICATION Spec
CONSTANTS
  P = 4
  Configs <- MCConfigs
INVARIANTS
  MicrobatchesMatch
  GradSyncOnceComplete
PROPERTIES
  Termination
  ImplementsPipelineOrder
CHECK_DEADLOCK FALSE
