SPECIFICATION Spec
CONSTANTS
  P = 3
  V = 3
  Configs <- MCConfigs
INVARIANTS
  TensorsInOrder
  SyncsOnceInTime
  ActivationsInFlight
PROPERTIES
  Termination
  ImplementsPipelineOrder
CHECK_DEADLOCK FALSE
