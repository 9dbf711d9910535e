CONSTANTS
  DP = 2
  Iterations = 3
  Configurations <- MCConfigurations
SPECIFICATION Spec
INVARIANTS
  ReadsLatestParams
  CollectivesMatch
  WgradReadsOwnActivation
  LayoutSound
  ActivationsSurvive
  CheckpointRoundTrips
