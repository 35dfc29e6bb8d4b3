SPECIFICATION Spec
CONSTANTS
  Sites <- MCSites
  MaxDraws = 3
  MaxRuns = 3
  Nowhere = Nowhere
INVARIANTS
  TypeOK
  FollowsTheRecording
  OkMeansTheSameUniverse
  StrictImprovisesOnlyInTeardown
PROPERTIES
  FallbackIsPermanent
CHECK_DEADLOCK FALSE
