\* Five sets of telemetry, up to fourteen signals each.
CONSTANTS
  ScopeServices = {1, 2, 3}
  Situations <- FiveSituations
  None = 0
  MinimumSample = 2
  RetryTraces = 2
  TailOperations = 2
  MaxHops = 3
SPECIFICATION DetectionSpec
INVARIANTS
  ChronicIsSilent
  ClimbFollowsTheTrace
PROPERTIES
  WorseIsNotAcquitted
CHECK_DEADLOCK FALSE
