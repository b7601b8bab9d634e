\* A failed span wrote a record of log.
CONSTANTS
  ScopeServices = {1, 2, 3}
  Situations <- LoggedFailure
  None = 0
  MinimumSample = 2
  RetryTraces = 2
  TailOperations = 2
  MaxHops = 8
SPECIFICATION DetectionSpec
INVARIANT FailedCallerIsSeen
CHECK_DEADLOCK FALSE
