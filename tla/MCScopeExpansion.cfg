\* The walk over shared traces while telemetry keeps arriving.
CONSTANTS
  Services <- FiveServices
  Traces <- ThreeTraces
  Rows <- ChainRows
  Entry = 2
  Lists <- SomeLists
  Depths <- SomeDepths
  MaxServices = 4
  DefaultDepth = 1
  MaxDepth = 3
  MaxTraces = 3
SPECIFICATION Spec
INVARIANTS
  EveryHopExplained
  ScopeWithinLimits
  CompleteUnlessTruncated
CHECK_DEADLOCK FALSE
