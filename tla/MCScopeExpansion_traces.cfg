\* One trace fewer than the entry service crossed.
CONSTANTS
  Services <- FiveServices
  Traces <- ThreeTraces
  Rows <- ChainRows
  Entry = 2
  Lists <- SomeLists
  Depths <- SomeDepths
  MaxServices = 5
  DefaultDepth = 1
  MaxDepth = 3
  MaxTraces = 1
SPECIFICATION Spec
INVARIANTS
  EveryCutIsDeclared
CHECK_DEADLOCK FALSE
