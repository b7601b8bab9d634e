\* The pruning fails after telemetry was removed: the command prints nothing.
CONSTANTS
  r1 = r1
  Runs = {r1}
  Signals <- TwoSignals
  Stamp <- TwoStamps
  Catalogs <- ThreeCatalogs
  CapturedAt <- ThreeCaptures
  Base <- ThreeBases
  Cutoffs = {3}
  BatchSizes = {0, 1}
  MaxBatchSize = 1
  MaxBatches = 2
  SingleWriter = FALSE
SPECIFICATION Spec
INVARIANTS
  OperatorToldOfRemoval
CHECK_DEADLOCK FALSE
