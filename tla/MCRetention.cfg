\* Two PostgreSQL runs drain telemetry and catalogs while rows keep arriving.
CONSTANTS
  r1 = r1
  r2 = r2
  Runs = {r1, r2}
  Signals <- TwoSignals
  Stamp <- TwoStamps
  Catalogs <- ThreeCatalogs
  CapturedAt <- ThreeCaptures
  Base <- ThreeBases
  Cutoffs = {3}
  BatchSizes = {0, 1}
  MaxBatchSize = 1
  MaxBatches = 2
  SingleWriter = FALSE
SPECIFICATION FairSpec
INVARIANTS
  TypeOK
  NoOrphanLeftBehind
  NoWorkCountedTwice
  LatestCatalogIntact
PROPERTIES
  EveryRunEnds
CHECK_DEADLOCK FALSE
