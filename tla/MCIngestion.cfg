\* Two requests with one connection (SQLite) and two (PostgreSQL), one restart.
CONSTANTS
  r1 = r1
  r2 = r2
  Requests = {r1, r2}
  Nobody = Nobody
  Batches <- AllBatches
  Ids = {1, 2}
  Content <- AllContents
  Verdict <- AllVerdicts
  Pools = {1, 2}
  MaxStarts = 2
SPECIFICATION FairSpec
INVARIANTS
  TypeOK
  SuccessIsStored
  WholeOrNothing
  CountIsExact
  CleanStopAnswersAll
PROPERTIES
  FirstVersionKept
  EveryRequestEnds
CHECK_DEADLOCK FALSE
