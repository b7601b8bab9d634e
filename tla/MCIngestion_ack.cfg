\* One request that the server itself cancels.
CONSTANTS
  r1 = r1
  r2 = r2
  Requests = {r1, r2}
  Nobody = Nobody
  Batches <- AllBatches
  Ids = {1, 2}
  Content <- AllContents
  Verdict <- AllVerdicts
  Pools = {1}
  MaxStarts = 1
SPECIFICATION Spec
INVARIANTS
  AnsweredOkIsStored
CHECK_DEADLOCK FALSE
