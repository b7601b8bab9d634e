\* Both backends, three processes that start together or one after another.
CONSTANTS
  p1 = p1
  p2 = p2
  p3 = p3
  Procs = {p1, p2, p3}
  Nobody = Nobody
  Ghost = Ghost
  N = 3
  Knows <- OneIsOlder
  Rerunnable = {2}
  Drivers = {"postgres", "sqlite"}
  MaxStarts = 1
SPECIFICATION FairSpec
INVARIANTS
  TypeOK
  ReadyIsComplete
  NoConflictUnderLock
PROPERTIES
  VersionsInOrder
  EveryCommandEnds
CHECK_DEADLOCK FALSE
