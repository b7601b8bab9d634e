\* A collection that comes after the start of the incident reveals the change.
CONSTANTS
  c1 = c1
  c2 = c2
  c3 = c3
  amount = amount
  amountIdx = amountIdx
  Collections = {c1, c2}
  Objects <- TwoObjects
  Kind <- TwoKinds
  Details <- TwoDetails
  Grants <- AlwaysGranted
  MaxClock = 3
  MaxMigrations = 1
  MaxGrants = 0
  MaxOverlap = 1
  SingleWriter = FALSE
  Starts = {2, 3}
  Lookback = 2
  Queried <- TwoObjects
SPECIFICATION Spec
INVARIANTS
  StraddlingChangePresented
CHECK_DEADLOCK FALSE
