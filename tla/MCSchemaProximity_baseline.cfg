\* The first collection of a base ran without privilege on its tables.
CONSTANTS
  c1 = c1
  c2 = c2
  c3 = c3
  amount = amount
  amountIdx = amountIdx
  Collections = {c1, c2}
  Objects <- TwoObjects
  Kind <- TwoKinds
  Details <- TwoDetails
  Grants <- AllOrNothing
  MaxClock = 3
  MaxMigrations = 0
  MaxGrants = 1
  MaxOverlap = 1
  SingleWriter = FALSE
  Starts = {2, 3}
  Lookback = 2
  Queried <- TwoObjects
SPECIFICATION Spec
INVARIANTS
  NothingAccusedAsNew
CHECK_DEADLOCK FALSE
