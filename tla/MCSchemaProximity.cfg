\* Three collections of one base overlap with a migration and with grants.
CONSTANTS
  c1 = c1
  c2 = c2
  c3 = c3
  amount = amount
  amountIdx = amountIdx
  Collections = {c1, c2, c3}
  Objects <- TwoObjects
  Kind <- TwoKinds
  Details <- TwoDetails
  Grants <- AllOrNothing
  MaxClock = 3
  MaxMigrations = 1
  MaxGrants = 1
  MaxOverlap = 2
  SingleWriter = FALSE
  Starts = {2, 3}
  Lookback = 2
  Queried <- TwoObjects
SPECIFICATION Spec
INVARIANTS
  TypeOK
  NoChangeInvented
  NetDifferenceExplained
  CertainBlameIsEarlier
SYMMETRY AnyCollection
CHECK_DEADLOCK FALSE
