\* One commit deployed in two services.
CONSTANTS
  Services = {1, 2, 3}
  Commits = {5}
  Classes <- FourClasses
  ClassOf <- SevenRules
  Weight <- FourWeights
  Unit = 2
  Symptoms <- SixSymptoms
  Nearby <- ThreeNearby
  Depths <- SomeDepths
  TopNs = {0, 2, 4}
SPECIFICATION Spec
INVARIANTS
  FailingDeployAccused
CHECK_DEADLOCK FALSE
