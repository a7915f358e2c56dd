SPECIFICATION BoardSpec
CONSTANTS
  Calls = {c1, c2}
  Addresses = {a, b}
  NULL = NULL
  Retention = 1
  IdleWindow = 2
  PageSize = 1
  BatchSize = 1
  MaxBatches = 2
  Instants = {1, 3}
  MaxRows = 3
SYMMETRY Symmetric
INVARIANTS TypeOK LatestIsLast
PROPERTIES ShowsNothingTwice MissesNothing PruneSparesTheRetained PruneLeavesNothingDue LowerJointIsReal LivenessIsHonest
CHECK_DEADLOCK FALSE
