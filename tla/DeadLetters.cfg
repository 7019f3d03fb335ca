SPECIFICATION Spec
CONSTANTS
  Ids <- MCIds
  TypeOf <- MCTypeOf
  Operators = {o1, o2}
  Cap = 2
  Limit = 1
  MaxDeaths = 3
  MaxCalls = 2
SYMMETRY MCSymmetry
CHECK_DEADLOCK FALSE
INVARIANTS
  TypeOK
  EveryDeathLogged
  SnapshotsAreEarlier
  BulkTakesAllOrCap
  WalkIsComplete
PROPERTY
  CallsAreOneStep
