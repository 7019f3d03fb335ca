SPECIFICATION Spec
CONSTANTS
  Tenants = {"root", "org"}
  Master = "root"
  Rows = {"system", "local"}
  RowTenant <- MCRowTenant
  Requests = {q}
  MaxArrivals = 1
  MaxChanges = 2
INVARIANTS
  TypeOK
  ActsWhereAllowed
  AnswersTellTruly
  CleanExit
PROPERTIES
  SignalledEnds
CHECK_DEADLOCK FALSE
