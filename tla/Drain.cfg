SPECIFICATION Spec
CONSTANTS
  Tenants <- MCTenants
  Parent <- MCParent
  Master = "root"
  Standing = {"root", "org"}
  Users <- MCUsers
  Keys = {"key"}
  KeyTenant <- MCKeyTenant
  Roles = {"admin", "clerk"}
  RoleTenant <- MCRoleTenant
  AdminRole = "admin"
  Bindings <- MCBindings
  Callers = {c1, c2}
  Cap = 1
  MaxCalls = 2
  MaxTxns = 5
SYMMETRY MCSymmetry
INVARIANTS
  TypeOK
  DrainedButForLateGrants
  RevokesWithinCap
  BlockersToldTruly
  SeedsEndTruly
CHECK_DEADLOCK FALSE
