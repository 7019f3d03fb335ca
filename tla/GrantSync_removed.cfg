SPECIFICATION Spec
CHECK_DEADLOCK FALSE
CONSTANTS
  master = master
  org = org
  vault = vault
  plain = plain
  crossing = crossing
  read = read
  local = local
  Nothing = Nothing
  NoTenant = NoTenant
  Master = master
  Tenants = {master, org}
  Parent <- Pair
  Inherit <- PairInherit
  Principals = {alice}
  Roles = {plain}
  Scopes = {read}
  Crosses <- CrossesBoundary
  Owner <- OwnedBy
  Workers = {w1}
  Operations = {"bind", "revoke", "removeScope"}
  MaxTxns = 3
  MaxFailures = 0
INVARIANTS
  InSyncWhenDrained
