SPECIFICATION FairSpec
CHECK_DEADLOCK FALSE
CONSTANTS
  master = master
  org = org
  vault = vault
  plain = plain
  crossing = crossing
  read = read
  local = local
  Nothing = Nothing
  NoTenant = NoTenant
  Master = master
  Tenants = {master, org, vault}
  Parent <- Chain
  Inherit <- Boundary
  Principals = {alice}
  Roles = {plain, crossing}
  Scopes = {read}
  Crosses <- CrossesBoundary
  Owner <- OwnedBy
  Workers = {w1}
  Operations = {"bind", "revoke", "addScopes", "createTenant"}
  MaxTxns = 3
  MaxFailures = 1
INVARIANTS
  InSyncWhenDrained
PROPERTIES
  Converges
