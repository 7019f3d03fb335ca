SPECIFICATION Spec
CHECK_DEADLOCK FALSE
CONSTANTS
  master = master
  org = org
  vault = vault
  plain = plain
  crossing = crossing
  read = read
  local = local
  Nothing = Nothing
  NoTenant = NoTenant
  Master = master
  Tenants = {master, org}
  Parent <- Pair
  Inherit <- PairInherit
  Principals = {alice}
  Roles = {plain, crossing}
  Scopes = {local}
  Crosses <- CrossesBoundary
  Owner <- OwnedBy
  Workers = {w1}
  Operations = {"bind", "revoke", "revokeAll", "expire", "addScopes", "removeScope", "createTenant", "deleteTenant"}
  MaxTxns = 3
  MaxFailures = 1
INVARIANTS
  TypeOK
  GrantsAnnounced
  LeaksExplained
