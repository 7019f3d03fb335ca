SPECIFICATION PermissionsSpec
CONSTANTS
  Ids = {t1, t2, t3, t4}
  Master = root
  NoTenant = none
  ScopeIds = {s1, s2}
  Names = {read, write}
SYMMETRY MCSymmetry
INVARIANTS
  DescendantsFollowRule
  QueriesEndAndAgree
  ResolutionIsNearest
  GrantsWorkByName
PROPERTIES
  NamesMoveLocally
CHECK_DEADLOCK FALSE
