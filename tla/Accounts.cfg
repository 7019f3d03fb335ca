SPECIFICATION Spec
CHECK_DEADLOCK FALSE
SYMMETRY Symmetry
CONSTANTS
  s1 = s1
  s2 = s2
  e1 = e1
  e2 = e2
  None = None
  Ids = {u1, u2}
  Emails = {e1, e2}
  Subs = {s1, s2}
  Tokens <- People
  Clients = {c1, c2}
  Admins = {a1, a2}
  MaxLogins = 3
  MaxCalls = 3
INVARIANTS
  TypeOK
  LoginsWereLive
  OneUserPerIdentity
  AuditTellsState
