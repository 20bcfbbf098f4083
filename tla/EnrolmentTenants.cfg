SPECIFICATION Spec
CONSTANTS
  Keys = {k1}
  Endpoints = {e1}
  Ids = {u1}
  Strong = {u1}
  Orgs = {o1, o2}
  Posts = {p1, p2}
  Requests = {}
  Admins = {a1, a2}
  a1 = a1
  a2 = a2
  o1 = o1
  AdminOrg <- MCAdminOrg
  Linkers = {l1, l2}
  None = None
  Shared = Shared
  NoOrg = NoOrg
INVARIANTS KeysStayInTenant
CHECK_DEADLOCK FALSE
