SPECIFICATION Spec
CONSTANTS
  Keys = {k1, k2}
  Endpoints = {e1}
  Ids = {u1}
  Strong = {u1}
  Orgs = {o1}
  Posts = {p1}
  Requests = {r1}
  Admins = {a1, a2}
  a1 = a1
  a2 = a2
  o1 = o1
  AdminOrg <- MCAdminOrg
  Linkers = {}
  None = None
  Shared = Shared
  NoOrg = NoOrg
PROPERTIES DecidedOnce
CHECK_DEADLOCK FALSE
