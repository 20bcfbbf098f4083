SPECIFICATION Spec
CONSTANTS
  Keys = {k1, k2}
  Endpoints = {e1, e2}
  Ids = {u1, u2, d1}
  Strong = {u1, u2}
  Orgs = {o1}
  Posts = {p1, p2}
  Requests = {r1}
  Admins = {a1, a2}
  a1 = a1
  a2 = a2
  o1 = o1
  AdminOrg <- MCAdminOrg
  Linkers = {l1}
  None = None
  Shared = Shared
  NoOrg = NoOrg
SYMMETRY MCSymmetry
INVARIANTS TypeOK OneKeyPerEndpoint KeyReportsForOne
PROPERTIES RevokedWritesNothing RotationIsAtomic
CHECK_DEADLOCK FALSE
