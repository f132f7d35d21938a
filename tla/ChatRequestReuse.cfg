SPECIFICATION Spec
CONSTANTS
  Requests = {r1, r2}
  r1 = r1
  r2 = r2
  RequestIds = {i1}
  i1 = i1
  Users = {u1}
  u1 = u1
  NoId = NoId
  NoUser = NoUser
SYMMETRY Symmetry
INVARIANTS
  SequentialReuseIsRejected
