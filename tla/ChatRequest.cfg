SPECIFICATION FairSpec
CONSTANTS
  Requests = {r1, r2}
  r1 = r1
  r2 = r2
  RequestIds = {i1}
  i1 = i1
  Users = {u1, u2}
  u1 = u1
  u2 = u2
  NoId = NoId
  NoUser = NoUser
INVARIANTS
  AnswersAreAudited
  SuccessHasItsChain
  LogsAgree
  ReservedIdsAreOpen
PROPERTIES
  RequestsEnd
