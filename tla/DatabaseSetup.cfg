SPECIFICATION FairSpec
CONSTANTS
  Jobs = {j1, j2}
  j1 = j1
  j2 = j2
  Servers = {s1}
  s1 = s1
  old = old
  new = new
  next = next
  edited = edited
  customer = customer
  stranger = stranger
  Releases = {old, new, next, edited}
  Manifest <- ManifestOf
  Forcing = 2
  Altering = {2}
  Identities = {customer, stranger}
  Unbound = Unbound
  Configs <- SomeConfigs
  Deployments <- SomeDeployments
  MaxRuns = 2
  MaxOpens = 1
INVARIANTS
  HistoriesAreWhole
  OneOwner
  AnswersFitSchema
  RefusalIsJustified
PROPERTIES
  JobsEnd
