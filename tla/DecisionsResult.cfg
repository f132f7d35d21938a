SPECIFICATION Spec
CONSTANTS
  Wide <- WideLetters
  Documents <- SomeDocuments
  Limits <- SomeLimits
  Entry <- TheEntry
  Sources <- SomeSources
  Revisions <- SomeRevisions
  RevisionLimits <- TheRevisionLimits
  Rankings <- SomeRankings
  Policies <- SomePolicies
  Requests <- SomeRequests
  Calibrations <- SomeCalibrations
  Top = 10
  Suites <- SomeSuites
  Config <- TheConfig
  Tokens <- SomeTokens
  Arrivals <- SomeArrivals
  Conversations <- SomeConversations
  Cooperative <- SomeCooperative
INVARIANTS
  ModelSeesTheResult
