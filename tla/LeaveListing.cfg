SPECIFICATION Spec
CONSTANTS
  Clients = {c1}
  c1 = c1
  RequestIds = {1, 2}
  Statuses = {pending, closed}
  pending = pending
  closed = closed
  whole = whole
  partial = partial
  nobody = nobody
  Scopes = {whole, partial, nobody}
  Owned <- OwnedByScope
  Unscoped = {nobody}
  Filters <- AllOrPending
  Limits = {1, 2}
  Keys = {k1, k2}
  k1 = k1
  k2 = k2
  TTL = 1
  MaxTime = 2
  MaxSteps = 1
  MaxCalls = 3
SYMMETRY Symmetry
INVARIANTS
  NoRowTwice
  NoRowLost
  OneQueryPerListing
  RefusalIsJustified
