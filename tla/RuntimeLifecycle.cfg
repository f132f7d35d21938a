SPECIFICATION FairSpec
CONSTANTS
  Composers = {b1, b2}
  b1 = b1
  b2 = b2
  Lifespans = {l1, l2}
  l1 = l1
  l2 = l2
  Callers = {t1}
  t1 = t1
  CustomerCount = 2
  Nobody = Nobody
INVARIANTS
  OneRuntimePerLease
  NothingIsForgotten
PROPERTIES
  OpenedOnce
  CallsEnd
