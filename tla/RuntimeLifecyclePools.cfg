SPECIFICATION Spec
CONSTANTS
  Composers = {b1}
  b1 = b1
  Lifespans = {l1}
  l1 = l1
  Callers = {}
  CustomerCount = 2
  Nobody = Nobody
INVARIANTS
  PartialFailureClosesPools
