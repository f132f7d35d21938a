SPECIFICATION Spec
CONSTANTS
  Callers = {p1, p2, p3}
  p1 = p1
  p2 = p2
  p3 = p3
  Namespaces = {ns1, ns2}
  OperationIds = {op1, op2, op3}
  Documents = {d1}
  ns1 = ns1
  ns2 = ns2
  op1 = op1
  op2 = op2
  op3 = op3
  d1 = d1
  MaxCalls = 3
SYMMETRY Symmetry
INVARIANTS
  ActiveIsPointed
  OutboxIsHistory
  RefusedMeansNoEffect
  SomeoneProceeds
PROPERTIES
  ImplementsRegister
