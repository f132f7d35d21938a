SPECIFICATION Spec
CONSTANTS
  Callers = {p1, p2}
  p1 = p1
  p2 = p2
  Namespaces = {ns1}
  ns1 = ns1
  OperationIds = {op1, op2}
  op1 = op1
  op2 = op2
  Documents = {d1}
  d1 = d1
  MaxCalls = 3
PROPERTIES
  ReplayReturnsOriginal
