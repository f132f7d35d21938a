SPECIFICATION Spec
CONSTANTS
  Workers = {w1, w2, w3}
  w1 = w1
  w2 = w2
  w3 = w3
  OperationIds = {op1, op2, op3}
  op1 = op1
  op2 = op2
  op3 = op3
  Generations = {g1, g2}
  g1 = g1
  g2 = g2
  Profiles = {e1, e2}
  e1 = e1
  e2 = e2
  Vectors = {v1, v2}
  v1 = v1
  v2 = v2
  MaxCalls = 3
SYMMETRY Symmetry
INVARIANTS
  SetsAreAccountedFor
  ConflictMeansNoEffect
  SomeoneProceeds
PROPERTIES
  ImplementsRegister
