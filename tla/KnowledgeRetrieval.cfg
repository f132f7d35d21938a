SPECIFICATION Spec
CONSTANTS
  Requests = {r1}
  r1 = r1
  Generations = {1, 2, 3}
  OperationIds = {op1, op2, op3}
  op1 = op1
  op2 = op2
  op3 = op3
  Profiles = {e1, e2}
  e1 = e1
  e2 = e2
  Profile = e1
  Bound = 1
  Digest <- OddAndEven
SYMMETRY Symmetry
INVARIANTS
  AnswersAreFromOneActive
  BoundReadersAnswerInFull
  EmptyIsJustified
  RefusalIsJustified
