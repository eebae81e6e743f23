SPECIFICATION Spec
CONSTANTS
  p1 = p1
  p2 = p2
  c1 = c1
  c2 = c2
  Process = {p1, p2}
  Candidate = {c1, c2}
  MaxCalls = 2
  MaxGeneration = 2
  MaxIntent = 2
  MaxCuts = 1
  None = None
SYMMETRY Interchangeable
CHECK_DEADLOCK FALSE
INVARIANT GitHoldsReservedPlan
INVARIANT OneSpacePerTask
INVARIANT DecisionIsCarried
PROPERTY DecisionsAreFinal
