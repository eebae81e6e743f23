SPECIFICATION Spec
CONSTANTS
  p1 = p1
  p2 = p2
  k1 = k1
  k2 = k2
  Process = {p1, p2}
  Claim = {k1, k2}
  MaxBatches = 3
  MaxBuilds = 3
  MaxErrors = 1
  None = None
CHECK_DEADLOCK FALSE
INVARIANT SubmittedIsNotRetracted
