SPECIFICATION Spec
CONSTANTS
  Batches = 2
  ShardCap = 1
  MaxRetries = 1
  Months = 1
  MaxIndex = 3
  MaxCuts = 1
  MaxForeign = 0
  MaxRewrites = 0
  Tears = FALSE
  None = None
CHECK_DEADLOCK FALSE
INVARIANT ConflictNeedsAnotherWriter
