SPECIFICATION FairSpec
CONSTANTS
  Batches = 2
  ShardCap = 2
  MaxRetries = 1
  Months = 2
  MaxIndex = 3
  MaxCuts = 2
  MaxForeign = 1
  MaxRewrites = 1
  Tears = TRUE
  None = None
CHECK_DEADLOCK FALSE
INVARIANT NothingIsLost
INVARIANT OneCopyPerRemote
PROPERTY EventuallyUploaded
