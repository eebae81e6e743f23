SPECIFICATION FairSpoolSpec
CONSTANTS
  BatchMax = 2
  FifoMax = 1
  DrainReads = 2
  ReadMax = 4
  Nothing = Nothing
  MaxEvents = 1
  MaxFaults = 0
  MaxCrashes = 0
  MaxInits = 1
  MaxSyncs = 1
  MaxToggles = 0
CHECK_DEADLOCK FALSE
PROPERTY EventuallyBound
