SPECIFICATION FairSpoolSpec
CONSTANTS
  BatchMax = 2
  FifoMax = 1
  DrainReads = 2
  ReadMax = 1
  Nothing = Nothing
  MaxEvents = 2
  MaxFaults = 0
  MaxCrashes = 0
  MaxInits = 0
  MaxSyncs = 0
  MaxToggles = 0
CHECK_DEADLOCK FALSE
PROPERTY EventuallyReady
