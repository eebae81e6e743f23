SPECIFICATION FairSpoolSpec
CONSTANTS
  BatchMax = 2
  FifoMax = 2
  DrainReads = 2
  ReadMax = 4
  Nothing = Nothing
  MaxEvents = 2
  MaxFaults = 1
  MaxCrashes = 1
  MaxInits = 1
  MaxSyncs = 1
  MaxToggles = 1
CHECK_DEADLOCK FALSE
INVARIANT PersistedIsKept
INVARIANT ReadyFitsManifest
INVARIANT AckCoversEarlier
PROPERTIES EventuallyReady ImplementsQueue
