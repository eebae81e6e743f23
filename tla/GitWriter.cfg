SPECIFICATION FairSpec
CONSTANTS
  p1 = p1
  p2 = p2
  b1 = b1
  b2 = b2
  b3 = b3
  e1 = e1
  e2 = e2
  e3 = e3
  o1 = o1
  None = None
  Process = {p1, p2}
  Batch = {b1, b2}
  Path = {e1, e2, o1}
  Object = {o1}
  FilesOf <- MCSharedFiles
  EventOf <- MCSharedEvent
  MaxCrashes = 2
INVARIANTS
  BatchAtomicity
  NothingDurableIsLost
  AckedIsCommitted
PROPERTIES
  EventuallySettled
  AsideStaysOut
  ImplementsAppendLog
CHECK_DEADLOCK FALSE
