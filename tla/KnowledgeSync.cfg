SPECIFICATION FairKnowledgeSpec
CONSTANTS
  own1 = own1
  own2 = own2
  broken = broken
  foreign = foreign
  clashing = clashing
  Local = {own1, own2}
  Others = {clashing, broken, foreign}
  Invalid = {broken}
  Foreign = {foreign}
  Clash <- MCClash
  NoBranch = NoBranch
  PushAttempts = 3
  MaxFailures = 1
  MaxDeaths = 1
CHECK_DEADLOCK FALSE
INVARIANT PublishedIsSound
PROPERTY AppendedIsKept
PROPERTY EventuallyPublished
