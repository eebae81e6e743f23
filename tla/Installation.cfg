SPECIFICATION Spec
CONSTANTS
  p1 = p1
  Process = {p1}
  Files = 4
  Targets <- MCTargets
  Pristine <- MCPristine
  Recorded <- MCRecorded
  Legacy <- MCLegacy
  Business <- MCBusiness
  Repository = 3
  Manifest = 4
  MaxOps = 3
  MaxWrites = 2
  MaxCrashes = 2
CHECK_DEADLOCK FALSE
INVARIANT AllOldOrAllNew
INVARIANT RollbackHasItsSource
INVARIANT UndoneLeavesNothing
INVARIANT RepositoryIsKept
