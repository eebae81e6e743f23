SPECIFICATION Spec
CONSTANTS
  None = None
  Batches <- MCBatches
CHECK_DEADLOCK FALSE
INVARIANT AccountedFor
INVARIANT NothingDangles
INVARIANT AcceptedIsNewest
PROPERTY NoWinnerIsPicked
PROPERTY ConfirmationsAreKept
