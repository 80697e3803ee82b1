SPECIFICATION Spec
CONSTANTS
  MaxSkip = 1
  MaxSkipped = 2
  MaxCounter = 3
  MaxKeys = 2
  None = None
CHECK_DEADLOCK FALSE
INVARIANTS RefusedOnlyByBounds SkippedOutstanding
