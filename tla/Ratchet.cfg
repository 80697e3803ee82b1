SPECIFICATION Spec
CONSTANTS
  MaxSkip = 3
  MaxSkipped = 12
  MaxCounter = 3
  MaxKeys = 2
  None = None
CHECK_DEADLOCK FALSE
INVARIANTS OutstandingOpens OpensOnce SealsOnce ForwardSecrecy RootsAgree
PROPERTIES NeverRewinds
