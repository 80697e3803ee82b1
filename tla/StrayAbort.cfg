SPECIFICATION Spec
CONSTANTS
  Procs = {p1, p2}
  Role = "Responder"
  Calls <- PrekeyCalls
  Faults = {}
  XHandles = {x1, x2}
  KHandles = {k1, k2}
  EHandles = {}
  Initiators = {i1}
  Bodies = {m1}
  Records <- NoRecords
  MaxSeq = 2
  MaxActive = 2
  MaxPending = 3
  MaxSkip = 2
  MaxSkipped = 2
  MaxCounter = 3
  MaxFlows = 3
  MaxRevision = 3
  None = None
SYMMETRY Symmetric
CHECK_DEADLOCK FALSE
INVARIANTS AbortsOnlyUncommitted
