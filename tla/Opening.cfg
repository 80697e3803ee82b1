SPECIFICATION Spec
CONSTANTS
  Procs = {p1, p2}
  Role = "Initiator"
  Calls <- OpeningCalls
  Faults = {"misreport"}
  XHandles = {x1, x2}
  KHandles = {}
  EHandles = {e1, e2}
  Initiators = {i1}
  Bodies = {m1}
  Records <- InitiatorRecords
  MaxSeq = 1
  MaxActive = 2
  MaxPending = 3
  MaxSkip = 2
  MaxSkipped = 2
  MaxCounter = 3
  MaxFlows = 3
  MaxRevision = 5
  None = None
SYMMETRY Symmetric
CHECK_DEADLOCK FALSE
INVARIANTS EntropySpent StagedAccounted
PROPERTIES Implements
