SPECIFICATION SessionSpec
CONSTANTS
  Procs = {p1, p2}
  Role = "Initiator"
  Calls <- FlowCalls
  Faults = {"crash", "misreport"}
  XHandles = {x1}
  KHandles = {}
  EHandles = {e1}
  Initiators = {i1}
  Bodies = {m1, m2}
  Records <- NoRecords
  MaxSeq = 1
  MaxActive = 2
  MaxPending = 3
  MaxSkip = 2
  MaxSkipped = 2
  MaxCounter = 3
  MaxFlows = 2
  MaxRevision = 8
  None = None
SYMMETRY Symmetric
CHECK_DEADLOCK FALSE
INVARIANTS EffectsAccounted
PROPERTIES DeletionFinal StepsImplement
