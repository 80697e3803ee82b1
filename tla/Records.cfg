SPECIFICATION SessionSpec
CONSTANTS
  Procs = {p1, p2}
  Role = "Responder"
  Calls <- RecordCalls
  Faults = {"crash", "misreport"}
  XHandles = {x1, x2, x3}
  KHandles = {k1}
  EHandles = {}
  Initiators = {i1}
  Bodies = {m1, m2}
  Records <- ResponderRecords
  MaxSeq = 1
  MaxActive = 2
  MaxPending = 3
  MaxSkip = 2
  MaxSkipped = 2
  MaxCounter = 3
  MaxFlows = 3
  MaxRevision = 7
  None = None
SYMMETRY Symmetric
CHECK_DEADLOCK FALSE
INVARIANTS RInv MessageKeyOnce SentBacked ReceivedBacked
PROPERTIES NoSilentLoss NoResurrection StepsImplement
