SPECIFICATION Spec
CONSTANTS
  Procs = {p1, p2}
  Role = "Responder"
  Calls <- PrekeyCalls
  Faults = {"crash", "misreport"}
  XHandles = {x1, x2, x3}
  KHandles = {k1, k2, k3}
  EHandles = {}
  Initiators = {i1, i2}
  Bodies = {m1}
  Records <- NoRecords
  MaxSeq = 2
  MaxActive = 2
  MaxPending = 3
  MaxSkip = 2
  MaxSkipped = 2
  MaxCounter = 3
  MaxFlows = 3
  MaxRevision = 4
  None = None
SYMMETRY Symmetric
CHECK_DEADLOCK FALSE
INVARIANTS HandleCoherence PrekeysDisjoint AnswersDurable AnswersAgree
PROPERTIES TerminalMeansUncommitted HighWaterMonotone Implements
