SPECIFICATION FairSpec
CONSTANTS
  Procs = {p1}
  Role = "Initiator"
  Calls <- RestartCalls
  Faults = {"crash"}
  XHandles = {x1}
  KHandles = {}
  EHandles = {e1}
  Initiators = {i1}
  Bodies = {m1}
  Records <- NoRecords
  MaxSeq = 1
  MaxActive = 2
  MaxPending = 3
  MaxSkip = 2
  MaxSkipped = 2
  MaxCounter = 3
  MaxFlows = 3
  MaxRevision = 3
  None = None
CHECK_DEADLOCK FALSE
PROPERTIES SessionReopens
