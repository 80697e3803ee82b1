SPECIFICATION Spec
CONSTANTS
  p1 = p1
  p2 = p2
  e1 = e1
  e2 = e2
  None = None
  Peers <- MCPeers
  Endpoints <- MCEndpoints
  MaxEpoch = 3
  MaxChainRecords = 3
  MaxItems = 1
  MaxRecords = 4
SYMMETRY Symmetry
INVARIANTS ForkAccountable ChecksAgree
CHECK_DEADLOCK FALSE
