SPECIFICATION Spec
CONSTANTS
  p1 = p1
  p2 = p2
  d1 = d1
  d2 = d2
  e1 = e1
  e2 = e2
  m1 = m1
  m2 = m2
  r1 = r1
  r2 = r2
  None = None
  Peers <- MCPeers
  Endpoints <- MCEndpoints
  IdentityDigests <- MCDigests
  ManagementKeys <- MCManagement
  RecoveryKeys <- MCRecovery
  Founding <- MCFounding
  MaxEpoch = 4
  MaxDevices = 2
  MaxCatchUp = 2
  MaxPublished = 4
SYMMETRY Symmetry
INVARIANTS AdmittedSince 
PROPERTIES StaysOnBranch
CHECK_DEADLOCK FALSE
