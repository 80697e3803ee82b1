SPECIFICATION Spec
CONSTANTS
  s1 = s1
  s2 = s2
  x = x
  y = y
  z = z
  o1 = o1
  o2 = o2
  e1 = e1
  e2 = e2
  r1 = r1
  r2 = r2
  m1 = m1
  m2 = m2
  ga = ga
  gb = gb
  None = None
  NoCode = NoCode
  NoDigest = NoDigest
  NoBundle = NoBundle
  NoMessage = NoMessage
  Network = Network
  Sessions <- MCSessions
  Roots <- MCRoots
  KeysOfRoot = 4
  Observers <- MCObservers
  Bundles <- MCBundles
  Content <- MCContent
  Endpoints <- MCEndpoints
  Founder = e1
  Routes <- MCRoutes
  Messages <- MCMessages
  Statuses = {202, 204}
  GovernanceRoles <- MCRoles
  MaxInteger = 10
  MaxSignatures = 64
  MaxObservations = 16
  MaxIdentityEpoch = 9
  MaxNow = 1
  MaxConfirmationIds = 32
  MaxConfirmedCode = 13
  MaxRetries = 2
  MaxMigrations = 2
  MaxTransitions = 9
  MaxMembers = 64
  MaxGroupEpoch = 9
  MaxResultCode = 12
SYMMETRY Symmetry
INVARIANTS  ReplaysHarmless GroupSteerable
CHECK_DEADLOCK FALSE
