SPECIFICATION Spec
CONSTANTS
  s = s
  a = a
  b = b
  x = x
  y = y
  k1 = k1
  k2 = k2
  k3 = k3
  r1 = r1
  r2 = r2
  None = None
  NoCode = NoCode
  NoDigest = NoDigest
  NoFailure = NoFailure
  This = This
  Another = Another
  Sender = s
  Others <- MCOthers
  Codes <- MCCodes
  Results <- MCResults
  Expected = x
  Routes <- MCRoutes
  Packets <- MCPackets
  ChunkCount = 3
  MaxConfirmationIds = 32
  MaxConfirmedCode = 13
  MaxRetries = 2
  MaxMigrations = 2
  MaxTransitions = 4
  MaxMembers = 3
  MaxGroupEpoch = 1
  MaxResultCode = 12
  MaxRuns = 1
  MaxChunks = 128
  MaxUpdate = 4
  MaxRound = 2
  MaxReceiveCode = 14
SYMMETRY Symmetry
INVARIANTS DecisionsTruthful FinalityNeedsContent PacketsBounded
PROPERTIES AggregateFinal
CHECK_DEADLOCK FALSE
