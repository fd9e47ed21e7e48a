CONSTANTS
  MaxText = 5
  MaxItems = 4
  MaxWinDepth = 2
  Handlers = {h1, h2}
  MaxGateClock = 2
  MaxHits = 3
  MaxAgentTime = 4
  MaxSends = 3
  MaxRounds = 4
  QueueMax = 1
  DedupWindow = 2
  DedupMax = 2
  BusCap = 2
  MaxNotices = 5
  CaseHandlers = {k1, k2}
  MaxMoves = 2
  MaxRequests = 3
  MaxCertTime = 4
  CertTTL = 3
  MaxFaults = 1
  MaxCerts = 3
  MaxEdgesPerTenant = 3
  MaxNodesPerTenant = 4
  MaxEdgesPerDevice = 2
  maxEvictPerObserve = 1
  maxParentChain = 2
  MaxSources = 2
  MaxTargets = 1
  GraphTTL = 1
  MaxGraphTime = 3
  MaxFeeds = 3
  MaxSensorTime = 1
  MaxSpawns = 1
  MaxScans = 3
  MaxSweeps = 2
  MaxIdSteps = 4
SPECIFICATION PlatformSpec
 
 
INVARIANTS GraphHolds
INVARIANTS SensorsAndIdentitiesHold
INVARIANTS CertInvariant
PROPERTIES StepsKeep
CHECK_DEADLOCK FALSE
