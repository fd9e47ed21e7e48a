CONSTANTS
  MaxClock = 3
  Executors = {e1, e2}
  MaxTime = 2
  MaxGrants = 2
  MaxTick = 5
  MaxCalls = 4
  MaxPolicies = 2
  MaxWire = 11
  MaxReports = 3
  MaxWrites = 2
  MaxAgentClock = 2
  AgentMaxNodes = 4
  AgentMaxEdges = 3
  maxPartitions = 2
SPECIFICATION FabricSpec
SYMMETRY ExecutorSymmetry
CHECK_DEADLOCK FALSE
INVARIANTS TrustHolds
INVARIANTS GrantsHold
INVARIANTS LimitsHold
INVARIANTS GatesHold
INVARIANTS AgentsHold
PROPERTIES DecisionsStand
