CONSTANTS
  MaxSensorTime = 1
  MaxSpawns = 1
  MaxScans = 3
  MaxSweeps = 2
INIT SensorInit
NEXT SensorNext
INVARIANTS AgentNeverKilled
CHECK_DEADLOCK FALSE
