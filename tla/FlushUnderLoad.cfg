SPECIFICATION FairMutexSpec
CONSTANTS
  Clients = {c1, c2}
  Worker = worker
  Owner = owner
  None = None
  Events = {e}
  Configurations <- AsyncModes
  CounterModulus = 2
  LateCalls = FALSE
  SinkLogs = FALSE
PROPERTIES
  FlushReturns
CHECK_DEADLOCK FALSE
