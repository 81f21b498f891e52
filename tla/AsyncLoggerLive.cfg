SPECIFICATION FairSpec
CONSTANTS
  Clients = {c1, c2}
  Worker = worker
  Owner = owner
  None = None
  Events = {e}
  Configurations <- AllModes
  CounterModulus = 2
  LateCalls = FALSE
  SinkLogs = FALSE
PROPERTIES
  BacklogDrains
  BlockedProducerWakes
  FlushReturnsOnceQuiet
  DestructorReturns
CHECK_DEADLOCK FALSE
