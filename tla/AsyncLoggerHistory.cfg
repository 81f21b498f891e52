SPECIFICATION HSpec
CONSTANTS
  Clients = {c1, c2}
  Worker = worker
  Owner = owner
  None = None
  Events = {e}
  Configurations <- AllModes
  CounterModulus = 4
  MaxStatements = 3
  LateCalls = TRUE
  SinkLogs = TRUE
INVARIANTS
  InOrderExactlyOnce
  NothingVanishes
  FlushContract
  ShutdownLossless
  PendingExact
  NoLostWakeup
  OneThreadInSinks
  OnlyASinkDeadlocks
PROPERTIES
  DeliverySpec
SYMMETRY Symmetry
CHECK_DEADLOCK FALSE
