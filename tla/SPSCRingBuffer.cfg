SPECIFICATION FairSpec
CONSTANTS
  RingSize = 3
  Values = {v1, v2}
  Moved = Moved
  MaxPushes = 6
INVARIANTS
  RaceFree
  SizeIsSafe
PROPERTIES
  FifoSpec
  PublishedArrive
  RoomIsNoticed
CHECK_DEADLOCK FALSE
