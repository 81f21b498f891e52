SPECIFICATION MCSpec
CONSTANTS
  Absent = Absent
  MaxCrashes = 1
  MaxFaults = 1
  Backups = {0, 1, 3}
  Limits = {0, 4}
  Lengths = {2, 5}
  MaxLines = 5
  DailyLimits = {0, 1, 2}
  DayTicks = 2
  Days = 4
  DailyLines = 2
  Capacities = {0, 1, 3}
  Loggers = {l1, l2}
  PlainLines = 4
  PlainFaults = 2
INVARIANTS
  RotatingKeepsNewest
  RotatingBoundsSize
  RotatingDiscardsWhenFull
  LinesReachTheirDay
  NewestDaysAreKept
  StreamsHaveNoHoles
  MemoryIsNewest
CHECK_DEADLOCK FALSE
