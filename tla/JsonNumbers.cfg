SPECIFICATION Spec
CONSTANTS
  DaysBack = 0
  DaysAhead = 0
  Times <- OneTime
  OffsetModulus = 4096
  Null = Null
  Events <- SomeTexts
  Keys <- SomeKeys
  Values <- SomeValues
  Bindings <- NothingBound
  Callers <- SomeCallers
  Moments <- OneMoment
  Points <- PointAndComma
  MaxKv = 1
INVARIANTS
  NumbersAreNative
CHECK_DEADLOCK FALSE
