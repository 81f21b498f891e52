SPECIFICATION Spec
CONSTANTS
  DaysBack = 25600
  DaysAhead = 11100
  Times <- EveryTime
  OffsetModulus = 4096
  Null = Null
  Events <- SomeTexts
  Keys <- SomeKeys
  Values <- SomeValues
  Bindings <- NoneOrTwo
  Callers <- SomeCallers
  Moments <- OneMoment
  Points <- PointAndComma
  MaxKv = 1
INVARIANTS
  DateIsCalendars
  StampsSort
  SplitIsExact
  JsonReadsBack
  TextReadsBack
CHECK_DEADLOCK FALSE
