SPECIFICATION MCSpec
CONSTANTS
  Binders = {b1, b2}
  Records = {r1, r2}
  None = None
  MaxStatements = 3
  MaxKv = 2
  Threads = {t1, t2}
  Scopes = {s1, s2}
  KvFields <- ShortAndLong
  Levels = {1, 6}
  LevelNone = 6
  EnvTexts <- SomeTexts
  MaxFields = 3
  OffsetModulus = 16
INVARIANTS
  RecordsKeepBindings
  WholeStatements
  BindingsAccumulate
  PointerIsLive
  ContextIsItsScopes
  RecordIsWhole
SYMMETRY Symmetry
CHECK_DEADLOCK FALSE
