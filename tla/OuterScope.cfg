SPECIFICATION Spec
CONSTANTS
  Threads = {t1}
  Scopes = {s1, s2}
  None = None
  Fields <- ShortAndLong
  Levels = {1}
  LevelNone = 6
  EnvTexts = {}
  MaxFields = 2
  OffsetModulus = 64
INVARIANTS
  EachScopePopsItsOwn
CHECK_DEADLOCK FALSE
