SPECIFICATION Spec
CONSTANTS
  Callers = {c1, c2}
  Sinks = {own, plain, extra}
  OwnSinks = {own}
  Throwing = {own, plain}
  None = None
  Formatters = {json, text}
  Levels = {1, 2}
  MaxEntries = 2
  MaxFlushes = 1
  MaxChanges = 2
INVARIANTS
  TypeOK
  EverySinkItsLine
  SameOrderEverywhere
  EverySinkIsFlushed
SYMMETRY Symmetry
CHECK_DEADLOCK FALSE
