SPECIFICATION Spec
CONSTANTS
  Binders = {b1, b2}
  Records = {r1}
  None = None
  MaxStatements = 2
  MaxKv = 1
INVARIANTS
  NoBindingIsLost
CHECK_DEADLOCK FALSE
