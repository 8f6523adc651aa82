SPECIFICATION Spec
CONSTANTS
  Calls = {c1, c2, c3}
  IdSpace = 2
  MaxDebug = 0
  MaxResets = 0
INVARIANT OwnAnswer
CHECK_DEADLOCK FALSE
