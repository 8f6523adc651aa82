SPECIFICATION FairSpec
CONSTANTS
  Calls = {c1, c2}
  IdSpace = 3
  MaxDebug = 1
  MaxResets = 1
INVARIANTS ResponsesAreAMap
PROPERTIES IsRpc EveryCallReturns ReaderEnds
CHECK_DEADLOCK FALSE
