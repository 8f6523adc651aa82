SPECIFICATION Spec
CONSTANTS
  TxSize = 9
  Lengths = {2, 3}
  MaxPackets = 3
  MaxText = 0
INVARIANT OneFrameBetweenDelimiters
CHECK_DEADLOCK FALSE
