SPECIFICATION Spec
CONSTANTS
  NoSeq = NoSeq
  Sequences <- MCTones
  I2c = {TRUE}
  MaxRef = 2
INVARIANT PaOffWhenSilent
CHECK_DEADLOCK FALSE
