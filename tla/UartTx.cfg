SPECIFICATION FairSpec
CONSTANTS
  TxSize = 3
  Lengths = {2}
  MaxPackets = 5
  MaxText = 1
INVARIANTS RingInOrder Kicked DamageIsLocal
PROPERTIES InOrderUnlessRaced Drained
CHECK_DEADLOCK FALSE
