SPECIFICATION FairSpec
CONSTANTS
  NoSeq = NoSeq
  Sequences <- MCSequences
  I2c = {TRUE, FALSE}
  MaxRef = 2
INVARIANTS OneWakeup PaFollowsKeying
PROPERTIES PlaysInOrder SequenceEnds
