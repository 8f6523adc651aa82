SPECIFICATION RadioSpec
CONSTANTS
  NoSeq = NoSeq
  Sequences <- MCSequences
  I2c = {TRUE, FALSE}
  MaxRef = 2
INVARIANTS AmplifierFollows AntennaAgrees
PROPERTIES PowerUpInTransmit PlaysInOrderUnlessEarly SignalEnds
