SPECIFICATION FairSpec
CONSTANTS
  RingSize = 6
  CobsMax = 4
  DecodedMax = 2
  FrameMax = 3
  QueueDepth = 2
  MaxFrames = 6
  MaxFaults = 2
INVARIANTS NoLostWakeup ResidueShrinks InSync
PROPERTIES IsChannel Handled
CHECK_DEADLOCK FALSE
