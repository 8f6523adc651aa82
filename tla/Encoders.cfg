SPECIFICATION Spec
CONSTANTS
  CwTexts <- MCCwTexts
  RttyTexts <- MCRttyTexts
  WsprMessages <- MCWsprMessages
  FtxMessages <- MCFtxMessages
INVARIANTS CwFills RttyFills CwReadable RttyReadable WsprReadable FtxReadable
CHECK_DEADLOCK FALSE
