SPECIFICATION Spec
CONSTANTS
  CwTexts = {}
  RttyTexts = {}
  WsprMessages = {}
  FtxMessages <- NineBytes
INVARIANTS FtxBytesReadable
CHECK_DEADLOCK FALSE
