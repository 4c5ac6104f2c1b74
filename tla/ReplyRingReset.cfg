SPECIFICATION FairSpec
CONSTANTS
  NLINKS = 1
  MemLen = 6
  DataLen <- MCOneLen
  FifoDepth = 5
  MaxUnread = 1
  MaxPackets = 2
  MaxResets = 1
PROPERTY ServesAfterReset
CHECK_DEADLOCK FALSE
