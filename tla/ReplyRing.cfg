SPECIFICATION FairSpec
CONSTANTS
  NLINKS = 2
  MemLen = 11
  DataLen <- MCOneLen
  FifoDepth = 10
  MaxUnread = 2
  MaxPackets = 2
  MaxResets = 1
INVARIANT TypeOK
INVARIANT NeverBroken
PROPERTY ImplementsChannel
PROPERTY EveryAnswerFetched
CHECK_DEADLOCK FALSE
