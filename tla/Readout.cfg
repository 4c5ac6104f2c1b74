SPECIFICATION FairSpec
CONSTANTS
  maxwords = 11
  BlockLen = 3
  RamBlocks = 4
  HostBlocks = 5
  Width = 4
  HalfFull = 4
  MaxHits = 12
  MaxDisturbed = 1
INVARIANTS TypeOK NothingLost CopiedIsEvent RingInOrder HostInOrder
PROPERTIES EventCompletes
CHECK_DEADLOCK FALSE
