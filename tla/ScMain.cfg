SPECIFICATION FairSpec
CONSTANTS
  f1 = f1
  f2 = f2
  Feb <- MCFeb
  HighFeb <- MCHighFeb
  MemLen = 8
  Size <- MCSize
  RamStages = 2
  FifoRoom = 3
  MaxCmds = 2
  MaxRestarts = 1
INVARIANT TypeOK
INVARIANT WellFormed
INVARIANT NothingDropped
PROPERTY BecomesIdle
