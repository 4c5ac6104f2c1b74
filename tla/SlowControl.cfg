SPECIFICATION FairSpec
CONSTANTS
  c1 = c1
  c2 = c2
  f1 = f1
  f2 = f2
  NoOne = NoOne
  Caller <- MCCaller
  Feb <- MCFeb
  ReadLen <- MCReadLen
  MaxPolls = 2
  MaxCalls = 2
  MaxFaults = 1
INVARIANT TypeOK
INVARIANT AnswerOnce
INVARIANT IInv
INVARIANT OwnAnswer
INVARIANT CleanOutcome
PROPERTY ImplementsTransaction
PROPERTY EveryCallReturns
CHECK_DEADLOCK FALSE
