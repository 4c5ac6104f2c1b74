SPECIFICATION Spec
CONSTANTS
  N = 2
  GroupLen = 2
  UseGenLink = FALSE
  Masks <- MCMasks
  MaxHits = 4
  MaxPackages <- MCPackages
  MaxRuns = 1
INVARIANTS TypeOK OwnTimes NothingLost
PROPERTIES InOrder
