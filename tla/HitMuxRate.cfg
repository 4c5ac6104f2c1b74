SPECIFICATION Spec
CONSTANTS
  N = 4
  GroupLen = 4
  UseGenLink = TRUE
  Masks <- MCMasks
  MaxHits = 8
  MaxPackages <- MCOnePackage
  MaxRuns = 0
INVARIANTS AllHitsOut
