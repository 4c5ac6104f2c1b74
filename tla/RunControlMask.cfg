SPECIFICATION Spec
CONSTANTS
  N_FEBS = 2
  FEBsActive <- Both
  MaxRuns = 2
  MaxCycles = 0
  MaxRestarts = 0
  MaxOff = 1
INVARIANTS AllPrepared
CHECK_DEADLOCK FALSE
