SPECIFICATION Spec
CONSTANTS
  N_FEBS = 2
  FEBsActive <- Both
  MaxRuns = 2
  MaxCycles = 1
  MaxRestarts = 1
  MaxOff = 1
INVARIANTS TypeOK NoneLeftBehind StoppedMeansStopped AckMeansPrepared
CHECK_DEADLOCK FALSE
