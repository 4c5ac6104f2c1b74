SPECIFICATION Spec
CONSTANTS
  u1 = u1
  u2 = u2
  Users <- MCUsers
  HostPages <- MCHostPages
  Junk = {3}
  BufPages = 3
  EntryPages = 2
  Locations = 5
  IntEvery = 2
  MaxProbes = 2
  MaxEvents = 1
  MaxBlocks = 4
SYMMETRY Symmetry
INVARIANT OwnPages
CHECK_DEADLOCK FALSE
