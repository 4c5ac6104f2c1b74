SPECIFICATION MCSpec
CONSTANTS
  NChannels = 2
  Readings <- Two
  MaxRequests = 2
  MaxTrips = 1
  MaxLate = 1
  MaxEvents = 2
INVARIANTS TypeOK OwnChannel InStep
PROPERTIES StateFollows CallbackReturns
