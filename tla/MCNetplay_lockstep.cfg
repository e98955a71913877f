SPECIFICATION MCSpec
CONSTANTS
  NumClients = 2
  Events = {1}
  MaxDrift = 1
  RingSize = 2
  FlushAt = 2
  MaxFrame = 1
  MaxInputs = 2
  CanInterrupt = TRUE
  Quitters = {1}
  Divergent = {}
INVARIANTS
  SentinelInStep
  Agreement
  NoCircularWait
PROPERTIES
  LockstepRefinement
