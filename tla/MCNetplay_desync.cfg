SPECIFICATION MCFairSpec
CONSTANTS
  NumClients = 2
  Events = {1}
  MaxDrift = 0
  RingSize = 2
  FlushAt = 2
  MaxFrame = 3
  MaxInputs = 0
  CanInterrupt = FALSE
  Quitters = {}
  Divergent = {1}
INVARIANTS
  TypeOK
  DriftBounded
  ComparisonExact
PROPERTIES
  GamePlaysOn
  DesyncIsTold
