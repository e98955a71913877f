SPECIFICATION FairSpec
CONSTANTS
  NumConns = 2
  Sizes = {1, 2}
  Headers <- AllHeaders
  HasTimeout = TRUE
  CanInterrupt = TRUE
  CanLeave = TRUE
INVARIANTS
  Seating
  TagsBeforeFrame
PROPERTIES
  StartedGameStops
\* A server that waits for players, or whose players stay, is at rest.
CHECK_DEADLOCK FALSE
