SPECIFICATION FairSpec
CONSTANTS
  Length = 3
  Window = 2
  Buffers = {1, 2}
  MinBuffers = 1
  MaxCalls = 3
INVARIANTS
  TypeOK
  BuffersWhole
  CdNeverDrops
  SumExact
  NeverLogged
PROPERTIES
  QueuedComesBack
  StopEnds
\* The stream may be left alone.
CHECK_DEADLOCK FALSE
