SPECIFICATION FairSpec
CONSTANTS
  Size = 4
  ChunkSizes <- AllChunks
  Outgoing <- Commands
INVARIANTS
  TypeOK
  WokenInTime
  SleepsForAReason
PROPERTIES
  PipeRefinement
  AllRead
\* The reader waits for ever when everything has been read.
CHECK_DEADLOCK FALSE
