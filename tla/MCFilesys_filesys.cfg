SPECIFICATION FairSpec
CONSTANTS
  HostThreads = {1}
  Commands = {1}
  MaxRethinks = 1
  NumUnits = 1
  Packets = {p1, p2, p3}
  Lockers = {p1}
  MaxStarted = 2
  UnitPipeSize = 10
  Setups <- SafeSetups
  ResetInServer = FALSE
  MaxResets = 1
INVARIANTS
  TypeOK
  MessageLock
  NoneForgotten
  PipeNeverFull
  NeverNotEnough
PROPERTIES
  ServiceRefinement
  StartedIsAnswered
\* The Amiga waits for ever when no more packets are sent.
CHECK_DEADLOCK FALSE
