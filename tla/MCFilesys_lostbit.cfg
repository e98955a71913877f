SPECIFICATION FairSpec
CONSTANTS
  HostThreads = {1}
  Commands = {1}
  MaxRethinks = 1
  NumUnits = 1
  Packets = {p1}
  Lockers = {}
  MaxStarted = 2
  UnitPipeSize = 10
  Setups <- ThreadsWithA2091
  ResetInServer = FALSE
  MaxResets = 0
PROPERTIES
  StartedIsAnswered
CHECK_DEADLOCK FALSE
