SPECIFICATION FairSpec
CONSTANTS
  HostThreads = {1}
  Commands = {1}
  MaxRethinks = 0
  NumUnits = 1
  Packets = {p1, p2}
  Lockers = {}
  MaxStarted = 1
  UnitPipeSize = 10
  Setups <- SafeSetups
  ResetInServer = FALSE
  MaxResets = 0
PROPERTIES
  SentIsAnswered
CHECK_DEADLOCK FALSE
