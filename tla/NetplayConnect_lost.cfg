SPECIFICATION FairSpec
CONSTANTS
  CanAbortConnect = TRUE
  CanAbortWait = TRUE
  CanLose = TRUE
INVARIANTS
  NoDialogWhilePlaying
  FlagsAgree
PROPERTIES
  AbortConnectPlaysOn
  DisconnectEnds
\* An emulator that plays, or that has crashed, is at rest here.
CHECK_DEADLOCK FALSE
