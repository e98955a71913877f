SPECIFICATION FairSpec
CONSTANTS
  CanAbortConnect = TRUE
  CanAbortWait = TRUE
  CanLose = FALSE
PROPERTIES
  AbortWaitPlaysOn
\* An emulator that plays, or that has crashed, is at rest here.
CHECK_DEADLOCK FALSE
