SPECIFICATION FairSpec
CONSTANTS
  Lines = {top, bottom}
  MaxFrame = 4
INVARIANTS
  NeverDrawnWhileShown
PROPERTIES
  FrameStreamRefinement
  NewestIsShown
\* The emulation ends with its last frame; the video thread goes on.
CHECK_DEADLOCK FALSE
