SPECIFICATION FairSpec
CONSTANTS
  Threads <- TwoThreads
  Outgoing <- Talk
PROPERTIES
  StreamRefinement
  AllArrive
\* Nothing is left to do when everything has arrived.
CHECK_DEADLOCK FALSE
