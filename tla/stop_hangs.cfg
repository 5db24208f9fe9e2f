SPECIFICATION FairSpec
PROPERTIES
  StopEnds
\* A node that is told to stop may wait for ever.
CHECK_DEADLOCK FALSE
