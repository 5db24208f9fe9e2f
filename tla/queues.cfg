SPECIFICATION FairSpec
CONSTANTS
  Kind <- EveryLane
  MaxBatch = 1
  MaxSend = 2
  MaxConnect = 2
INVARIANTS
  BatchWithinBuffer
PROPERTIES
  ImplementsLink
  EveryMessageArrives
\* The bounds let a behaviour end.
CHECK_DEADLOCK FALSE
