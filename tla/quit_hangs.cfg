SPECIFICATION FairSpec
PROPERTIES
  QuitEnds
\* A node that is told to quit may wait for ever.
CHECK_DEADLOCK FALSE
