SPECIFICATION FairSpec
INVARIANTS
  TypeOK
  QuietWhenStopped
PROPERTIES
  StopReturns
\* A node that is told to quit may wait for ever.
CHECK_DEADLOCK FALSE
