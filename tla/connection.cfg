SPECIFICATION FairSpec
CONSTANTS
  c1 = c1
  c2 = c2
  Conn = {c1, c2}
  None = None
  MaxSend = 1
  MaxFault = 2
INVARIANTS
  TypeOK
  OneOwner
  SameConnection
PROPERTIES
  ImplementsChannel
  EventuallyConnected
\* The bounds on messages and faults let a behaviour end.
CHECK_DEADLOCK FALSE
