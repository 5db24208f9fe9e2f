SPECIFICATION Spec
CONSTANTS
  n1 = n1
  n2 = n2
  n3 = n3
  Node = {n1, n2, n3}
  Zero = n2
  None = None
  Standing = {n1}
  MaxTerm = 1
  MaxRequest = 2
  MaxLog = 3
  MaxInFlight = 4
  MaxLoss = 0
  MaxRestart = 0
INVARIANTS
  AppliedOnce
\* The bounds on terms, requests and faults let every behaviour end.
CHECK_DEADLOCK FALSE
