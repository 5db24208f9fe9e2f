SPECIFICATION Spec
CONSTANTS
  n1 = n1
  n2 = n2
  n3 = n3
  Node = {n1, n2, n3}
  Zero = n1
  None = None
  Standing = {n1, n2, n3}
  MaxTerm = 1
  MaxRequest = 0
  MaxLog = 0
  MaxInFlight = 4
  MaxLoss = 0
  MaxRestart = 0
INVARIANTS
  ElectionSafety
\* The bounds on terms, requests and faults let every behaviour end.
CHECK_DEADLOCK FALSE
