SPECIFICATION FairSpec
CONSTANTS
  n1 = n1
  n2 = n2
  Node = {n1, n2}
  Zero = n1
  None = None
  Standing = {n1}
  MaxTerm = 2
  MaxRequest = 2
  MaxLog = 8
  MaxInFlight = 2
  MaxLoss = 1
  MaxRestart = 1
INVARIANTS
  EntryTermReached
PROPERTIES
  CatchesUp
  AnswersAll
\* The bounds on terms, requests and faults let every behaviour end.
CHECK_DEADLOCK FALSE
