SPECIFICATION Spec
CONSTANTS
  n1 = n1
  n2 = n2
  n3 = n3
  Node = {n1, n2, n3}
  Zero = n2
  None = None
  Standing = {n1, n2, n3}
  MaxTerm = 2
  MaxRequest = 1
  MaxLog = 1
  MaxInFlight = 3
  MaxLoss = 1
  MaxRestart = 0
SYMMETRY NodeSymmetry
INVARIANTS
  OneVotePerTerm
  VotesWithinTurnout
  LeaderHasTurnout
  HintWasLeader
  CommitQuorum
  EntryTermReached
PROPERTIES
  OnlyCandidatesElected
\* The bounds on terms, requests and faults let every behaviour end.
CHECK_DEADLOCK FALSE
