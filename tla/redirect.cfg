SPECIFICATION FairSpec
CONSTANTS
  c1 = c1
  Client = {c1}
  s0 = s0
  s1 = s1
  Server = {s0, s1}
  Zero = s0
  k1 = k1
  k2 = k2
  Conn = {k1, k2}
  None = None
  MaxRequest = 2
  MaxConnect = 2
PROPERTIES
  LeaderAnswers
\* The bounds let a behaviour end.
CHECK_DEADLOCK FALSE
