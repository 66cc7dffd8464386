SPECIFICATION FairSpec
CONSTANTS
  p1 = p1
  p2 = p2
  Pulls = {p1, p2}
  MaxPort = 2
  MaxFolder = 3
  MaxFaults = 3
  None = None
INVARIANTS
  TypeOK
  PullIsSound
PROPERTIES
  PullEnds
CONSTRAINT
  FewFaultsOnceDisturbed
CHECK_DEADLOCK FALSE
