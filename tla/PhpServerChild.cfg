SPECIFICATION FairSpec
CONSTANTS
  l1 = l1
  l2 = l2
  r1 = r1
  r2 = r2
  Links = {l1, l2}
  Requests = {r1, r2}
  PoolSize = 2
  MaxStarts = 1
  MaxFailures = 1
INVARIANTS
  TypeOK
  PoolIsContained
  LinksAreGranted
PROPERTIES
  StopEndsWrapper
CHECK_DEADLOCK FALSE
