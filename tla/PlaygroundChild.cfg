SPECIFICATION FairSpec
CONSTANTS
  s1 = s1
  s2 = s2
  x1 = x1
  r1 = r1
  r2 = r2
  r3 = r3
  r4 = r4
  r5 = r5
  b1 = b1
  k1 = k1
  k2 = k2
  k3 = k3
  k4 = k4
  Starters = {s1, s2}
  Stoppers = {x1}
  Runners = {r1, r2, r3, r4, r5}
  Blueprints = {b1}
  Keys = {k1, k2, k3, k4}
  Key <- SharedKey
  Concurrent = 2
  MaxQueue = 1
  Nobody = Nobody
INVARIANTS
  TypeOK
  QueueKeepsItsLimits
  StartupDecides
PROPERTIES
  AllEnds
CHECK_DEADLOCK FALSE
