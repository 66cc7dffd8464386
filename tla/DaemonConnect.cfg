SPECIFICATION ConnectFairSpec
CONSTANTS
  c1 = c1
  c2 = c2
  d1 = d1
  d2 = d2
  Commands = {c1, c2}
  Daemons = {d1, d2}
  Nobody = Nobody
  Stale = Stale
INVARIANTS
  ConnectTypeOK
  OneWholeDaemon
PROPERTIES
  CallsEnd
CHECK_DEADLOCK FALSE
