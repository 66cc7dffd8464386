SPECIFICATION FairSpec
CONSTANTS
  Names = {n1, n2}
  Native = {n1}
  Clients = {c1, c2}
  Shutdown = Shutdown
  Stoppers = {c2}
  MaxPm = 2
INVARIANTS
  TypeOK
  OneLiveChildPerName
  StopAnsweredWhenDead
  ShutdownKillsAllBefore
PROPERTIES
  RequestsEnd
  ImplementsSlots
CONSTRAINT StoppersStop
CHECK_DEADLOCK FALSE
