SPECIFICATION FairSpec
CONSTANTS
  c1 = c1
  s1 = s1
  Starters = {c1}
  Stoppers = {s1}
  MaxPm = 2
INVARIANTS
  TypeOK
  ExitsAreRight
PROPERTIES
  StopsEnd
CHECK_DEADLOCK FALSE
