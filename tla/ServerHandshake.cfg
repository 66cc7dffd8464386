SPECIFICATION Spec
CONSTANTS
  c1 = c1
  c2 = c2
  s1 = s1
  Starters = {c1, c2}
  Stoppers = {s1}
  MaxPm = 1
SYMMETRY Sym
INVARIANTS
  StartsAreRight
PROPERTIES
  ErrorBeatsExit
CHECK_DEADLOCK FALSE
