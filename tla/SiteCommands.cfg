SPECIFICATION Spec
CONSTANTS
  c1 = c1
  c2 = c2
  s1 = s1
  s2 = s2
  Commands = {c1, c2}
  Sites = {s1, s2}
  f1 = f1
  f2 = f2
  Folders = {f1, f2}
  Nobody = Nobody
  MaxPid = 4
SYMMETRY Sym
INVARIANTS
  TypeOK
  NoLostUpdate
  SitesAtRest
PROPERTIES
  DeletedStaysDeleted
CONSTRAINT
  LockIsKept
CHECK_DEADLOCK FALSE
