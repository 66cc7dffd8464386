SPECIFICATION SitesSpec
CONSTANTS
  Sites = {a}
  a = a
  MaxChanges = 3
INVARIANTS
  SitesTypeOK
  SitesAreTrueAtRest
CONSTRAINT
  SomeSiteIsNotStale
CHECK_DEADLOCK FALSE
