SPECIFICATION FairSpec
CONSTANTS
  MaxPrompts = 3
  MaxRuns = 3
  MaxQuestions = 1
  MaxReloads = 1
  MaxSwitches = 1
  MaxFaults = 1
  MaxDisturbances = 2
  MaxDisturbancesOfAll = 1
INVARIANTS
  TypeOK
  RunsAreRight
PROPERTIES
  RunsMove
CONSTRAINT FewDisturbances
CHECK_DEADLOCK FALSE
