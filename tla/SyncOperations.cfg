SPECIFICATION Spec
CONSTANTS
  MaxPulls = 2
  MaxPushes = 2
  MaxOperations = 3
  MaxLogins = 1
INVARIANTS
  TypeOK
  PollsAreSound
  MainFollowsWindow
CHECK_DEADLOCK FALSE
