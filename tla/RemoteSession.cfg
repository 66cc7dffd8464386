SPECIFICATION FairSessionSpec
CONSTANTS
  c1 = c1
  c2 = c2
  Chats = {c1, c2}
  Bound = c1
  MaxMessages = 2
  MaxEvents = 3
  MaxFaults = 2
  None = None
INVARIANTS
  SessionTypeOK
  ChatIsRight
PROPERTIES
  DetachEnds
CHECK_DEADLOCK FALSE
