SPECIFICATION HubSpec
CONSTANTS
  Codes = {k1, k2}
  Conns = {c1, c2}
  MaxRooms = 1
  RoomCommands = 1
  MaxEver = 2
  None = None
INVARIANTS CapHeld CodesNameRooms
PROPERTIES JoinAnswered DrainEnds
CHECK_DEADLOCK FALSE
