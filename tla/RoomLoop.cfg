SPECIFICATION LoopSpec
CONSTANTS
  Period = 2
  CatchUpTicks = 2
  TickCosts = {0, 1, 2, 3, 7}
  Notice = 3
  RoomCommands = 2
  CommandRate = 2
  None = None
INVARIANT DeadlineLag
PROPERTY NoneStarves
CHECK_DEADLOCK FALSE
