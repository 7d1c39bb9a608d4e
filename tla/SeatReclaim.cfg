SPECIFICATION MCSpec
CONSTANTS
  BufferMax = 3
  IntentCoast = 9
  DeadReckonTicks = 1
  ReachTicksMax = 6
  ReachSpareTicks = 1
  PlayoutWindow = 3
  WidenMisses = 2
  NarrowAhead = 1
  None = None
  FireHoldTicks = 2
  SendCatchUpTicks = 2
  CatchUpTicks = 1
  PoseReachTicks = 2
  Triggers = {FALSE}
  Owns = {TRUE}
  MaxPeriods = 5
  MaxReclaims = 1
  Overtake = 0
  Latency = 4
  RoomStall = 3
  ClientHitch = 3
  ReachSlackTicks = 1
  Kinds = {"rough"}
  RoughPeriods = 5
INVARIANT NothingOnTheWayIsStale
CHECK_DEADLOCK FALSE
