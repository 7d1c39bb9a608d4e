SPECIFICATION MCSpec
CONSTANTS
  BufferMax = 4
  IntentCoast = 9
  DeadReckonTicks = 1
  ReachTicksMax = 8
  ReachSpareTicks = 2
  PlayoutWindow = 2
  WidenMisses = 2
  NarrowAhead = 1
  None = None
  FireHoldTicks = 2
  SendCatchUpTicks = 2
  CatchUpTicks = 1
  PoseReachTicks = 2
  Triggers = {TRUE, FALSE}
  Owns = {TRUE, FALSE}
  MaxPeriods = 7
  MaxReclaims = 1
  Overtake = 1
  Latency = 2
  RoomStall = 3
  ClientHitch = 3
  ReachSlackTicks = 1
  Kinds = {"drives", "served", "rough"}
  RoughPeriods = 5
INVARIANTS PoseTaken PressKept
PROPERTIES NeverBack MarginBounded ShotsArePresses OneATick
CHECK_DEADLOCK FALSE
