SPECIFICATION MCSpec
CONSTANTS
  BufferedSnapshots = 2
  ClockSnap = 5
  AnchorHold = 1
  Grain = 2
  RenderSnap = 2
  RateFar = 3
  RateTime = 3
  Delay = 1
  CatchUpTicks = 3
  None = None
  Stalls = {3, 6}
  MaxStalls = 2
  MaxSkips = 1
  MaxWelcomes = 2
  Transit = 1
  Horizon = 8
INVARIANT StateKept
PROPERTIES RenderForward PictureNear AnchorTrue
CHECK_DEADLOCK FALSE
