SPECIFICATION ViewSpec
CONSTANTS
  WaitingTtl = 3
  EmptyTtl = 1
  EndedTtl = 2
  DrainEndedTtl = 1
  RoundMax = 2
  SeatsPlayable = 2
  Lag = 0
  Horizon = 0
  SeatGrace = 1
  Tokens = {d1, d2}
  Conns = {c1, c2, c3}
  NoConn = NoConn
  Vacant = Vacant
  ChanBound = 3
SYMMETRY Interchangeable
VIEW Unsent
INVARIANT RoundIsSeen
CHECK_DEADLOCK FALSE
