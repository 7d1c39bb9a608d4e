SPECIFICATION ViewSpec
CONSTANTS
  WaitingTtl = 2
  EmptyTtl = 1
  EndedTtl = 1
  DrainEndedTtl = 1
  RoundMax = 1
  SeatsPlayable = 2
  Lag = 0
  Horizon = 2
  SeatGrace = 1
  Tokens = {d1, d2}
  Conns = {c1, c2}
  NoConn = NoConn
  Vacant = Vacant
  ChanBound = 4
SYMMETRY Interchangeable
VIEW Unsent
INVARIANTS ViewSettles RematchButtonHonest NoPhantomRound
CHECK_DEADLOCK FALSE
