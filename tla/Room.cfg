SPECIFICATION RoomSpec
CONSTANTS
  WaitingTtl = 3
  EmptyTtl = 1
  EndedTtl = 2
  DrainEndedTtl = 1
  RoundMax = 2
  SeatsPlayable = 2
  Lag = 1
  Horizon = 4
  SeatGrace = 1
  Tokens = {d1, d2, d3}
  Conns = {c1, c2, c3, c4}
  NoConn = NoConn
  Vacant = Vacant
SYMMETRY Interchangeable
VIEW Unsent
INVARIANTS ConnectedCount SeatsOwned DeadlineServed GraceBounded
PROPERTIES DeadlineSparesConnected SeatKept LifeSpec
CHECK_DEADLOCK FALSE
