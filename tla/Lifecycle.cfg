SPECIFICATION MCSpec
CONSTANTS
  WaitingTtl = 3
  EmptyTtl = 2
  EndedTtl = 2
  DrainEndedTtl = 1
  RoundMax = 3
  SeatsPlayable = 2
  Lag = 1
  Horizon = 12
INVARIANTS PausedWhenEmpty RoundBounded DrainBounded EmptyRoomReaped
CHECK_DEADLOCK FALSE
