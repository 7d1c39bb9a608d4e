SPECIFICATION MCSpec
CONSTANTS
  Seats = {1, 2}
  Gates = {g1, g2}
  Roles = {r1, r2}
  None = None
  Busy = Busy
  NoGate = NoGate
  WaveSizes <- MCWaveSizes
  Gap = 2
  Timeout = 2
  NextWhenAlive = 0
  Stagger = 1
  MaxAlive = 2
  Relax = 2
  BreatherMin = 2
  BreatherMax = 4
  CalmRate = 2
INVARIANTS NoneLost LaneExclusive WonMeansCleared SeatsQueued
PROPERTY PaceKept
CHECK_DEADLOCK FALSE
