SPECIFICATION MCSpec
CONSTANTS
  OutboxDepth = 2
  SnapshotEvery = 1
  MaxRound = 2
  MaxFrame = 3
  Nothing = Nothing
  Keys = {0, 1, 2, 3}
  Looks = {"whole", "hit"}
  Moving = {"tanks"}
  Fixed = {"tiles"}
  Wholes = {"round"}
  Values = {0, 1, 2}
  Same = Nothing
  World <- Scene
INVARIANTS InStep HeardOnce EventsComplete PictureTrue
PROPERTY Feeds
CHECK_DEADLOCK TRUE
