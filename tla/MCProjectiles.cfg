CONSTANTS
  Kinds = {"Hitscan", "Linear"}
  Speeds = {0, 2}
  MaxDistance = 4
  LifeTime = 2
  Walls <- MCWalls
  Actors <- MCActors
  Interval = 2
  TickWidth = 2
  Dts = {1, 3}
  MaxSpawns = 2
  MaxIds = 3
SPECIFICATION Spec
INVARIANTS
  TypeOK
  ShotsCounted
  WallStops
  SnapshotPace
