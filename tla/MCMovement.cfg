CONSTANTS
  Deltas = {1, 2}
  Aims <- MCAims
  FullTurn = 3
  DashTime = 3
  DashSpeed = 2
  BaseSpeed = 2
  JumpSpeed = 3
  Gravity = 1
  Terminal = 2
  AccelGround = 2
  DecelGround = 2
  AccelAir = 1
  DecelAir = 1
  MinMove = 1
  SnapDistance = 4
  SnapDistanceAir = 1
  Ceiling = 7
  MaxDashes = 2
SPECIFICATION FairSpec
INVARIANTS
  TypeOK
PROPERTIES
  DashRunsItsTime
  JumpAnswered
  LookFollowsAim
  MovementSettles
