CONSTANTS
  Worlds <- MCWorlds
  Spawn <- MCSpawn
  Wanted <- MCWanted
  Radius = 7
  SkinWidth = 1
  HalfHeight = 6
  MaxIterations = 4
  MaxStepDistance = 36
  SnapDistance = 6
  SnapDistanceAir = 2
  MinSlide = 1
  MaxStepHeight = 6
  StepUpEps = 1
  StepForwardEps = 1
  StepDownExtra = 1
SPECIFICATION Spec
INVARIANTS
  TypeOK
  NotInside
  NeverStuck
  NoOvershoot
PROPERTIES
  GroundIsReal
