CONSTANTS
  MagSize = 2
  FireInterval = 2
  ReloadSec = 3
  HitPoint = 1
  PostHit = 2
  ReloadPoint = 2
  PostReload = 1
  Dts <- MCDts
SPECIFICATION FairSpec
INVARIANTS
  TypeOK
  ReloadInStep
  ArbiterNeverSkips
PROPERTIES
  ImplementsSlot
  PressesAnswered
  MeleeStrikesOnce
  ShotSpacing
  EmptyMagazineRefilled
