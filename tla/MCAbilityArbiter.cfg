CONSTANTS
  NumAbilities = 5
  NumResources = 3
  Claimed   <- MCClaimed
  Priority  <- MCPriority
  ScopeBits <- MCScopeBits
  ScopePrio <- MCScopePrio
SPECIFICATION FairSpec
INVARIANTS
  TypeOK
  ResourceExclusive
  TablesAgree
PROPERTIES
  TickedOnce
  PreemptedStaysDown
  OnlyOutrankedStop
  TickTerminates
