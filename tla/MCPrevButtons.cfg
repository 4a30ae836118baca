CONSTANTS
  Key = {jump, melee}
  SpareBit = spare
  MaxPackets = 3
  MaxBurst = 3
SPECIFICATION Spec
INVARIANT
  PrevIsLastTick
