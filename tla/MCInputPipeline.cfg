CONSTANTS
  Key = {jump, melee}
  SpareBit = spare
  MaxPackets = 3
  MaxBurst = 3
SPECIFICATION Spec
SYMMETRY Symmetry
INVARIANTS
  TypeOK
  ViewsAgree
  PressesAreLogEdges
  NoPhantomPress
