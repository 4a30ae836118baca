CONSTANTS
  Endpoint = {e1, e2}
  MaxConns = 2
  MaxPlayers = 3
  MaxQueue = 2
  Base = 16
  UdpBuffer = 40
SPECIFICATION FairSpec
INVARIANTS
  TypeOK
  ActorsInStep
  KnowsItsId
  IdBeforeSnapshots
  InboundWhole
  OutboundReadable
PROPERTIES
  JoinAnswered
