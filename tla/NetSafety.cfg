SPECIFICATION FairSpec
CONSTANTS
  NET_DESC_COUNT = 3
  TxCount = 5
  Arriving <- MCSomeArriving
  Gateway <- MCGateway
  StaticIp <- MCStaticIp
  MaxFrames = 4
  NoFrame = NoFrame
INVARIANTS
  HandledInOrder
  RequestKept
PROPERTIES
  NoFrameOverwritten
  GatewayTrusted
  EveryFrameDispatched
  StartEnds
