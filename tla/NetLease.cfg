SPECIFICATION Spec
CONSTANTS
  NET_DESC_COUNT = 4
  TxCount = 4
  Arriving <- MCFewArriving
  Gateway <- MCGateway
  StaticIp <- MCStaticIp
  MaxFrames = 3
  NoFrame = NoFrame
PROPERTIES
  LeaseTaken
