SPECIFICATION FairSpec
CHECK_DEADLOCK FALSE
CONSTANTS
  KeyBytes <- MCKeyBytes
  AuxBytes <- MCAuxBytes
  PortDepth = 2
  MaxBytes = 3
  KEYQUEUE_SIZE = 2
  TickWidth = 4
  Tick = 1
  Sleeps <- MCSleeps
  RESX = 3
  RESY = 2
  SC_ESC = 1
  HEAP_BYTES = 48
  HeapAlign = 16
  LibcWidth = 256
  MallocSizes <- MCMallocSizes
  CallocCounts = {0, 2}
  TopAddress = 4
  Values <- MCValues
  WadLength = 3
  LetterP = 1
  LetterW = 2
  LeftStrings <- MCLeft
  RightStrings <- MCRight
  Limits <- MCLimits
  WadNames <- MCWadNames
  Slashes = {47, 92}
  IntWidth = 1024
  Kinds <- MCKinds
  FrameBuffers <- MCFrameBuffers
  Rects <- MCRects
INVARIANTS
  DoomBytesAccounted
  PaintedRight
  LibraryExact
  NumbersExact
PROPERTIES
  EventsImplementFifo
  MallocImplementsArena
  SleepEnds
  EscReturns
