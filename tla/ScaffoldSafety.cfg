SPECIFICATION Spec
CHECK_DEADLOCK FALSE
CONSTANTS
  MaxPages = 9
  PageSize = 2
  MemoryMap <- MCMemoryMap
  KernelEnd = 7
  Index <- MCIndex
  Virts <- MCVirts
  Regions <- MCRegions
  DeviceFrames <- MCDeviceFrames
  BootTables <- MCBootTables
  BootRanks <- MCBootRanks
  Roots <- MCRoots
  BootRoot = 1
  Absent = Absent
  HEAP_SIZE = 64
  MinAlign = 8
  SizeWidth = 256
  Sizes <- MCSizes
  Aligns <- MCAligns
  VFS_MAX_NODES = 4
  MAX_FS_DRIVERS = 2
  Names <- MCNames
  NoName = ""
  Stored <- MCStored
  Paths <- MCPaths
  NoNode = NoNode
  Open = Open
  MAX_TASKS = 3
  NoTask = NoTask
  Signals <- MCSignals
  SyscallNumbers <- MCSyscalls
  SYS_EXIT = 1
  Screens <- MCScreens
  Texts <- MCTexts
  PanicTitle <- MCLine
  PanicReason <- MCText
  Vectors <- MCVectors
  Handlers <- MCHandlers
  OffsetPairs <- MCOffsetPairs
  FirmwareOffset <- MCFirmwareOffset
  FirmwareMasks <- MCFirmwareMasks
  NoLine = NoLine
  BootInfos <- MCBootInfos
  NoBootInfo = NoBootInfo
  Banner <- MCLine
  Workloads <- MCWorkloads
  MaxCalls = 5
INVARIANTS
  FramesAccounted
  SlotsKept
  ScreenText
  ChipsAsWanted
PROPERTIES
  ImplementsAddressSpace
  ImplementsFileTree
  HeapImplementsArena
