SPECIFICATION Spec
CONSTANTS
  Keys <- MCKeys
  Nul = Nul
  Cross = Cross
  MaxLen = 2
  Width = 1024
  Height = 768
  Points <- MCPoints
  NoFlag = NoFlag
  QueueSize = 2
  MaxKeys = 6
  MaxPresses = 1
INVARIANT
  ProfileKept
CHECK_DEADLOCK FALSE
