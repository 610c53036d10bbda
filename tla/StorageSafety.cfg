SPECIFICATION Spec
CONSTANTS
  grid = grid
  theme = theme
  gcc = gcc
  Repo <- MCRepo
  Unknown = Unknown
  NoName = NoName
  Inodes = 6
  Entries = 2
  MaxDownloads = 16
  BlockSectors = 3
  MaxStarts = 3
INVARIANTS
  DiskKeepsUp
  FlagsTrue
  NamedBlocksWritten
PROPERTIES
  NamesKept
CHECK_DEADLOCK FALSE
