CONSTANTS
  Size = 6
  KernelStart = 3
  MaxBlock = 4
  MaxNest = 2
  Byte <- MCByte
  Length <- MCLength
  InitMem <- MCInitMem
  InitMap <- MCInitMap
  Entry <- MCEntry
  Data <- MCData
  Transfer <- MCTransfer
  Pages = 3
  Frames = 3
  PageSize = 2
  MaxBlocks = 2
  Threshold = 2
  TlbSize = 2
  JmpPages = 3
  MaxMaps = 2
  MaxWrites = 1
SPECIFICATION ExecutionSpec
INVARIANTS
  KernelIsWatched
  BlocksAreCurrent
  JumpsToMappedCode
  RestartsOnce
