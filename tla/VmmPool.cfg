SPECIFICATION MCSpec
CONSTANTS
  Granularity = 2
  kChunkSize = 6
  VaEnd <- MCVaEnd
  Bases <- MCBases
  Sizes <- MCSizes
  None = None
INVARIANTS
  TypeOK
  Partition
  HeldAligned
  FreeRangesSorted
  Coalesced
PROPERTIES
  ImplementsVaSpace
  NoSpareChunk
  NoNeedlessReserve
  AllocateVirtualEnds
CHECK_DEADLOCK FALSE
