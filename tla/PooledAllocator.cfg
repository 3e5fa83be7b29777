SPECIFICATION PooledSpec
CONSTANTS
  h1 = h1
  h2 = h2
  Handles <- MCHandles
  NoHandle = NoHandle
  Vram = 5
  Garbage = Garbage
  Granularity = 2
  Vas <- MCVas
  Linears = {l1}
  Sizes = {1, 2, 3}
  Tags = {tag}
  FallbackTag = fallback
  Data = {d1}
  SizeMod = 8
  kChunkSize = 6
  VaEnd <- MCVaEnd
  Bases <- MCBases
  None = None
INVARIANTS
  TypeOK
  PoolRangesUnmapped
  MappingsApart
  PoolPartition
  CarefulBacked
  CarefulCounted
PROPERTIES
  CarefulOnlyThrowsLose
  OthersUntouched
  PoolUsed
SYMMETRY MCSymmetry
CHECK_DEADLOCK FALSE
