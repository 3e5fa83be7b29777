SPECIFICATION SwapSpec
CONSTANTS
  v1 = v1
  v2 = v2
  h1 = h1
  h2 = h2
  h3 = h3
  Handles <- MCHandles
  NoHandle = NoHandle
  NoPtr = NoPtr
  Vram = 4
  Garbage = Garbage
  Granularity = 2
  Vas <- MCVas
  Linears = {l1}
  Sizes = {1, 2}
  Tags = {a, b}
  SwapTags = {a, b, fallback}
  FallbackTag = fallback
  Data = {d1}
  SizeMod = 16
  kContexts = 2
  MaxSwapOuts = 3
INVARIANTS
  DataIntactOnce
  LiveBytesExact
PROPERTIES
  ImplementsSwapSpace
  StoppedOnlyByDriver
  SwapOnlyThrowsLose
SYMMETRY MCSymmetry
CHECK_DEADLOCK FALSE
