SPECIFICATION InterceptSpec
CONSTANTS
  v1 = v1
  v2 = v2
  v3 = v3
  h1 = h1
  h2 = h2
  h3 = h3
  Handles <- MCHandles
  NoHandle = NoHandle
  NullPtr = NullPtr
  Vram = 4
  Garbage = Garbage
  Granularity = 2
  Vas <- MCVas
  Linears = {l1}
  Sizes = {1, 2}
  Tags = {cuda}
  CudaTag = cuda
  FallbackTag = fallback
  Data = {d1, d2}
  SizeMod = 16
  Kinds = {"reloads"}
  MaxHeld = 2
  MaxRefs = 3
INVARIANT ReloadsIntact
SYMMETRY MCSymmetry
CHECK_DEADLOCK FALSE
