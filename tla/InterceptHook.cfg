SPECIFICATION FairSpec
CONSTANTS
  kPageSize = 5
  kTrampolineSize = 2
  MaxPages = 3
  NoBlock = NoBlock
INVARIANTS
  AllOrNothing
  CallsReachTheirOwn
  TrampolinesWhole
PROPERTIES
  ShutdownRestores
  CallsEnd
CHECK_DEADLOCK FALSE
