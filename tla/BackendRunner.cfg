SPECIFICATION Spec
CONSTANT MaxNames = 2
INVARIANTS
  OwnersOutlive
  LeavesNothing
  PlainModelsNamed
CHECK_DEADLOCK FALSE
