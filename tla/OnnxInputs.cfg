SPECIFICATION Spec
CONSTANT MaxNames = 2
INVARIANT InputsNamed
CHECK_DEADLOCK FALSE
