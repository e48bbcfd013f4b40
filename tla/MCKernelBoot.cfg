SPECIFICATION Spec
CONSTANT ROWS = 2
INVARIANTS
  PanicHasScreen
  PanicHasCause
  ResetHasCause
PROPERTY
  PanicEnds
CHECK_DEADLOCK FALSE
