CONSTANTS
  Aps = {a, b, c}

SPECIFICATION Spec

SYMMETRY Symmetry

INVARIANTS
  ApResetHasCause

CHECK_DEADLOCK FALSE
