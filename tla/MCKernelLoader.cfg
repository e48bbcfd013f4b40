CONSTANTS
  Files <- MCFiles
  Leftovers <- MCLeftovers
  Bases = {8, 20}
  Limit = 64
  Cuts = {6, 12}
  PAGE_SIZE = 4
  WORD32 = 16

SPECIFICATION Spec

INVARIANTS
  NothingLeftHeld
  WritesInside
  KernelAsLinked
