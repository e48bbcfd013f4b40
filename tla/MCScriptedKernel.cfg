CONSTANTS
  Files <- MCScripted
  Leftovers <- MCZeroes
  Bases = {8, 20}
  Limit = 64
  Cuts = {}
  PAGE_SIZE = 4
  WORD32 = 16

SPECIFICATION Spec

INVARIANT ScriptedKernelRelocated
