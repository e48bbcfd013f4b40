SPECIFICATION Spec
CONSTANTS
  FreePages <- MCFreePages
  Counts = {0, 2, 3, 5}
  SECTOR = 2
  DBC_RANGE = 4
  COUNT_RANGE = 4
  MaxCalls = 3
  MaxInits = 2
INVARIANTS
  SuccessMeansExecuted
  TornOnlyAfterFailure
  QuietAfterSuccess
  TransferFits
PROPERTIES
  ProgramsStoppedEngine
  CallsReturn
CHECK_DEADLOCK FALSE
