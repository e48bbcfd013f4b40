SPECIFICATION Spec
CONSTANTS
  Machines <- MCMachines
  EFI_PAGE_SIZE = 8
  PER_BYTE = 1
  DESCRIPTOR = 1
  EventTypes = {"BootServicesData", "RuntimeServicesData"}
  MaxEvents = 2
INVARIANTS
  HandoffMapIsCurrent
  ClearPagesInUse
  MarksLandInBitmap
PROPERTIES
  HaltHasCause
