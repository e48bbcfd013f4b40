SPECIFICATION KernelSpec
CONSTANTS
  Machines <- MCMachines
  EFI_PAGE_SIZE = 8
  PER_BYTE = 8
  DESCRIPTOR = 1
  EventTypes = {"RuntimeServicesData"}
  MaxEvents = 2
  MaxPages = 16
  U64 = 64
INVARIANTS
  AllocatorKeepsItsBitmap
  PagesInUseKept
