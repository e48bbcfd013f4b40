SPECIFICATION Spec
CONSTANTS
  ENTRIES = 6
  PAGE_SIZE = 2
  Infos <- BootInfos
  LAPIC_BASE = 64
  IOAPIC_BASE = 52
  MMIO_SIZE = 2
  PCI_MMIO_BASE = 48
  PCI_MMIO_SIZE = 24
  Garbage <- MCGarbage
  Calls <- NoCalls
  MaxCalls = 0
  TlbPages <- NoPages
  Pages <- MCPages
INVARIANTS
  BootWritesOnlyTables
  BootMapsStraight
  BootMapComplete
  TablesReachable
  FaultsHaveACause
PROPERTY
  BootEnds
