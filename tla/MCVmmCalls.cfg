SPECIFICATION Spec
CONSTANTS
  ENTRIES = 6
  PAGE_SIZE = 2
  Infos <- CallInfos
  LAPIC_BASE = 64
  IOAPIC_BASE = 52
  MMIO_SIZE = 2
  PCI_MMIO_BASE = 48
  PCI_MMIO_SIZE = 24
  Garbage <- MCGarbage
  Calls <- MCCalls
  MaxCalls = 2
  TlbPages <- MCTlbPages
  Pages <- MCPages
INVARIANTS
  TablesFormTree
  TlbAgrees
  GetPhysAgrees
  UnmapComplete
PROPERTIES
  RangesEnd
  ImplementsAddressSpace
