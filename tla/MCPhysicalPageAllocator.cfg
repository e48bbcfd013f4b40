SPECIFICATION Spec
CONSTANTS
  Infos <- MCInfos
  Addresses <- MCAddresses
  MaxPages = 16
  U64 = 1024
INVARIANTS
  TypeOK
  CountMatchesBitmap
  PagesConserved
PROPERTY
  ImplementsPageAllocator
