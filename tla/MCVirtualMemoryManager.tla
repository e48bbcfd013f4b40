---------------------- MODULE MCVirtualMemoryManager ----------------------
(***************************************************************************)
(* A machine of scaled geometry: six entries per table, pages of two       *)
(* bytes, so 2 MiB is 12, 1 GiB is 72, the higher half starts at slot 3,   *)
(* the self map is slot 4 and slot 5 the last one.  RAM is the 24 pages    *)
(* below 48, the PCI hole [48, 72) holds IOAPIC and LAPIC, and 72 stands   *)
(* for 4 GiB.                                                              *)
(***************************************************************************)
EXTENDS VirtualMemoryManager

D(type, first, pages) ==
  [type |-> type, physicalStart |-> first * PAGE_SIZE, numberOfPages |-> pages]

At(pages) == {p * PAGE_SIZE : p \in pages}

\* Conventional memory around the loaded kernel (pages 6 and 7, three bytes),
\* the firmware's stack (9) and the memory map (8); a frame buffer in the hole.
RAM ==
  << D("Conventional", 0, 6), D("LoaderData", 6, 3), D("BootServicesData", 9, 3),
     D("Conventional", 12, 12) >>

Ordinary ==
  [memoryMap |-> RAM, memoryMapAt |-> 16, running |-> At({6, 7, 9}),
   free |-> At(1..5 \cup 12..23), kernelBase |-> 12, kernelSize |-> 3,
   frameBufferBase |-> 48, frameBufferSize |-> 12]

\* Less and less memory for tables.
Scarce(n) == [Ordinary EXCEPT !.free = {p \in @ : p <= n * PAGE_SIZE}]
\* The memory map lies in a page the bitmap has as free.
MapInFreePage == [Ordinary EXCEPT !.memoryMapAt = 8]
\* The same, and the map begins with memory for huge pages, which is mapped before the
\* map is overwritten.
MapOverwrittenLate ==
  [Ordinary EXCEPT !.memoryMapAt = 32,
     !.memoryMap = << D("Conventional", 12, 12), D("BootServicesData", 9, 3),
                      D("LoaderData", 6, 3), D("Conventional", 0, 6) >>]
\* The firmware took a free page after the bitmap was made.
Disagreeing ==
  [Ordinary EXCEPT !.memoryMap =
     << D("Conventional", 0, 2), D("RuntimeServicesData", 2, 2), D("Conventional", 4, 2) >>
     \o Tail(RAM)]
\* A frame buffer below the hole that is no whole number of pages, memory above
\* 4 GiB, and a device the memory map lists.
HighMemory ==
  [Ordinary EXCEPT
     !.memoryMap = << D("Conventional", 0, 6), D("LoaderData", 6, 3),
                      D("BootServicesData", 9, 3), D("Conventional", 12, 6),
                      D("MemoryMappedIO", 30, 2), D("Conventional", 36, 6) >>,
     !.free = At(1..5 \cup 12..17 \cup 36..41),
     !.frameBufferBase = 36, !.frameBufferSize = 9]
\* A frame buffer that does not begin on a page.
Unaligned == [Ordinary EXCEPT !.frameBufferBase = 49]
Nothing == [Ordinary EXCEPT !.free = {}]

BootInfos ==
  {Ordinary, Scarce(3), Scarce(5), Scarce(13), Scarce(16), MapInFreePage, MapOverwrittenLate,
   Disagreeing, HighMemory, Unaligned, Nothing}

\* The entries of a table read as a descriptor.  A field is 0 or a page's address with
\* flags in its low bits, so no start but 0 is on a page (bit 63, NX, changes nothing
\* of that); the type, the lower half of an entry, is 0, or the 3 of P and RW at page 0,
\* or means nothing.
MCGarbage ==
  [type : {"Reserved", "BootServicesCode"}, physicalStart : {0, 3, 41}, numberOfPages : {0, 5}]

Low == At(0..42)
MCPages == Low \cup {HH(p) : p \in Low} \cup {WORD - PAGE_SIZE}

NoCalls == {}
NoPages == {}

\* Calls after init.  Into unused addresses, over single pages (20) and over a
\* page table (60), into huge pages (2: the one at physical page 0; 50: the
\* frame buffer), across the ends of huge pages and tables, at the last addresses,
\* over the root table (HH(2)) and the pages of tables to come (36), from the middle of
\* a page (83), and lookups.
MapPage(v, p, flags) == Call("map_page", v, p, 0, 0, flags, {})
UnmapPage(v) == Call("unmap_page", v, 0, 0, 0, {}, {})
GetPhys(v) == Call("get_phys", v, 0, 0, 0, {}, {})

MCCalls ==
  { MapPage(74, 100, {"RW"}), MapPage(20, 100, {"RW", "NX"}), MapPage(2, 100, {"RW"}),
    MapPage(50, 100, {"RW"}), MapPage(26, 100, {"RW"}),
    MapPage(HH(2), 100, {"RW"}), MapPage(WORD - 2, 100, {"RW"}),
    map_range(60, 96, 12, {"RW"}, {"MAP_HUGE"}), map_range(82, 92, 3, {"RW"}, {}),
    map_range(83, 92, 3, {"RW"}, {}), map_range(36, 96, 12, {"RW"}, {"MAP_HUGE"}),
    map_range(WORD - 12, 96, 12, {"RW"}, {"MAP_HUGE"}),
    UnmapPage(20), UnmapPage(50), UnmapPage(74), UnmapPage(26),
    unmap_range(58, 6), unmap_range(20, 10), unmap_range(66, 10),
    unmap_range(WORD - 4, 2),
    GetPhys(20), GetPhys(50), GetPhys(75), GetPhys(HH(2)) }

CallInfos == {Ordinary, Disagreeing}
MCTlbPages == {20, 50, 62, 74}

\* What KernelMain.cpp:37 says of the write to 0x100000000 that follows init: it
\* is a page fault.  It is not where memory above 4 GiB is mapped at its own
\* address.
DeliberateWriteFaults == phase = "ready" => Lookup(72) = NoPage
============================================================================
