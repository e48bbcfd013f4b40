------------------------ MODULE VirtualMemoryManager ------------------------
(***************************************************************************)
(* Kernel/src/kernel/memory/VirtualMemoryManager.cpp, namespace vmm: the   *)
(* construction of the kernel's address space (init) and the calls that    *)
(* change it afterwards, one step per iteration of their loops, next to    *)
(* the processor, which caches translations in its TLB whenever it likes.  *)
(*                                                                         *)
(* ppa::alloc is taken as PhysicalPageAllocator implements it: the lowest  *)
(* free page.  Until init loads CR3 the firmware's identity map is in      *)
(* force.  Afterwards the code reaches a table through the higher half and *)
(* clears a new one through its identity address.  No page there is a page *)
(* fault (phase "faulted").  Where a call mapped another page there, the   *)
(* code reads, writes or clears that page instead, or the table after all  *)
(* if the processor still caches the former translation: the model ends    *)
(* (phase "misdirected") and claims nothing of what follows.               *)
(*                                                                         *)
(* last, dropped, replaced and stray are history variables.                *)
(***************************************************************************)
EXTENDS PageTables, Sequences

CONSTANTS
  Infos,         \* the boot information the kernel may be started with
  LAPIC_BASE, IOAPIC_BASE, MMIO_SIZE, PCI_MMIO_BASE, PCI_MMIO_SIZE,
  Garbage,       \* descriptors read from a page that became a page table
  Calls,         \* the calls the kernel may make after init
  MaxCalls,      \* bound on their number
  TlbPages,      \* the pages the processor may cache a translation of
  Pages          \* the virtual pages the properties look at

VARIABLES
  info,          \* the LOADER_BOOT_INFO: memory map, images, free pages
  free,          \* the pages ppa::alloc can still return
  mem,           \* the page tables allocated so far: address -> entries
  g_pml4_p, g_pml4_v, g_hh_enabled,
  cr3,           \* the root the processor walks; nullptr: the firmware's
  tlb,           \* cached translations: first address, size, physical address
  phase,         \* "off", "init", "ready", "failed", "faulted", "misdirected", "runaway",
                 \* "overwritten"
  todo,          \* the map_range calls init has still to make
  call,          \* the map_range or unmap_range in progress
  calls,         \* how many calls were made after init
  last,          \* history: the last call and, of get_phys, its result
  dropped,       \* history: an allocation failed and a mapping was not made
  replaced,      \* history: pages that lost a translation to another mapping
  stray          \* history: data pages that were written as page tables

vars == <<info, free, mem, g_pml4_p, g_pml4_v, g_hh_enabled, cr3, tlb, phase,
          todo, call, calls, last, dropped, replaced, stray>>

machine == <<info, g_pml4_p, g_pml4_v, g_hh_enabled, cr3>>

------------------------------------------------------------------------------
(* The memory map and the calls init makes.                                *)

is_mappable(t) ==
  t \in {"Conventional", "BootServicesCode", "BootServicesData", "LoaderCode",
         "LoaderData", "ACPIReclaim", "ACPIMemoryNVS", "MemoryMappedIO",
         "MemoryMappedIOPortSpace"}

HugeTypes == {"Conventional", "BootServicesCode", "BootServicesData"}

\* A call, and how far it has come: map_range counts size down, unmap_range
\* moves virt up to end.
Call(op, virt, phys, size, end, flags, opts) ==
  [op |-> op, virt |-> virt, phys |-> phys, size |-> size, end |-> end,
   flags |-> flags, opts |-> opts]

Idle == Call("none", 0, 0, 0, 0, {}, {})

\* Faulty variant: the end of the range is not rounded up to a page.
map_range_unrounded(virt, phys, size, flags, opts) ==
  Call("map_range", virt, phys, size, 0, flags, opts)

\* The first lines of map_range round its end up and derive the size again.
map_range(virt, phys, size, flags, opts) ==
  Call("map_range", virt, phys, Minus(RoundUp(Plus(virt, size)), virt), 0, flags, opts)

\* unmap_range rounds both ends outwards, unless there is nothing to do.
unmap_range(virt, size) ==
  Call("unmap_range", AlignDown(virt, PAGE_SIZE), 0, size,
       IF size = 0 THEN 0 ELSE RoundUp(Plus(virt, size)), {}, {})

HH(a) == Plus(HIGHER_HALF_OFFSET, a)
MMIO  == {"P", "RW", "PCD", "PWT"}
FrameBuffer(i, base) ==
  map_range(base, i.frameBufferBase, i.frameBufferSize, {"P", "RW", "NX"}, {"MAP_HUGE"})

MmioRanges ==
  << map_range(LAPIC_BASE, LAPIC_BASE, MMIO_SIZE, MMIO, {}),
     map_range(IOAPIC_BASE, IOAPIC_BASE, MMIO_SIZE, MMIO, {}),
     map_range(PCI_MMIO_BASE, PCI_MMIO_BASE, PCI_MMIO_SIZE, MMIO \cup {"NX"}, {}),
     map_range(HH(PCI_MMIO_BASE), PCI_MMIO_BASE, PCI_MMIO_SIZE, MMIO \cup {"NX"}, {}) >>

\* The ranges of one descriptor: identity, and higher half if it is mappable.
Identity(d, base) ==
  map_range(base, d.physicalStart, d.numberOfPages * PAGE_SIZE, {"P", "RW"},
            IF d.type \in HugeTypes THEN {"MAP_HUGE"} ELSE {})

ImageRanges(i) ==
  << FrameBuffer(i, i.frameBufferBase),
     map_range(HH(i.kernelBase), i.kernelBase, i.kernelSize, {"P", "RW"}, {"MAP_HUGE"}),
     FrameBuffer(i, HH(i.frameBufferBase)) >>

\* What init has to do, in order: ranges, and descriptors it has yet to read.
Item(kind, n, range) == [kind |-> kind, n |-> n, range |-> range]
Ranges(s) == [k \in DOMAIN s |-> Item("range", 0, s[k])]

\* Faulty variant: the images are mapped before the devices.
Program_images_first(i) ==
  Ranges(ImageRanges(i))
  \o [k \in DOMAIN i.memoryMap |-> Item("descriptor", k, Idle)]
  \o Ranges(MmioRanges)

Program(i) ==
  Ranges(MmioRanges)
  \o [k \in DOMAIN i.memoryMap |-> Item("descriptor", k, Idle)]
  \o Ranges(ImageRanges(i))

\* The addresses the kernel uses: those the processor accepts, canonical ones, but
\* for the slot that holds the self map.
Canonical(a) == a < PML4_SPAN * (ENTRIES \div 2) \/ a >= HIGHER_HALF_OFFSET
Usable(a) == Canonical(a) /\ PML4_IDX(a) # ENTRIES - 2

\* A call within them.
Fits(c) ==
  /\ c = Call(c.op, c.virt, c.phys, c.size, c.end, c.flags, c.opts)
  /\ c.virt \in 0..(WORD - 1) /\ c.phys \in Nat /\ c.size \in 0..(WORD - 1) /\ c.end \in Nat
  /\ c.flags \subseteq PageFlags
  /\ CASE c.op = "map_range" ->
            c.virt + c.size <= WORD /\ \A a \in c.virt..(c.virt + c.size - 1) : Usable(a)
       [] c.op = "unmap_range" ->
            /\ c.virt % PAGE_SIZE = 0 /\ c.end % PAGE_SIZE = 0 /\ c.end < WORD
            /\ \A a \in c.virt..(c.end - 1) : Usable(a)
       [] OTHER -> Usable(c.virt)

\* Memory and devices lie below the addresses the processor refuses.
LowAddress(a) == a \in Nat /\ a < PML4_SPAN * (ENTRIES \div 2)

DescriptorFits(d) ==
  /\ LowAddress(d.physicalStart)
  /\ Fits(Identity(d, d.physicalStart)) /\ Fits(Identity(d, HH(d.physicalStart)))

\* The pages a descriptor describes.
Describes(d, p) ==
  p >= d.physicalStart /\ p < d.physicalStart + d.numberOfPages * PAGE_SIZE

\* UEFI's descriptors begin on a page.
MemoryFits(d) ==
  /\ DescriptorFits(d)
  /\ d.physicalStart % PAGE_SIZE = 0 /\ d.numberOfPages \in Nat
  /\ LowAddress(d.physicalStart + d.numberOfPages * PAGE_SIZE)

ASSUME AddressAssumption ==
  /\ TlbPages \cup Pages \subseteq 0..(WORD - 1)
  /\ \A p \in TlbPages \cup Pages : Usable(p)
  /\ \A c \in Calls : Fits(c)
  /\ \A d \in Garbage : DescriptorFits(d)
  /\ \A a \in {LAPIC_BASE, IOAPIC_BASE, PCI_MMIO_BASE} : LowAddress(a)
  /\ MMIO_SIZE \in Nat /\ PCI_MMIO_SIZE \in Nat
  /\ \A k \in 1..4 : Fits(MmioRanges[k])
  /\ \A i \in Infos :
       /\ i.free \subseteq Nat \ {nullptr}
       /\ Len(i.memoryMap) \in Nat /\ DOMAIN i.memoryMap = 1..Len(i.memoryMap)
       /\ \A k \in DOMAIN i.memoryMap : MemoryFits(i.memoryMap[k])
       /\ \A p \in i.running : p \in Nat /\ \E k \in DOMAIN i.memoryMap : Describes(i.memoryMap[k], p)
       /\ LowAddress(i.frameBufferBase) /\ i.frameBufferSize \in Nat
       /\ LowAddress(i.kernelBase) /\ i.kernelSize \in Nat
       /\ \A k \in 1..3 : Fits(ImageRanges(i)[k])

\* The memory two calls map does not overlap.
Apart(r, s) == r.phys + r.size <= s.phys \/ s.phys + s.size <= r.phys

\* UEFI's descriptors are apart.  The frame buffer is device memory and the kernel lies in
\* a descriptor of LoaderData: they are apart from each other and from the memory that is
\* mapped with huge pages.
ASSUME ApartAssumption ==
  \A i \in Infos :
    LET At(k) == Identity(i.memoryMap[k], i.memoryMap[k].physicalStart) IN
    /\ \A j, k \in DOMAIN i.memoryMap : j # k => Apart(At(j), At(k))
    /\ \A k \in DOMAIN i.memoryMap, n \in 1..3 :
         i.memoryMap[k].type \in HugeTypes => Apart(At(k), ImageRanges(i)[n])
    /\ \A n \in {1, 3} : Apart(ImageRanges(i)[2], ImageRanges(i)[n])

\* Reading descriptor n: from a page that was allocated as a page table in the
\* meantime each field is an entry of that table, or the lower half of one.
MapOverwritten == info.memoryMapAt \in DOMAIN mem
Descriptors(n) == IF MapOverwritten THEN Garbage ELSE {info.memoryMap[n]}

------------------------------------------------------------------------------
(* Walking and extending the tables.  s threads the state through the      *)
(* calls of one step: the tables and free pages, the table reached so far  *)
(* (at), whether it was reached through a huge page, and whether the step  *)
(* failed to reach a page it meant, at the address missed.                 *)

Here == [mem |-> mem, free |-> free, at |-> g_pml4_p, huge |-> FALSE, fault |-> FALSE,
         missed |-> 0]

\* After init the table at a is accessed through its higher-half address, and a
\* page is cleared through its identity address.
Reaches(m, virt, phys) == g_hh_enabled => Translate(m, g_pml4_p, virt).phys = phys
Accessible(s, a) == Reaches(s.mem, HH(a), a)
Misses(s, virt) == [s EXCEPT !.fault = TRUE, !.missed = virt]

Lowest(S) == CHOOSE p \in S : \A q \in S : p <= q

\* The page is taken, then cleared, and only then entered in its parent.
new_table(s, i, left) ==
  LET p == Lowest(s.free)
      linked == [s.mem EXCEPT ![s.at][i] = Entry(p, {"P", "RW"})]
  IN
  IF ~Reaches(s.mem, p, p) THEN Misses([s EXCEPT !.free = left], p)
  ELSE [s EXCEPT !.mem = [t \in DOMAIN linked \cup {p} |->
                            IF t = p THEN EmptyTable ELSE linked[t]],
                 !.free = left,
                 !.at = p]

\* Faulty variant: the page of the new table is not taken from the free pages.
NewTable_stays_free(s, i) == new_table(s, i, s.free)

NewTable(s, i) == new_table(s, i, s.free \ {Lowest(s.free)})

\* The entry is not checked for PF_PS: a huge page is taken for a table.
ensure_table(s, i) ==
  LET e == s.mem[s.at][i] IN
  IF s.at = nullptr \/ s.fault THEN s
  ELSE IF ~Accessible(s, s.at) THEN Misses(s, HH(s.at))
  ELSE IF Present(e) THEN [s EXCEPT !.at = e.to, !.huge = "PS" \in e.flags]
  ELSE IF s.free = {} THEN [s EXCEPT !.at = nullptr]
  ELSE NewTable(s, i)

\* Faulty variant: an entry that is present is kept.
store_keeps_first(s, i, e) ==
  IF s.at \in DOMAIN s.mem /\ ~Present(s.mem[s.at][i])
  THEN [s EXCEPT !.mem[s.at][i] = e] ELSE s

\* Write an entry of the table reached, which may be a huge page and no table.
store(s, i, e) ==
  IF s.at = nullptr \/ s.fault THEN s
  ELSE IF ~Accessible(s, s.at) THEN Misses(s, HH(s.at))
  ELSE IF s.huge THEN s
  ELSE [s EXCEPT !.mem[s.at][i] = e]

\* A page that is no page table is written as one.  When it is a page table after
\* all, of another address, the model ends here.
Strayed(a) == IF a \in DOMAIN mem THEN "overwritten" ELSE phase

\* The outcome, as a set of one state, of reaching the page directory of v, and
\* of mapping a page or a huge page there.
pd_of(v) ==
  {ensure_table(s, PDPT_IDX(v)) : s \in {ensure_table(Here, PML4_IDX(v))}}

map_page(virt, phys, flags) ==
  {store(pt, PT_IDX(virt), Entry(AlignDown(phys, PAGE_SIZE), flags \cup {"P"})) :
     pt \in {ensure_table(pd, PD_IDX(virt)) : pd \in pd_of(virt)}}

map_huge(virt, phys, flags) ==
  {store(pd, PD_IDX(virt), Entry(AlignDown(phys, HUGE_SIZE), flags \cup {"P", "PS"})) :
     pd \in pd_of(virt)}

Lookup(v) == Translate(mem, g_pml4_p, v)

\* What becomes of an access that does not find the page it means at virt.
Missing(virt) == IF Lookup(virt) = NoPage THEN "faulted" ELSE "misdirected"

\* What a step that maps n bytes at virt leaves behind.
Effect(s, virt, n) ==
  /\ mem' = s.mem
  /\ free' = s.free
  /\ phase' = IF s.fault THEN Missing(s.missed) ELSE IF s.huge THEN Strayed(s.at) ELSE phase
  /\ dropped' = (dropped \/ s.at = nullptr)
  /\ stray' = stray \cup (IF s.huge THEN {s.at} \ {nullptr} ELSE {})
  /\ replaced' = IF s.huge \/ s.at = nullptr THEN replaced
                 ELSE replaced \cup {p \in TlbPages : /\ AlignDown(p, n) = AlignDown(virt, n)
                                                      /\ Lookup(p) # NoPage}

------------------------------------------------------------------------------
(* init                                                                    *)

Init ==
  /\ info \in Infos
  /\ free = info.free
  /\ mem = <<>>
  /\ g_pml4_p = nullptr /\ g_pml4_v = nullptr /\ g_hh_enabled = FALSE
  /\ cr3 = nullptr /\ tlb = {}
  /\ phase = "off" /\ todo = <<>> /\ call = Idle /\ calls = 0
  /\ last = [call |-> Idle, inside |-> FALSE, res |-> 0]
  /\ dropped = FALSE /\ replaced = {} /\ stray = {}

history == <<last, dropped, replaced, stray>>

init_root ==
  /\ phase = "off"
  /\ \E root \in free :
       /\ root = Lowest(free)
       /\ g_pml4_p' = root
       /\ g_pml4_v' = root
       /\ mem' = [t \in {root} |-> [EmptyTable EXCEPT ![ENTRIES - 2] = Entry(root, {"P", "RW"})]]
       /\ free' = free \ {root}
  /\ phase' = "init"
  /\ todo' = Program(info)
  /\ UNCHANGED <<info, g_hh_enabled, cr3, tlb, call, calls, history>>

init_fails ==
  /\ phase = "off" /\ free = {}
  /\ phase' = "failed"
  /\ UNCHANGED <<machine, free, mem, tlb, todo, call, calls, history>>

\* The next call of init.
init_range ==
  /\ phase = "init" /\ call = Idle /\ todo # <<>> /\ Head(todo).kind = "range"
  /\ call' = Head(todo).range
  /\ todo' = Tail(todo)
  /\ UNCHANGED <<machine, free, mem, tlb, phase, calls, history>>

\* Reading the descriptor at the head of todo: what is mapped now, what later.
reads(kind, now(_), later(_)) ==
  /\ phase = "init" /\ call = Idle /\ todo # <<>> /\ Head(todo).kind = kind
  /\ \E d \in Descriptors(Head(todo).n) : call' = now(d) /\ todo' = later(d) \o Tail(todo)
  /\ UNCHANGED <<machine, free, mem, tlb, phase, calls, history>>

HigherHalf(d) == << Item("higher_half", Head(todo).n, Identity(d, HH(d.physicalStart))) >>

\* Faulty variants: a descriptor is mapped at its identity address only, or only
\* if it describes memory for huge pages.
init_descriptor_identity_only ==
  reads("descriptor", LAMBDA d : Identity(d, d.physicalStart), LAMBDA d : <<>>)
init_descriptor_huge_only ==
  reads("descriptor",
        LAMBDA d : IF d.type \in HugeTypes THEN Identity(d, d.physicalStart) ELSE Idle,
        HigherHalf)

init_descriptor ==
  reads("descriptor", LAMBDA d : Identity(d, d.physicalStart), HigherHalf)

\* Start and size were read before the identity mapping, the type is read again.
init_higher_half ==
  reads("higher_half",
        LAMBDA d : IF is_mappable(d.type) THEN Head(todo).range ELSE Idle, LAMBDA d : <<>>)

\* Load CR3 and switch to the higher half.  The kernel runs on, at the identity
\* addresses of its image and stack: without them the processor faults at once.
init_switch ==
  /\ phase = "init" /\ call = Idle /\ todo = <<>>
  /\ cr3' = g_pml4_p
  /\ tlb' = {}
  /\ IF \A p \in info.running : Lookup(p).phys = p
     THEN /\ g_hh_enabled' = TRUE
          /\ g_pml4_v' = HH(g_pml4_p)
          /\ phase' = "ready"
     ELSE /\ phase' = "faulted"
          /\ UNCHANGED <<g_hh_enabled, g_pml4_v>>
  /\ UNCHANGED <<info, g_pml4_p, free, mem, todo, call, calls, history>>

------------------------------------------------------------------------------
(* The loops of map_range and unmap_range, an iteration at a time.         *)

Running(op) == phase \in {"init", "ready"} /\ call.op = op

\* Faulty variant: the physical address stays where it is.
Advance_forgets_phys(n) == [call EXCEPT !.virt = Plus(@, n), !.size = Minus(@, n)]

Advance(n) == [call EXCEPT !.virt = Plus(@, n), !.phys = Plus(@, n), !.size = Minus(@, n)]

Huge(c) ==
  /\ "MAP_HUGE" \in c.opts
  /\ c.virt % HUGE_SIZE = 0
  /\ c.phys % HUGE_SIZE = 0
  /\ c.size >= HUGE_SIZE

\* Without memory for a table the huge path gives up the range ...
map_range_huge ==
  /\ Running("map_range") /\ Huge(call)
  /\ \E s \in map_huge(call.virt, call.phys, call.flags) :
       /\ Effect(s, call.virt, HUGE_SIZE)
       /\ call' = IF s.at = nullptr THEN Idle ELSE Advance(HUGE_SIZE)
  /\ UNCHANGED <<machine, tlb, todo, calls, last>>

\* ... and the other path goes on to the next page.
map_range_page ==
  /\ Running("map_range") /\ call.size >= PAGE_SIZE /\ ~Huge(call)
  /\ \E s \in map_page(call.virt, call.phys, call.flags) :
       Effect(s, call.virt, PAGE_SIZE)
  /\ call' = Advance(PAGE_SIZE)
  /\ UNCHANGED <<machine, tlb, todo, calls, last>>

\* Less than a page is left: the size wraps below zero and the loop goes on
\* through the whole address space.  The model ends here.
map_range_runs_away ==
  /\ Running("map_range") /\ call.size # 0 /\ call.size < PAGE_SIZE
  /\ phase' = "runaway"
  /\ UNCHANGED <<machine, free, mem, tlb, todo, call, calls, history>>

range_done ==
  /\ \/ Running("map_range") /\ call.size = 0
     \/ Running("unmap_range") /\ call.virt >= call.end
  /\ call' = Idle
  /\ UNCHANGED <<machine, free, mem, tlb, phase, todo, calls, history>>

\* The entries on the way to v.
pml4e(v) == mem[g_pml4_p][PML4_IDX(v)]
pdpte(v) == mem[pml4e(v).to][PDPT_IDX(v)]
pde(v)   == mem[pdpte(v).to][PD_IDX(v)]
pte(v)   == mem[pde(v).to][PT_IDX(v)]

\* The bytes the first absent entry on the way to v covers; 0 if there is none.
Hole(v) ==
  IF ~Present(pml4e(v)) THEN PML4_SPAN
  ELSE IF ~Present(pdpte(v)) THEN PDPT_SPAN
  ELSE IF ~Present(pde(v)) THEN HUGE_SIZE
  ELSE IF "PS" \notin pde(v).flags /\ ~Present(pte(v)) THEN PAGE_SIZE
  ELSE 0

\* The tables read on the way to v, the page table excepted.
UpperTables(v) ==
  {g_pml4_p}
  \cup (IF Hole(v) # PML4_SPAN THEN {pml4e(v).to} ELSE {})
  \cup (IF Hole(v) \notin {PML4_SPAN, PDPT_SPAN} THEN {pdpte(v).to} ELSE {})

\* The page table of v; unmap_page takes a huge page for one.
PageTable(v) == IF Hole(v) \in {0, PAGE_SIZE} THEN {pde(v).to} \ {nullptr} ELSE {}

\* One of the tables is not where phys2virt says: the first of them on the way to v.
Lost(tables) == \E t \in tables : ~Accessible(Here, t)
FirstLost(v) ==
  IF ~Accessible(Here, g_pml4_p) THEN g_pml4_p
  ELSE IF ~Accessible(Here, pml4e(v).to) THEN pml4e(v).to
  ELSE IF ~Accessible(Here, pdpte(v).to) THEN pdpte(v).to
  ELSE pde(v).to
Faults(v) ==
  Lost(UpperTables(v)
       \cup (IF Lookup(v).size = HUGE_SIZE THEN {} ELSE PageTable(v)))

invlpg(v) == {t \in tlb : v < t.base \/ v >= t.base + t.size}

Unmapping(v) ==
  Running("unmap_range") /\ v = call.virt /\ v < call.end /\ ~Faults(v)

skips_to(v) ==
  /\ Unmapping(call.virt) /\ Hole(call.virt) # 0
  /\ call' = [call EXCEPT !.virt = v]
  /\ UNCHANGED <<machine, free, mem, tlb, phase, todo, calls, history>>

\* Faulty variants: the address is aligned down but not moved on; an absent page
\* is skipped with its whole table.
unmap_range_skip_in_place == skips_to(AlignDown(call.virt, Hole(call.virt)))
unmap_range_skip_table ==
  skips_to(NextBlock(call.virt, IF Hole(call.virt) = PAGE_SIZE THEN HUGE_SIZE ELSE Hole(call.virt)))

unmap_range_skip ==
  /\ skips_to(NextBlock(call.virt, Hole(call.virt)))
  /\ NextBlock(call.virt, Hole(call.virt)) > call.virt

\* Past the last address the loop begins again at address 0, below the end, and unmaps
\* whatever it comes to.  The model ends with the iteration that takes it there.
unmap_range_wraps ==
  LET v == call.virt IN
  /\ Unmapping(v)
  /\ IF Hole(v) # 0 THEN NextBlock(v, Hole(v)) < v
     ELSE "PS" \in pde(v).flags /\ Plus(v, HUGE_SIZE) < v
  /\ phase' = "runaway"
  /\ UNCHANGED <<machine, free, mem, tlb, todo, call, calls, history>>

\* The whole huge page goes, even if the range covers a part of it, and the
\* next address is 2 MiB on, wherever in the huge page this one was.
unmap_range_huge ==
  LET v == call.virt IN
  /\ Unmapping(v) /\ Hole(v) = 0 /\ "PS" \in pde(v).flags /\ Plus(v, HUGE_SIZE) > v
  /\ mem' = [mem EXCEPT ![pdpte(v).to][PD_IDX(v)] = NoEntry]
  /\ tlb' = invlpg(v)
  /\ call' = [call EXCEPT !.virt = Plus(v, HUGE_SIZE)]
  /\ UNCHANGED <<machine, free, phase, todo, calls, history>>

removes_page(cached) ==
  LET v == call.virt IN
  /\ Unmapping(v) /\ Hole(v) = 0 /\ "PS" \notin pde(v).flags
  /\ mem' = [mem EXCEPT ![pde(v).to][PT_IDX(v)] = NoEntry]
  /\ tlb' = cached
  /\ call' = [call EXCEPT !.virt = Plus(v, PAGE_SIZE)]
  /\ UNCHANGED <<machine, free, phase, todo, calls, history>>

\* Faulty variant: the page is not invalidated.
unmap_range_page_keeps_tlb == removes_page(tlb)

unmap_range_page == removes_page(invlpg(call.virt))

unmap_range_fault ==
  /\ Running("unmap_range") /\ call.virt < call.end /\ Faults(call.virt)
  /\ phase' = Missing(HH(FirstLost(call.virt)))
  /\ UNCHANGED <<machine, free, mem, tlb, todo, call, calls, history>>

------------------------------------------------------------------------------
(* The calls the kernel may make once init has succeeded.                  *)

Inside(v) == Lookup(v).size = HUGE_SIZE /\ v % HUGE_SIZE # 0

Begin(c) ==
  /\ phase = "ready" /\ call = Idle /\ calls < MaxCalls
  /\ calls' = calls + 1

Record(c, res) == last' = [call |-> c, inside |-> Inside(c.virt), res |-> res]

call_range(c) ==
  /\ Begin(c) /\ c.op \in {"map_range", "unmap_range"}
  /\ call' = c
  /\ Record(c, 0)
  /\ UNCHANGED <<machine, free, mem, tlb, phase, todo, dropped, replaced, stray>>

call_map_page(c) ==
  /\ Begin(c) /\ c.op = "map_page"
  /\ \E s \in map_page(c.virt, c.phys, c.flags) : Effect(s, c.virt, PAGE_SIZE)
  /\ Record(c, 0)
  /\ UNCHANGED <<machine, tlb, todo, call>>

\* unmap_page does not check PF_PS either: in a huge page it takes a word of
\* the page for an entry and clears it if its bit 0 happens to be set.
MayBePresent(a, i) == IF a \in DOMAIN mem THEN {Present(mem[a][i])} ELSE BOOLEAN

unmap_page_clears(v) ==
  /\ PageTable(v) # {}
  /\ TRUE \in MayBePresent(pde(v).to, PT_IDX(v))
  /\ IF "PS" \in pde(v).flags
     THEN /\ stray' = stray \cup {pde(v).to}
          /\ phase' = Strayed(pde(v).to)
          /\ UNCHANGED mem
     ELSE /\ mem' = [mem EXCEPT ![pde(v).to][PT_IDX(v)] = NoEntry]
          /\ UNCHANGED <<stray, phase>>
  /\ tlb' = invlpg(v)

unmap_page_ignores(v) ==
  /\ \/ PageTable(v) = {}
     \/ /\ PageTable(v) # {}
        /\ FALSE \in MayBePresent(pde(v).to, PT_IDX(v))
  /\ UNCHANGED <<mem, stray, phase, tlb>>

call_unmap_page(c) ==
  /\ Begin(c) /\ c.op = "unmap_page"
  /\ ~Lost(UpperTables(c.virt) \cup PageTable(c.virt))
  /\ unmap_page_clears(c.virt) \/ unmap_page_ignores(c.virt)
  /\ Record(c, 0)
  /\ UNCHANGED <<machine, free, todo, call, dropped, replaced>>

\* The masks of get_phys keep bit 63 of the entry.
Bit63(e) == IF "NX" \in e.flags THEN NX_BIT ELSE 0

looks_up(v, huge_offset) ==
  IF Hole(v) # 0 THEN 0
  ELSE IF "PS" \in pde(v).flags
  THEN Bit63(pde(v)) + AlignDown(pde(v).to, HUGE_SIZE) + huge_offset
  ELSE Bit63(pte(v)) + pte(v).to + (v % PAGE_SIZE)

\* Faulty variant: the offset in a huge page is taken for one in a page.
get_phys_page_offset(v) == looks_up(v, v % PAGE_SIZE)

get_phys(v) == looks_up(v, v % HUGE_SIZE)

call_get_phys(c) ==
  /\ Begin(c) /\ c.op = "get_phys" /\ ~Faults(c.virt)
  /\ Record(c, get_phys(c.virt))
  /\ UNCHANGED <<machine, free, mem, tlb, phase, todo, call, dropped, replaced, stray>>

call_faults(c) ==
  /\ Begin(c)
  /\ \/ c.op = "unmap_page" /\ Lost(UpperTables(c.virt) \cup PageTable(c.virt))
     \/ c.op = "get_phys" /\ Faults(c.virt)
  /\ phase' = Missing(HH(FirstLost(c.virt)))
  /\ Record(c, 0)
  /\ UNCHANGED <<machine, free, mem, tlb, todo, call, dropped, replaced, stray>>

------------------------------------------------------------------------------

\* The processor may cache any translation that is in force.
tlb_fill ==
  /\ cr3 # nullptr /\ phase = "ready"
  /\ \E p \in TlbPages :
       LET t == Lookup(p) IN
       /\ t # NoPage
       /\ tlb' = tlb \cup {[base |-> AlignDown(p, t.size), size |-> t.size,
                            phys |-> AlignDown(t.phys, t.size)]}
  /\ UNCHANGED <<machine, free, mem, phase, todo, call, calls, history>>

init ==
  \/ init_root \/ init_fails
  \/ init_range \/ init_descriptor \/ init_higher_half \/ init_switch

range_step ==
  \/ map_range_huge \/ map_range_page \/ map_range_runs_away \/ range_done
  \/ unmap_range_skip \/ unmap_range_wraps \/ unmap_range_huge \/ unmap_range_page
  \/ unmap_range_fault

api(c) ==
  \/ call_range(c) \/ call_map_page(c) \/ call_unmap_page(c)
  \/ call_get_phys(c) \/ call_faults(c)

\* The kernel has nothing left to do here: it failed, faulted, or made its calls; or the
\* model says no more of it.
Stopped ==
  /\ \/ phase \in {"failed", "faulted", "misdirected", "runaway", "overwritten"}
     \/ phase = "ready" /\ call = Idle /\ calls = MaxCalls
  /\ UNCHANGED vars

Next == init \/ range_step \/ (\E c \in Calls : api(c)) \/ tlb_fill \/ Stopped

\* The processor executes the kernel's instructions; it need not fill its TLB,
\* and nobody need call.
Spec == Init /\ [][Next]_vars /\ WF_vars(init \/ range_step)

------------------------------------------------------------------------------
(* Properties                                                              *)

\* The entries of a set of tables, by their place, the self map excepted.
Entries(tables) ==
  {e \in (tables \cap DOMAIN mem) \X Idx :
     e # <<g_pml4_p, ENTRIES - 2>> /\ Present(mem[e[1]][e[2]])}
Child(e)  == mem[e[1]][e[2]].to
Below(tables) == {Child(e) : e \in {f \in Entries(tables) : "PS" \notin mem[f[1]][f[2]].flags}}

\* The tables form a tree of four levels: every present entry above the last
\* level that is no huge page holds the address of a table, and no table is
\* reached in two ways or used at two levels, so an entry written for one
\* address never shows up at another.  It holds up to a call that writes where it
\* should not: one that maps a page inside a huge page that holds a table, or that
\* reaches a table at an address an earlier call mapped elsewhere.  There the model
\* ends.
TablesFormTree ==
  g_pml4_p # nullptr =>
    LET l3 == Below({g_pml4_p})
        l2 == Below(l3)
        l1 == Below(l2)
        upper == {e \in Entries({g_pml4_p} \cup l3 \cup l2) : "PS" \notin mem[e[1]][e[2]].flags}
    IN /\ {g_pml4_p} \cup l3 \cup l2 \cup l1 \subseteq DOMAIN mem
       /\ \A e, f \in upper : Child(e) = Child(f) => e = f
       /\ g_pml4_p \notin l3 \cup l2 \cup l1
       /\ mem[g_pml4_p][ENTRIES - 2] = Entry(g_pml4_p, {"P", "RW"})

\* While it boots the kernel writes only into pages it allocated as tables: no page is
\* mapped where an earlier call of init has put a huge page, unless the memory map was
\* overwritten while init read it.
BootWritesOnlyTables == calls = 0 /\ ~MapOverwritten => stray = {}

\* Whatever fails on the way, a virtual address that is mapped during boot is
\* mapped to itself or, in the higher half, to itself less the offset.
BootMapsStraight ==
  calls = 0 /\ g_pml4_p # nullptr =>
    \A p \in Pages : LET t == Lookup(p) IN
      t # NoPage => t.phys = IF p >= HIGHER_HALF_OFFSET THEN p - HIGHER_HALF_OFFSET ELSE p

\* The ranges init is to map, each with its place in the order.
Wanted ==
  LET m == info.memoryMap
      n == 4 + 2 * Len(m)
  IN {<<k, MmioRanges[k]>> : k \in 1..4}
     \cup {<<3 + 2 * k, Identity(m[k], m[k].physicalStart)>> : k \in DOMAIN m}
     \cup {<<4 + 2 * k, Identity(m[k], HH(m[k].physicalStart))>> :
             k \in {j \in DOMAIN m : is_mappable(m[j].type)}}
     \cup {<<n + k, ImageRanges(info)[k]>> : k \in 1..3}

Covers(r, p) == p >= r.virt /\ p < r.virt + r.size

\* The last range that covers a page decides.
WantedAt(p) ==
  LET rs == {w \in Wanted : Covers(w[2], p)} IN
  IF rs = {} THEN NoPage
  ELSE LET r == (CHOOSE w \in rs : \A x \in rs : x[1] <= w[1])[2]
       IN [phys |-> r.phys + (p - r.virt), flags |-> r.flags]

Booted == phase = "ready" /\ calls = 0

\* If memory lasts and the memory map is not overwritten while it is read, the
\* address space init leaves is the one its calls ask for, each page as the last
\* call that covers it says, whatever huge pages and tables came before.
BootMapComplete ==
  Booted /\ ~dropped /\ ~MapOverwritten =>
    \A p \in Pages : LET t == Lookup(p)
                         w == WantedAt(p)
                     IN t.phys = w.phys /\ t.flags = w.flags

\* The bitmap the loader made and the memory map it passed agree: each page the
\* allocator may return lies in a descriptor vmm maps into the higher half.
FreePagesMappable ==
  \A p \in info.free : \E k \in DOMAIN info.memoryMap :
    is_mappable(info.memoryMap[k].type) /\ Describes(info.memoryMap[k], p)

\* Then, after the switch to the higher half, every table is where phys2virt
\* says, and so is every page a later call may turn into one.
TablesReachable ==
  Booted /\ ~dropped /\ ~MapOverwritten /\ FreePagesMappable =>
    \A t \in DOMAIN mem \cup free :
      /\ Lookup(HH(t)).phys = t /\ "RW" \in Lookup(HH(t)).flags
      /\ Lookup(t).phys = t /\ "RW" \in Lookup(t).flags

\* The kernel survives the switch: its code and stack are where they were, unless
\* memory ran out or the memory map was overwritten.
FaultsHaveACause ==
  calls = 0 /\ phase = "faulted" => dropped \/ MapOverwritten

\* vmm::init ends, unless map_range is given a range that does not begin on a page and
\* counts its size past zero: the frame buffer, the kernel, or a descriptor that is an
\* entry of a page table, for a table has replaced the memory map.  The model ends early
\* when a table is overwritten.
Aligned == info.frameBufferBase % PAGE_SIZE = 0 /\ info.kernelBase % PAGE_SIZE = 0
BootEnds ==
  <>(\/ phase \in {"ready", "failed", "faulted", "overwritten"}
     \/ phase = "runaway" /\ (~Aligned \/ MapOverwritten))

\* A cached translation is one that is in force, except where a mapping replaced
\* another: map_page and map_range never invalidate.  After unmap_page and
\* unmap_range no page they removed is cached.
TlbAgrees ==
  \A t \in tlb : \A p \in TlbPages \ replaced :
    p >= t.base /\ p < t.base + t.size =>
      Lookup(p).phys = t.phys + (p - t.base) /\ Lookup(p).size = t.size

\* get_phys finds what the processor finds, with bit 63 set where execution is
\* forbidden, and 0 exactly where nothing is mapped (or physical page 0).
GetPhysAgrees ==
  last.call.op = "get_phys" /\ phase = "ready" =>
    LET t == Lookup(last.call.virt) IN
    last.res = t.phys + IF "NX" \in t.flags THEN NX_BIT ELSE 0

\* When unmap_range returns no page of its range is mapped, unless the range
\* began inside a huge page.
UnmapComplete ==
  LET c == last.call IN
  phase = "ready" /\ call = Idle /\ c.op = "unmap_range" /\ ~last.inside =>
    \A p \in Pages : p >= c.virt /\ p < c.end => Lookup(p) = NoPage

\* A map_range or unmap_range comes to an end, by itself or by a fault, but for two kinds:
\* a range to map that does not begin on a page, whose size is counted past zero, and
\* a range to unmap that reaches into the last PML4 entry, past which the loop begins
\* again at address 0.
Unending(c) ==
  \/ c.op = "map_range" /\ c.virt % PAGE_SIZE # 0
  \/ c.op = "unmap_range" /\ c.end > WORD - PML4_SPAN
RangesEnd ==
  call # Idle /\ phase = "ready" ~>
    \/ call = Idle
    \/ phase \in {"faulted", "misdirected", "overwritten"}
    \/ phase = "runaway" /\ Unending(last.call)

\* The page tables implement the address space.
Space == [p \in Pages |-> IF g_pml4_p = nullptr THEN NoPage ELSE Lookup(p)]

Promised == INSTANCE AddressSpace WITH
  space   <- Space,
  request <- call,
  able    <- free # {},
  alive   <- phase \notin {"faulted", "misdirected"}

ImplementsAddressSpace == Promised!Spec
==============================================================================
