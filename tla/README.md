# AmaOS in TLA+

A model of AmaOS, its UEFI loader (`src/LoaderPkg`) and its x86-64 kernel
(`src/Kernel`), checked with TLC on small instances and, in part, proved with
TLAPS for every value of the constants. Paths below are relative to `src/`;
`Loader.c:77` and the like name lines of it.

## 1. The system

The loader picks a display mode, reads `kernel.elf`, loads and relocates it,
makes a bitmap of the pages in use, leaves boot services and calls the kernel
with a `LOADER_BOOT_INFO`. The kernel sets up its glyphs, its panic screen and
the processor tables, takes over the page bitmap, builds its own page tables,
moves to them, and stops. A disk driver exists; its call is commented out
(`KernelMain.cpp:83`).

Everything runs on one processor without threads. What makes the code hard is
what runs next to it or stays behind from before: the firmware's own allocations
during the loader, interrupts during the boot, the TLB, the disk adapter that
reads memory by itself, memory that holds what the previous owner left, and
calls that fail half-way.

| component | state | operations | talks to | hard behaviour | correct when |
|---|---|---|---|---|---|
| loader, display (`GraphicsUtility.c`) | none | query, set, describe the mode | firmware | an EDID of several blocks, a mode whose pixels are not looked at | the mode is the preferred one and described as it is |
| loader, file (`FileUtility.c`) | handles and pool of one read | `ReadFileToBuffer` | firmware | nine calls that may each fail | nothing is left open |
| loader, ELF (`Loader.c:32-205`) | the kernel's pages | `LoadKernelElf` | firmware memory | sums against offsets, stale memory read as a table | kernel in memory is the kernel linked |
| loader, hand-off (`Loader.c:207-520`) | memory map, key, bitmap | `GetMemoryMap`, `CreatePageBitmap`, `UefiMain` | firmware events | maps that age between two calls | what the kernel is told is true |
| page allocator (`PhysicalPageAllocator.cpp`) | bitmap, cached count | `init`, `alloc`, `free`, `free_page_count` | bitmap from the loader; `vmm`, `ahci` | legal calls in any order, callers that give back what is not theirs | no page lost or owned twice, count true |
| address space (`VirtualMemoryManager.cpp`) | page tables, root, higher-half switch | `init`, `map_*`, `unmap_*`, `get_phys` | `ppa`, memory map, CR3, TLB | tables allocated from the memory being described, huge pages, no memory half-way | tables form a tree and translate as asked |
| kernel entry (`KernelMain.cpp`) | boot information | `k_main`, `init` | all below | order of initialisation | faults find a panic screen |
| processor tables (`Gdt`, `Idt`, `Tss`, `Cpu.cpp`) | GDT, IDT, TSS, PIC, IF | `init_bsp`, `init_ap` | the processor | interrupts between two tables | every interrupt has somewhere to go |
| exceptions and panic (`Exception.cpp`, `PanicFrameWriter.cpp`) | boot information | handlers, `panic` | frame buffer, glyphs | a fault in the panic | the message appears and the machine stops |
| glyphs (`StandardCharactorBitmapProvider.cpp`) | glyph table | `init`, `get_char_bitmap` | panic, frame writer | characters without glyph | as above |
| disk (`Ahci.cpp`) | command list, table, registers | `init`, `read_`/`write_disk_sectors` | `ppa`, adapter | adapter running beside the driver, timeouts | a success is a success |
| frame writer (`DirectFrameWriter.cpp`) | frame buffer description | `init`, `clear`, `draw_*`, `switchHigherHalf` | frame buffer, glyphs, loader's description | an address that changes when the tables do, clipping, buffers of fixed size | the picture is the one the calls describe |
| debug log (`Log.cpp`) | none | `print` | port 0xE9 | as above | numbers read as what they are |
| PCI scan, memory operations, error handling | see section 8 | | | | |

`PROJECT.json` lists these with the files of each, and under `hazards` the
forty places where something can go wrong that a test would hardly
reach, with the property that watches each.

## 2. Modules

| module | models | composed with |
|---|---|---|
| `PageAllocator` | what the page allocator promises: a set of available pages | abstract |
| `PhysicalPageAllocator` | `ppa`, every function | implements `PageAllocator` |
| `PhysicalPageAllocator_proofs` | theorems about it | |
| `PageTables` | geometry of x86-64 tables, the processor's walk | used by the next two |
| `AddressSpace` | what `vmm` promises: page to translation, one call at a time | abstract |
| `VirtualMemoryManager` | `vmm`, every function, with the TLB | implements `AddressSpace` |
| `VirtualMemoryManager_proofs` | theorems about it | |
| `KernelLoader` | `ReadFileToBuffer`, `LoadKernelElf` | |
| `KernelLoader_proofs` | theorems about it | |
| `LoaderHandoff` | `GetMemoryMap`, `CreatePageBitmap`, end of `UefiMain`, firmware events | |
| `BootMemory` | the kernel allocating and clearing pages in the memory the loader left | composes `LoaderHandoff` and `PhysicalPageAllocator` |
| `BootMemory_proofs` | theorems about `LoaderHandoff` and, on them and the allocator's, about it | |
| `KernelBoot` | `k_main`, `init`, `init_bsp`, interrupts, handlers, `panic` | |
| `KernelBoot_proofs` | theorems about it | |
| `CpuTables` | `init_ap` on several processors | |
| `CpuTables_proofs` | theorem about it | |
| `Text` | `get_vsf` and its number conversions, `debug::print` | pure operators |
| `Canvas` | what the frame writer promises: a picture and calls that paint it | abstract |
| `FrameWriter` | `GraphicsUtility.c`, the description of the mode, all of `dfw` | uses `Text`, implements `Canvas` |
| `FrameWriter_proofs` | theorems about it | |
| `AhciDriver` | `ahci`, with the adapter's port | |
| `AhciDriver_proofs` | theorems about it | |
| `MC...` | instances of the above for TLC | |

Names of the code are kept where TLA+ allows it. An action stands for a function
or for one iteration of its loop; where the code can be overtaken between two
statements (registers, firmware calls, table loads) each statement is an action.
Definitions called "Faulty" are the code with a plausible bug. No
specification uses them; each shows that some property would notice that bug
(`mutants` in `PROJECT.json`).

### PhysicalPageAllocator
A byte of the bitmap is the set of its set bits, so `set_used`, `set_free` and
`is_free` are the code's index arithmetic. `g_bitmap`, `g_bitmap_bytes`,
`g_max_pages`, `g_free_pages` are the code's statics; `g_free_pages` is cut to its
width. `held` and `foreign` record which pages callers own and which were given
back by someone who did not own them: `free` cannot tell.

### VirtualMemoryManager
`mem` holds the tables, each a function from index to entry. `init` is split as
its loops are (a descriptor, a range, a page). `ensure_table` and
`alloc_phys_page_zeroed` take the lowest free page; after the switch a table is
reached through the higher half and cleared through the identity map, and
missing there is a page fault. Where a call has mapped another page at one of those
addresses, the code reads, writes or clears that page, or still the table if the processor
caches the former translation: phase `misdirected`, the model ends. `MapOverwritten`: the
memory map lies in a page that became a table; what is then read as descriptors are its
entries (`Garbage`), whose starts carry `P` and `RW` in their low bits. `runaway`:
`map_range` on a start that is no multiple of a page (a call's, the frame buffer's, the
kernel's or such an entry's), whose remaining size steps over zero; or `unmap_range` in the
topmost slot of the PML4, past whose end it goes on from address 0. `ensure_table` takes a huge page for
a table; the write that follows goes into a data page (`stray`). If that page is
a page table of another address, phase `overwritten`, the model ends: what such
tables translate is out of its scope.
`tlb_fill` caches any translation at
any time; `invlpg` and a load of CR3 remove them.

`AddressSpace` has no tables. Each of its actions is one thing a call may do, with the
effect and the reason; none lets a call pass over a page it was asked to map but `MapMissing`
and `MapPage`, and these only with no page left for a table (`able`) or under a huge page.
`alive` is false once the kernel has lost its tables ("faulted", "misdirected"); `Die` is
the step that does it.

### KernelLoader
Memory and file are sequences of words. A word is a number, a dynamic entry or
a relocation. `Read` may give fewer words than the file has, which
`ReadFileToBuffer` does not notice (`FileUtility.c:61`): the rest is what the buffer
held. What firmware memory holds when it is allocated is an input
(`Leftovers`): `LoadKernelElf` reads the dynamic table from memory that only a
PT_LOAD segment fills. `WORD32` gives 32-bit relocations their truncation.
Pages are counted header by header (`count_pages`) and used by distance
(`copy_segment`), as in the code. `SegmentsFit`, `DynamicFits` and `RelocationsFit` say what
a linker sees to and the loader relies on without looking: segments that do not
overlap, a dynamic table with an end, one relocation per word, none of them in the tables
or symbols it still reads. Files that break a rule the ELF format leaves open (pages
between segments, a dynamic table in no segment, no table at all) are in the model.

### LoaderHandoff
Memory is a function from pages to UEFI types; the size of a memory map is its
number of runs, so allocating the buffer for it may lengthen it. `AllocatePool`
either takes pages or finds room in a pool page, and the buffer begins
`poolHeader` bytes into it. Firmware events allocate and free pages between any
two calls until boot services end. `find_tables` stands for the search for the ACPI
table and for the loaded image, without which the loader halts. Other
buffers that come to share the memory map's pool page are not modelled.

### BootMemory
Extends `LoaderHandoff`; once the kernel is entered, `PhysicalPageAllocator` runs
on the bytes of the bitmap where they lie, and `zero_page` clears the page just
allocated (`alloc_phys_page_zeroed`), the bitmap or the memory map if that is what
it holds. A bitmap that begins some bytes into a page may reach into one page
more than its length has; `SetUsedRange` marks by length, the last page is handed
out and cleared, and with it every page that part of the bitmap tells of turns free.
Both properties state this as their exception, and that there is no other.

### KernelBoot
One action per call of `init` and `init_bsp`. `Delivered` is the processor: which
gate an exception takes, or the double fault or reset it becomes. The firmware is
assumed to have no TSS that outlives `lgdt`. A non-maskable interrupt comes at
most once since no handler returns. `panic::clear` ignores its colour and the
labels of the rows are drawn at pixel `y` instead of row `y`: layout, which the
model leaves out.

### CpuTables
`init_ap` has no caller yet. The model runs it as it is meant: on each
application processor once, at any time after `init_bsp`. The table of descriptors
and its TSS are shared; GDTR, IDTR and the interrupt flag are each processor's own.
A processor that has not loaded the kernel's tables leaves interrupts to whatever
its start-up code installed.

### FrameWriter, Canvas, Text
`FrameWriter` begins with the hardware: modes that may not be queried or set,
an EDID with timings at offsets. The loader chooses a mode and describes it; the
kernel draws at the address it was given, and after `vmm::init` at the higher
half. The frame buffer is a function from offsets to bytes. `Canvas` has no
bytes: a picture, and calls that paint boxes, glyphs and text in it. `Picture`, the
refinement mapping, is what a display of the mode's format shows of the bytes.
Scale factors are rationals, floats in the code. Text is a sequence of
characters; `Text` has the conversions with their buffers, and `IsNumeral`, the
definition they are compared with.

### AhciDriver
The driver is a program counter; the adapter's actions (`dev_*`, external) run
between any two of its register accesses. Memory keeps, per page, which request's
command it holds, so that header and table of different requests can meet.
`pci::find_ahci_hba_base` never enters its loop (`Pci.cpp:94` compares with
`(unsigned char)0x100`); its answer is an input.

## 3. Runs

| run | states | question and answer |
|---|---|---|
| `ppa` | 5 740 | Does the count follow the bitmap, is any page lost or owned twice, does the bitmap implement a set of pages? It holds for any calls, also wrong ones. |
| `vmm_boot` | 1 992 | What does `vmm::init` leave on eleven machines? Tables that translate as the ranges ask, unless memory ran out, the map was overwritten, or the map and the bitmap disagree; it ends unless `map_range` is given a start that is not page-aligned (the frame buffer, the kernel, or an entry of a table where the map was), and writes into its tables only until the map is overwritten. |
| `vmm_calls` | 7 581 | Do the tables stay a tree, and do they, the TLB and `get_phys` agree after map and unmap calls? They do, with the exceptions the properties name: a replaced mapping stays cached, `get_phys` keeps bit 63, a range that begins inside a huge page is not removed as asked. A range ends, unless it is one to map that does not begin on a page or one to unmap in the last PML4 entry; a page is mapped as asked unless no page is left for a table or a huge page is there. |
| `kernel_loader` | 4 950 | Is the kernel in memory the one that was linked, are writes inside the allocation, is everything given back? Yes, if the file was read whole, segments leave no whole page between them, the dynamic table is in a PT_LOAD segment, and (for the entry point) the kernel is linked at 0. |
| `loader` | 46 276 | What is the kernel handed, and what makes the loader halt? The memory map is current; the bitmap is older, and exactly which pages it wrongly calls free is stated; it halts for want of memory or a table, or because of the firmware's own allocations. |
| `boot_memory` | 27 227 | Does the page allocator survive in the memory the loader left, and which pages in use does the kernel clear? It does, and it clears none but those that came into use after the bitmap was made, unless the bitmap crosses a page more than it was marked for. |
| `boot` | 13 532 | What brings the kernel into a panic or a reset, and does a panic end? Each has the causes its property lists; a panic ends where page 0 is mapped. |
| `cpu_tables` | 14 510 | What resets the machine when processors run `init_ap`? A non-maskable interrupt between `lgdt` and `lidt`, or two processors between writing the table and `ltr` at once; processors that follow one another never. |
| `frame_writer` | 10 203 | Is the mode the preferred one, is the picture the one the calls describe, are numbers printed as they are, and is nothing written outside the frame buffer? Yes, but for modes whose pixels are not four bytes and EDID blocks after the first. |
| `ahci` | 339 342 | What do a success and a failure of a request mean, do its two counts agree with it, and when does a call not return? A success is one; the counts agree up to what one table entry holds; after a task file error the next call never returns. |
| `deliberate_write` | violated | finding 1 |
| `scripted_kernel` | violated | finding 2 |

Where a property names an exception ("unless ..."), the exception is something
the code does and the run reaches. Each was added because TLC refuted the
property without it, and the properties of `KernelBoot`, `KernelLoader` and `CpuTables`
were checked to need each of their disjuncts.

### Bounds
- `ppa`: two bytes of bitmap with free pages on both sides of the byte boundary, page 0
  clear and not, a full one and the three refused boot infos; addresses aligned,
  unaligned, beyond the end, 0. All call sequences: the state space is finite
  without a bound on calls.
- `vmm`: six entries per table and pages of two bytes keep the ratios that
  matter: a huge page is one full last-level table, a higher half and a self map
  exist, a device hole lies below "4 GiB". Five amounts of memory make each
  allocation of `init` the one that fails. `MaxCalls` = 2 calls after `init`, over
  single pages, tables, huge pages and their ends, one huge page among them over
  pages that are tables, over the addresses tables are reached and cleared at, at the
  last addresses, and from the middle of a page: the interactions are of one mapping with
  the next. `MCGarbage` has the starts and lengths an entry can give a descriptor: 0, and
  a page's address with flags.
- `kernel_loader`: pages of four words, fifteen files: every relocation type with
  and without symbol, link addresses 0, aligned and not, a page between segments,
  no dynamic table, headers refused; memory full of zeroes, of a relocation, or with the
  dynamic table of an earlier kernel; reads cut off after 6 and after 12 words (`Cuts`).
- `loader`: four machines of up to eight pages, one with no conventional memory left, `MaxEvents` = 2 firmware
  events: one to allocate and one to free, at any two places. `PER_BYTE` = 1
  makes the bitmap large enough to leave its page.
- `boot_memory`: three machines, `PER_BYTE` = 8 as in the code: a bitmap of one byte that
  shares a pool page or has its own, and one of two bytes that begins in the last
  byte of a page. `MaxEvents` = 2; the kernel allocates until nothing is left.
- `cpu_tables`: three processors, interchangeable (symmetry): one in front, one
  behind, one to disturb both. No property is temporal over fairness, so symmetry is sound.
- `frame_writer`: nine displays, one for each way to a mode and each pixel format;
  pictures of 3 by 2 pixels on a pitch of 4, glyphs of 2 by 2 dots, so that a box or a
  text may cross every edge; numbers a byte wide, coordinates modulo 16, buffers
  with the room the code's have in proportion (`U32`, `U64`, `TMP`, `BUFFER`, `DEC_BUF`,
  `HEX_DIGITS`). `MaxCalls` = 2: one call over what another left.
- `boot`: all 256 machines (two page supplies, two interrupt states, every set of places
  the kernel's tables may map, two firmwares); `ROWS` = 2 of the rows of the panic
  message, a first and a last.
- `ahci`: `MaxCalls` = 3 requests and `MaxInits` = 2: one request to fail, one to
  be disturbed, one after; counts 0, the largest that fits, one more, and one more than
  the 16 bits of the sector count hold.

### Fairness
- `VirtualMemoryManager`: weak fairness of `init` and of the steps of a range.
  Straight-line code of the only processor; calls need never come.
- `AhciDriver`: weak fairness of `init` and of a request (the driver runs on),
  strong fairness of `wait_fails` (its loop has a limit, so it cannot poll
  for ever), weak fairness of the device (it gets on with what it began; it may
  still answer with an error).
- `KernelBoot`: weak fairness of the processor's next instruction. Interrupts
  have none.
- The other modules state no liveness.

Deadlock is checked except in `ahci` (no requests left), `boot` (`hlt` with
interrupts off, a reset machine) and `cpu_tables` (the same): there the system stops.

## 4. Proofs

Eight modules prove what the runs show on small instances for every value of the
constants: any number of processors, requests, firmware events and calls, any
geometry of tables, any memory. Each proof has the same shape: an inductive
invariant `IInv` that TLC checked first, `Init => IInv`, one step per action, and the
property from `IInv`.

| module | theorems | what makes the property inductive |
|---|---|---|
| `PhysicalPageAllocator_proofs` | `TypeCorrect`, `CountCorrect`, `Conservation`, `Refinement` | `Started`: an adopted bitmap was usable, before it nobody holds a page |
| `KernelLoader_proofs` | `NothingHeld`, `InsidePages`, `KernelLoaded` | `HeldByCall`: what is held before each of the nine firmware calls; `CountInv`: the pages the segments so far touch are no more than were counted; `LoadInv`: which segments are copied, what has been read of the dynamic table, which relocations are applied |
| `BootMemory_proofs` | `MapIsCurrent`, `ClearPagesKnown`, `MarksBounded`, `HaltCaused` (loader); `BitmapKept`, `InUseKept` (composition) | `KeyInv`: an equal key is an equal map; `SizeInv`: what the halting causes leave behind; `DriftInv`: free memory of the first map is in use now only for a known reason; `BitmapInv`. For the composition these, the allocator's, and `Sound \/ Lost`: the bitmap is what the allocator believes, or one of its own pages was given out |
| `CpuTables_proofs` | `ResetCaused` | `AloneInv`: while no two processors were between `build_table` and `ltr`, the one that is finds the descriptor it wrote |
| `KernelBoot_proofs` | `ScreenReady`, `PanicCaused`, `ResetCaused` | `BootInv`: which tables are loaded at each step; `PanicInv`: under which a panic can begin |
| `AhciDriver_proofs` | `SuccessTrue`, `TornCaused`, `QuietAfter`, `FitsUpToOneEntry`, `StoppedWhenProgrammed` | `OwnerInv`, `WaitInv`: whose command is in the slot; `QuietInv`: what the adapter may still find there |
| `VirtualMemoryManager_proofs` | `TreeKept`, `GetPhysTrue`, `NothingLeftMapped`, `TlbCurrent`, `AddressSpaceImplemented`, `BootStraight`, `TablesFound`, `SwitchSurvived`, `OnlyTablesWritten`, `MapComplete` | `TreeInv`: a level for every table, each link one level down; `UnmapInv`: what the loop has passed is not mapped and it stands in no huge page; `StraightInv`: the range in progress is straight, and so is every address, observed or not; `BootInv`: each address of a descriptor is mapped, in the range in progress, or in a descriptor still to be read; `OrderInv`: an address is mapped as the latest range says that covers it, and huge pages are where a range asked for them |
| `FrameWriter_proofs` | `PreferredMode`, `NothingAstray`, `TextAsAsked`, `CanvasImplemented` | `ModeInv`: the mode is the one found until it is chosen, then the first that fits the EDID; `FrameInv`: what the kernel was told of the mode, at which address it writes at which step, and that all is black before `init`; `SaidInv`: what was formatted last, and what of it |

What the theorems about the page tables claim of calls ends where the code begins to write
into pages it does not mean: `TreeKept` and the others hold up to a call that maps a page
inside a huge page that holds a table (`overwritten`), or that reaches a table, or clears a
new one, at an address where an earlier call mapped another page (`misdirected`).

The argument for the page tables is the longest. Its lemmas are about what
`ensure_table`, `store` and `Translate` do to a tree: a link to a new table changes no
translation (`LinkKeepsTranslation`), an entry changes those of its own block only
(`LeafFrame`, `DirectoryFrame`), because two addresses that lead to the same table
have the same indexes on the way (`OneWay`), and addresses with the same indexes lie
in the same block (`SameIndexes`: canonical addresses lose their top bits in
`PML4_IDX` without colliding). `EveryStep` then sorts the steps of the module: they
change nothing in the tables, map one block, or clear one. For the refinement it is
not enough that other blocks keep their translation: `Does` says what a mapping leaves
in its own block, and for which of its two reasons it left nothing (`Reasons`).

That `init` leaves everything where the kernel will look for it follows from two
invariants that do not ask which range covers which: wherever a translation exists it is straight (`StraightInv`), and while memory
lasts no address of the map is forgotten between the descriptor, the range and the
tables (`BootInv`, with `GoingOn` for the step of the loop). So a page the allocator
may return, which `FreePagesMappable` puts into a mappable descriptor, is found at
both its addresses, however the ranges overlap and whichever of them were mapped
with huge pages.

Which range a page was mapped by is the business of `OrderInv`. `Wanted` numbers the
ranges of `init`, and `Place` says which number is next, whatever is left of the program
(`NextPlace`). An address lies behind if a range with a smaller number covers it and the
range in progress no longer does (`Behind`); the latest such range decides
(`LatestAt`), since a step of the loop takes the addresses of one block from what is to
come to what lies behind (`OneBlock`). This needs that no step maps into a huge page,
and there the geometry comes in: a huge page lies where a range with `MAP_HUGE` was,
and no later range covers an address of that one (`HugeAlone`): in the same half
two ranges that cover an address map the same memory (`SameMemory`), which
`ApartAssumption` excludes. A range that does not begin on a page never comes to an end
(`CrookedOn`), so nothing is claimed of what it maps.

The kernel in memory follows from what each loop of `LoadKernelElf` has done so far.
After the segments every loaded word is the linked one (`Copied`, `CopiedAll`), so the table is read
as it was linked and ends where it should (`ScanEntry`); when `Relas` of the entries are
applied, every word is either its final one or still as linked (`Patched`), and the next
relocation and its symbol are words no relocation is for (`FindsRelocation`). That the
allocation reaches as far as the segments is a count: the pages from the lowest to the
highest are a subset of those of the segments (`EnoughPages`), unless there is a gap.

The frame writer implements `Canvas` because no two pixels of the frame share a byte
(`SameIndex`): what is stored for some pixels paints these and no others (`Painted`), in the
display's order of colours. The rest is about which pixels. A box passes the test for the
last byte of each pixel whenever it is in the frame (`BoxPaints`). The writer asks for each
pixel of a glyph which dot it belongs to, `Canvas` makes a block of each dot, and rounding
comes out alike (`Dots`, `LetterGlyph`). The pen is moved character by character and
wraps; `Place` counts characters and lines (`WriteAs`, with `GlyphWraps`).

For the text, `Formatted` follows `get_vsf` through the format: what is in the buffer is the
beginning of what was expanded so far, and what was cut off once does not come back
(`CutTwice`). A numeral is the remainders of successive divisions; it is right as soon as a
quotient is 0 (`NumeralIs`), and the buffers hold that many digits. What loops and recursive
functions leave is proved by `Upto`, which comes from the least counterexample
(`MinIsLeast`); `Characters` exists because the provers do not know that a literal is a string.

### Assumptions
- `InfosAssumption`, `AddressesAssumption`, `WidthAssumption` (allocator): the bitmap is
  within the bound and a count of pages fits in 64 bits.
- `MachinesAssumption`, `BootAssumption`: memory is a finite row of pages; the pool pages and
  the images the firmware placed are marked as such in its map.
- `ApsAssumption`: finitely many processors.
- `PagesAssumption`, `WidthAssumption` (disk): page 0 is not handed out; the field of the byte count
  holds whole sectors, and no more than the field of the sector count. Both
  hold for the 22 and 16 bits of the code.
- `KernelAssumption`: the kernel files the loader accepts are as a linker makes them (section
  2), the firmware hands out whole pages below the end of memory, and never page 0.
- `DisplayAssumption`: a scan line is no shorter than the picture is wide, as UEFI says, and the
  display starts in one of its modes; `Sides` has the widths and heights of them all.
- `NumberAssumption`: the scratch buffer of a number holds its decimal digits, the sign and the
  end: 12 of the 16 bytes in the code.
- `CallAssumption`: callers pass an argument for every directive, and points, colours and numbers of
  the widths their types have; what the log prints has no more digits than 64 bits need
  (20 of `buf[22]`, 16 in hexadecimal). Nothing else would be defined in C++.
- `GeometryAssumption`, `AddressAssumption`: at least four entries per table, an even number;
  ranges, calls and observed pages are canonical addresses, since the processor refuses others,
  outside the self map; a range to unmap begins and ends on a page, as the code rounds it, and
  ends before the last address: at the very end its 64-bit `end` is 0 and nothing is unmapped.
  Memory, devices and images lie in the lower half, as physical addresses of at
  most 47 bits do, and so does what the entries of a table say as descriptors, of which only
  the offset in the page matters. Descriptors begin on a page, as UEFI's do, and the code and stack
  the kernel runs on are in the memory map.
- `ApartAssumption`: UEFI's descriptors do not overlap, the frame buffer is device memory and
  the kernel lies in memory of type LoaderData, so neither overlaps the other or
  memory that is mapped with huge pages. Device registers may lie anywhere.

### What the attempts showed
- `TransferFits` was false: beyond 65 536 sectors the two counts may agree with
  each other on a number that is not the request's. The property now states
  what agrees with what; `MCAhciDriver` has a count that large.
- `MarksLandInBitmap` lacked a case: with no conventional memory the bitmap is zero
  bytes long, and `SetUsedRange` still marks page 0 in it (`Loader.c:352`).
- `TablesFormTree` was false when a page is mapped inside a huge page that covers page
  tables: phase `overwritten` and a call in `MCCalls` came of it.
- `replaced` missed mappings at addresses that are no multiple of the page size.
- `AddressSpace` was wrong for a `map_page` at such an address, for a huge page of which
  some pages are not observed, and for the flag `PS` in a huge page, which is implied.
- `FaultsHaveACause` spoke of later calls too: a call that unmaps the identity address
  of a page makes the next table put there fault, with memory left and the map intact.
  It now speaks of boot, without the condition on the bitmap it had.
- `WritesInside` lacked a case that the run did not reach: what an earlier kernel left where a
  dynamic table in no segment is sought. `MCKernelLoader` has such memory now.
- `BootEnds` named two unaligned starts only: the entries of a table that has replaced the
  memory map are a third, which descriptors on page boundaries hid.
- `AddressSpace` let a call of `map_page` or `unmap_page` end without effect, which was only
  meant for steps that change no translation. It now tells a new call, a look-up and the end of the
  kernel apart.
- `BootWritesOnlyTables` was false once the memory map is overwritten: what is then read as a
  descriptor may overlap memory mapped before. `vmm_boot` has a machine for it now.
- `apply_rela` wrote back the word of a relocation type the switch does not name; the
  code writes nothing, not even outside the allocation.

### Only model-checked
- All liveness (`BootEnds`, `RangesEnd`, `PanicEnds`, `CallsReturn`), which this prover does not do.

## 5. Findings

1. `KernelMain.cpp:37` comments the write to 0x100000000 with `// PF`. With memory
   above 4 GiB `vmm::init` maps that address read-write (run `deliberate_write`).
   It faults on the 1 GiB machine `run.sh` starts.
2. `Kernel/linker.ld:1` calls its layout the one for PIE and relocation, but
   `.dynamic` is in no PT_LOAD segment; the loader reads the table from memory it
   did not fill, and with zeroes there applies no relocation (run
   `scripted_kernel`).

Worth knowing, although nothing in the repository says otherwise: `IS_ERR_MASK`
(`Ahci.cpp:26`) contains the bit of a normal completion, so a completed command
may be reported failed; after a task file error the next request never
returns; the panic title's `*` has no glyph; a kernel not linked at 0 is entered
at the wrong address; `free` accepts pages nobody allocated; a mode of three-byte
pixels is described as one of four, and drawing writes past its frame buffer; EDID
extension blocks are read as timings; two processors in `init_ap` at once reset
the machine.

## 6. Reading order

`PageAllocator`, `PhysicalPageAllocator`, its proofs; `PageTables`,
`VirtualMemoryManager`, `AddressSpace`; `KernelLoader`, `LoaderHandoff`,
`BootMemory`; `KernelBoot`, `CpuTables`; `Canvas`, `Text`, `FrameWriter`; `AhciDriver`.
The proofs of `CpuTables` and `KernelBoot` are the shortest; those of
`VirtualMemoryManager` read best backwards, from `IInv` at their end.

## 7. Plan

The models and the proofs planned for them are written: every invariant, action property
and refinement that a run checks is a theorem. Left to TLC is liveness.

The modules are parameterised by CONSTANTS and declare no RECURSIVE operator, so
all of them can be proved about.

## 8. Not modelled

- The PCI scan: as compiled it does nothing. `Pci.cpp:94` compares the bus with
  `(unsigned char)0x100`, which is 0, so the loop is never entered and no
  configuration register is read. `AhciDriver` takes any answer, a null pointer among them.
- Byte loops (`MemoryOperator.cpp`): `zero_mem` is part of the actions that clear
  memory, `set_mem` has no caller. Error handling (`ErrorHandling.cpp`): no caller.
  `dump_port_regs` only reads registers and logs them.
- Write protection: a page mapped without `RW` is written like any other. `init` maps nothing
  without it; a call may, and where it does so over a table the next write to that table
  would fault.
- Disk requests before a successful `ahci::init`, which the code does not refuse.
- Glyph bitmaps (`StandardCharactorBitmapProvider.cpp`, most of its lines) are data; a
  glyph is a set of dots. Which pixels a panic writes, and message texts; among these
  `regs` (`PanicFrameWriter.cpp:94`), a table of pointers that needs the relocations finding 2
  is about: without them a panic reads its register names elsewhere.
- Caches (PAT, PCD, PWT stay flags); the direction and the sector address of a disk
  request; rounding of floats; a second `dfw::init`, which only returns false.
- Firmware that answers a size query of zero bytes with success.
- Build and run scripts, except where they decide a configuration (section 5).
