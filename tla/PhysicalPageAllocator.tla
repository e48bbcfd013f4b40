------------------------ MODULE PhysicalPageAllocator ------------------------
(***************************************************************************)
(* Kernel/src/kernel/memory/PhysicalPageAllocator.cpp, namespace ppa.      *)
(*                                                                         *)
(* The allocator works in place on the bitmap the loader built             *)
(* (LOADER_BOOT_INFO.pageBitmapBase/pageBitmapSize): one bit per page, set *)
(* when the page is used.  A byte of the bitmap is modelled by the set of  *)
(* its bits that are set.  g_free_pages caches the number of clear bits.   *)
(*                                                                         *)
(* held and foreign are history variables, written and never read by the   *)
(* actions: the pages callers own, and the pages somebody gave back        *)
(* without owning them (free() cannot tell the difference).                *)
(***************************************************************************)
EXTENDS Integers, FiniteSets

CONSTANTS
  Infos,       \* the boot information the kernel may be started with
  Addresses,   \* the addresses callers pass to free
  MaxPages,    \* bound on the pages a bitmap describes
  U64          \* 2^64, the range of g_free_pages

PAGE_SIZE == 4096
KERNEL_SUCCESS == 1
KERNEL_FAILURE == 0
nullptr == 0

ASSUME InfosAssumption ==
  \A i \in Infos :
    /\ i.present \in BOOLEAN
    /\ i.pageBitmapBase \in Nat
    /\ i.pageBitmapSize \in Nat
    /\ i.pageBitmapSize * 8 <= MaxPages
    /\ i.bits \in [0..(i.pageBitmapSize - 1) -> SUBSET (0..7)]
ASSUME AddressesAssumption == Addresses \subseteq Nat
ASSUME WidthAssumption == MaxPages \in Nat /\ U64 \in Nat /\ MaxPages < U64

VARIABLES
  info,            \* the LOADER_BOOT_INFO k_main was given
  bitmap,          \* the bytes at info.pageBitmapBase
  g_bitmap,        \* the pointer: nullptr until init has succeeded
  g_bitmap_bytes,
  g_max_pages,
  g_free_pages,
  last,            \* the last call: operation, argument and result
  held,            \* history: pages handed out and not given back
  foreign          \* history: pages given back by a caller that did not own them

state == <<info, bitmap, g_bitmap, g_bitmap_bytes, g_max_pages, g_free_pages>>
vars  == <<info, bitmap, g_bitmap, g_bitmap_bytes, g_max_pages, g_free_pages,
           last, held, foreign>>

Answer(op, arg, res) == last' = [op |-> op, arg |-> arg, res |-> res]

------------------------------------------------------------------------------
(* The bit operations on the loader's bitmap.                              *)

set_used(bm, i) == [bm EXCEPT ![i \div 8] = @ \cup {i % 8}]
set_free(bm, i) == [bm EXCEPT ![i \div 8] = @ \ {i % 8}]
is_free(bm, i)  == i % 8 \notin bm[i \div 8]

\* The clear bits of a bitmap of n pages, and of the adopted bitmap.
ClearBits(bm, n) == {i \in 0..(n - 1) : is_free(bm, i)}
FreePages == ClearBits(bitmap, g_max_pages)

------------------------------------------------------------------------------

Init ==
  /\ info \in Infos
  /\ bitmap = info.bits
  /\ g_bitmap = nullptr
  /\ g_bitmap_bytes = 0
  /\ g_max_pages = 0
  /\ g_free_pages = 0
  /\ last = [op |-> "boot", arg |-> 0, res |-> 0]
  /\ held = {}
  /\ foreign = {}

Usable(i) == i.present /\ i.pageBitmapBase # 0 /\ i.pageBitmapSize # 0

\* What init leaves behind, given the bitmap and the number of pages.
adopt(bm, pages) ==
  /\ Usable(info)
  /\ g_bitmap' = info.pageBitmapBase
  /\ g_bitmap_bytes' = info.pageBitmapSize
  /\ g_max_pages' = pages
  /\ bitmap' = bm
  /\ g_free_pages' = Cardinality(ClearBits(bm, pages))
  /\ Answer("init", 0, KERNEL_SUCCESS)
  /\ UNCHANGED <<info, held, foreign>>

\* Faulty variants: page 0 stays as it was; bytes are taken for pages.
init_leaves_page_0 == adopt(bitmap, info.pageBitmapSize * 8)
init_counts_bytes  == adopt(set_used(bitmap, 0), info.pageBitmapSize)

init == adopt(set_used(bitmap, 0), info.pageBitmapSize * 8)

init_fails ==
  /\ ~Usable(info)
  /\ Answer("init", 0, KERNEL_FAILURE)
  /\ UNCHANGED <<state, held, foreign>>

\* Faulty variant: the page handed out stays clear in the bitmap.
alloc_forgets_mark ==
  \E i \in FreePages :
    /\ g_bitmap # nullptr
    /\ \A j \in FreePages : i <= j
    /\ g_free_pages' = (g_free_pages - 1) % U64
    /\ held' = held \cup {i}
    /\ Answer("alloc", 0, i * PAGE_SIZE)
    /\ UNCHANGED <<info, bitmap, g_bitmap, g_bitmap_bytes, g_max_pages, foreign>>

\* First fit: the loop stops at the lowest clear bit.
alloc ==
  \E i \in FreePages :
    /\ g_bitmap # nullptr
    /\ \A j \in FreePages : i <= j
    /\ bitmap' = set_used(bitmap, i)
    /\ g_free_pages' = (g_free_pages - 1) % U64
    /\ held' = held \cup {i}
    /\ Answer("alloc", 0, i * PAGE_SIZE)
    /\ UNCHANGED <<info, g_bitmap, g_bitmap_bytes, g_max_pages, foreign>>

alloc_fails ==
  /\ g_bitmap = nullptr \/ FreePages = {}
  /\ Answer("alloc", 0, nullptr)
  /\ UNCHANGED <<state, held, foreign>>

\* Faulty variant: free accepts a page that is free already.
accepts_free_page(addr) ==
  /\ addr # nullptr
  /\ addr % PAGE_SIZE = 0
  /\ addr \div PAGE_SIZE < g_max_pages

\* Neither of the two early returns of free is taken.
Accepted(addr) ==
  /\ addr # nullptr
  /\ addr % PAGE_SIZE = 0
  /\ addr \div PAGE_SIZE < g_max_pages
  /\ ~is_free(bitmap, addr \div PAGE_SIZE)

free(addr) ==
  LET i == addr \div PAGE_SIZE IN
  /\ Accepted(addr)
  /\ bitmap' = set_free(bitmap, i)
  /\ g_free_pages' = (g_free_pages + 1) % U64
  /\ held' = held \ {i}
  /\ foreign' = IF i \in held THEN foreign ELSE foreign \cup {i}
  /\ Answer("free", addr, KERNEL_SUCCESS)
  /\ UNCHANGED <<info, g_bitmap, g_bitmap_bytes, g_max_pages>>

free_fails(addr) ==
  /\ ~Accepted(addr)
  /\ Answer("free", addr, KERNEL_FAILURE)
  /\ UNCHANGED <<state, held, foreign>>

free_page_count ==
  /\ Answer("free_page_count", 0, g_free_pages)
  /\ UNCHANGED <<state, held, foreign>>

Next ==
  \/ init \/ init_fails
  \/ alloc \/ alloc_fails
  \/ \E addr \in Addresses : free(addr) \/ free_fails(addr)
  \/ free_page_count

Spec == Init /\ [][Next]_vars

------------------------------------------------------------------------------
(* Properties                                                              *)

Pages == 0..(MaxPages - 1)

\* The variables have the shapes the code gives them, and the cached limits are
\* those of the adopted bitmap.
TypeOK ==
  /\ info \in Infos
  /\ bitmap \in [0..(info.pageBitmapSize - 1) -> SUBSET (0..7)]
  /\ g_bitmap \in {nullptr, info.pageBitmapBase}
  /\ g_bitmap_bytes = IF g_bitmap = nullptr THEN 0 ELSE info.pageBitmapSize
  /\ g_max_pages = g_bitmap_bytes * 8
  /\ g_free_pages \in 0..(U64 - 1)
  /\ last \in [op : {"boot", "init", "alloc", "free", "free_page_count"},
               arg : Nat, res : Nat]
  /\ held \subseteq Pages
  /\ foreign \subseteq Pages

\* The cached counter always equals the number of clear bits, so neither the
\* decrement in alloc nor the increment in free ever wraps, and
\* free_page_count never lies, whatever addresses callers pass to free.
CountMatchesBitmap == g_free_pages = Cardinality(FreePages)

\* The pages the loader left free, page 0 excepted (init marks it used).
BootFree == ClearBits(info.bits, info.pageBitmapSize * 8) \ {0}

\* No page is lost, invented or owned twice: once the allocator is up, the
\* free pages and the pages callers hold are disjoint and together are exactly
\* the pages that were free at boot plus those returned by non-owners; page 0
\* is never among them, so nullptr is never a page.
PagesConserved ==
  g_bitmap # nullptr =>
    /\ FreePages \cap held = {}
    /\ FreePages \cup held = BootFree \cup foreign
    /\ 0 \notin FreePages \cup held

\* The bitmap allocator implements the abstract page allocator: its free pages
\* are the available ones, and every answer it gives is one that allows.
Abstract == INSTANCE PageAllocator WITH
  managed   <- 0..(g_max_pages - 1),
  available <- FreePages

ImplementsPageAllocator == Abstract!Spec
==============================================================================
