------------------------------ MODULE BootMemory ------------------------------
(***************************************************************************)
(* The loader's hand-off and the kernel's page allocator together: the     *)
(* allocator works in the very bytes CreatePageBitmap filled, and the      *)
(* pages it hands out are cleared by vmm::alloc_phys_page_zeroed, whatever *)
(* they hold: the bitmap or the memory map, too.                           *)
(*                                                                         *)
(* LoaderHandoff runs first, with its firmware; then the kernel.           *)
(***************************************************************************)
EXTENDS LoaderHandoff

CONSTANTS MaxPages, U64     \* as in PhysicalPageAllocator

\* A bitmap byte is eight pages to the kernel, too.  Pool pages are allocated, and
\* each of image, kernel and frame buffer is allocated or begins on a page.
ASSUME BootAssumption ==
  /\ PER_BYTE = 8 /\ MaxPages \in Nat /\ U64 \in Nat /\ MaxPages < U64
  /\ \A m \in Machines :
       LET allocated(pages) == \A p \in pages \cap DOMAIN m.memory : m.memory[p] # "Conventional"
           placed(base, size) == base % EFI_PAGE_SIZE = 0 \/ allocated(Touched(base, size))
       IN /\ Ceil(Cardinality(DOMAIN m.memory), 8) * 8 <= MaxPages
          /\ allocated(m.pool)
          /\ placed(m.imageBase, m.imageSize)
          /\ placed(m.kernelBase, m.kernelSize)
          /\ placed(m.frameBufferBase, m.frameBufferSize)

VARIABLES
  info,            \* the LOADER_BOOT_INFO k_main is given
  bits,            \* the bytes of the bitmap, each the set of its bits that are set
  g_bitmap, g_bitmap_bytes, g_max_pages, g_free_pages, last, held, foreign,
  kernel,          \* what the kernel does next
  cleared          \* history: pages cleared

ppaVars == <<info, g_bitmap, g_bitmap_bytes, g_max_pages, g_free_pages, last, held, foreign>>
kernelVars == <<bits, ppaVars, kernel, cleared>>

------------------------------------------------------------------------------
(* LOADER_BOOT_INFO, and where the bytes of the bitmap are.                *)

Address(k) == bitmap.page * EFI_PAGE_SIZE + bitmap.offset + k

\* The bytes CreatePageBitmap left.
Filled == [k \in 0..(pageBitmapBytes - 1) |-> {b \in 0..7 : k * 8 + b \notin clear}]

BootInfo ==
  [present |-> TRUE, pageBitmapBase |-> Address(0), pageBitmapSize |-> pageBitmapBytes,
   bits |-> Filled]

Ppa == INSTANCE PhysicalPageAllocator WITH
         Infos <- {}, Addresses <- {}, bitmap <- bits

\* The page an answer of the allocator names.
PageOf(addr) == addr \div Ppa!PAGE_SIZE

------------------------------------------------------------------------------

KernelInit ==
  /\ Init
  /\ info = <<>> /\ bits = <<>>
  /\ g_bitmap = 0 /\ g_bitmap_bytes = 0 /\ g_max_pages = 0 /\ g_free_pages = 0
  /\ last = [op |-> "boot", arg |-> 0, res |-> 0] /\ held = {} /\ foreign = {}
  /\ kernel = "off" /\ cleared = {}

\* Before the kernel.
loading == kernel = "off" /\ Next /\ UNCHANGED kernelVars

enter_kernel ==
  /\ pc = "kernel" /\ kernel = "off"
  /\ info' = BootInfo
  /\ bits' = Filled
  /\ kernel' = "entry"
  /\ UNCHANGED <<vars, g_bitmap, g_bitmap_bytes, g_max_pages, g_free_pages, last, held,
                 foreign, cleared>>

\* init of KernelMain.cpp.
ppa_init ==
  /\ kernel = "entry"
  /\ Ppa!init
  /\ kernel' = "alloc"
  /\ UNCHANGED <<vars, cleared>>

\* There was no conventional memory, and so no bitmap: k_main returns.
ppa_init_fails ==
  /\ kernel = "entry"
  /\ Ppa!init_fails
  /\ kernel' = "stopped"
  /\ UNCHANGED <<vars, cleared>>

\* ppa::alloc.
take_page ==
  /\ kernel = "alloc"
  /\ Ppa!alloc
  /\ kernel' = "zero"
  /\ UNCHANGED <<vars, cleared>>

no_page_left ==
  /\ kernel = "alloc"
  /\ Ppa!alloc_fails
  /\ kernel' = "stopped"
  /\ UNCHANGED <<vars, cleared>>

\* memop::zero_mem of the page.
zero_page ==
  LET p == PageOf(last.res) IN
  /\ kernel = "zero"
  /\ bits' = [k \in DOMAIN bits |-> IF Address(k) \div EFI_PAGE_SIZE = p THEN {} ELSE bits[k]]
  /\ cleared' = cleared \cup {p}
  /\ kernel' = "alloc"
  /\ UNCHANGED <<vars, ppaVars>>

KernelNext ==
  \/ loading \/ enter_kernel \/ ppa_init \/ ppa_init_fails \/ take_page \/ no_page_left \/ zero_page
  \/ kernel = "stopped" /\ UNCHANGED <<vars, kernelVars>>

KernelSpec == KernelInit /\ [][KernelNext]_<<vars, kernelVars>>

------------------------------------------------------------------------------
(* Properties                                                              *)

BitmapPages == {Address(k) \div EFI_PAGE_SIZE : k \in 0..(pageBitmapBytes - 1)}

\* The bytes of the bitmap, which begin poolHeader bytes into a page, reach into
\* one page more than SetUsedRange counts for them.
BitmapCrosses == bitmap.offset + pageBitmapBytes > Ceil(pageBitmapBytes, EFI_PAGE_SIZE) * EFI_PAGE_SIZE

\* The allocator is sound in the memory the loader leaves it, not only on a
\* bitmap of its own: the count stays true and no page is handed out twice while
\* its pages are being cleared, unless the bitmap lies across one page boundary
\* more than its length has, and its last page was handed out.
AllocatorKeepsItsBitmap ==
  kernel \in {"alloc", "zero", "stopped"} =>
    \/ Ppa!CountMatchesBitmap /\ Ppa!PagesConserved
    \/ BitmapCrosses /\ cleared \cap BitmapPages # {}

\* What is in use as the kernel starts.
InUse ==
  {0} \cup Touched(machine.imageBase, machine.imageSize)
  \cup Touched(machine.kernelBase, machine.kernelSize)
  \cup Touched(machine.frameBufferBase, machine.frameBufferSize)
  \cup BitmapPages \cup memMap.pages
  \cup {p \in Pages : type[p] # "Conventional"}

\* The kernel clears no page of the loader's image, of the kernel, of the display,
\* of the bitmap, of the firmware, or of the memory map vmm::init goes on reading,
\* whatever it allocates, except those that came into use after the bitmap was
\* made (the memory map's own pages among them), and unless a bitmap across a page
\* boundary too many was itself cleared, by which all pages it tells of turn free.
PagesInUseKept ==
  kernel # "off" =>
    \/ cleared \cap InUse \subseteq
         {p \in taken : first[p] = "Conventional"}
         \cup (IF memMap.own THEN memMap.pages ELSE {})
    \/ BitmapCrosses /\ cleared \cap BitmapPages # {}
==============================================================================
