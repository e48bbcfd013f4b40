---------------------------- MODULE PageAllocator ----------------------------
(***************************************************************************)
(* What the physical page allocator of AmaOS promises to its callers       *)
(* (vmm::alloc_phys_page_zeroed and ahci::init), without the bitmap and    *)
(* without the cached counter: a set of available pages.                   *)
(*                                                                         *)
(* A page number p stands for the address p * PAGE_SIZE.  Page 0 is never  *)
(* available, so the address 0 (nullptr) can only mean "no page".          *)
(***************************************************************************)
EXTENDS Integers, FiniteSets

CONSTANTS
  PAGE_SIZE,   \* bytes per page
  MaxPages,    \* no adopted bitmap describes more pages than this
  Addresses    \* the addresses callers may pass to free

VARIABLES
  managed,     \* the pages the allocator knows about
  available,   \* those it may hand out
  last         \* the last call: operation, argument and result

vars == <<managed, available, last>>

Answer(op, arg, res) == last' = [op |-> op, arg |-> arg, res |-> res]

\* The one page an address names, if it names a managed page that may be
\* given back: aligned, not page 0, and not available already.
Returnable(addr) ==
  {p \in managed \ available : p # 0 /\ addr = p * PAGE_SIZE}

Init ==
  /\ managed = {}
  /\ available = {}
  /\ last = [op |-> "boot", arg |-> 0, res |-> 0]

\* The allocator adopts the loader's bitmap: some pages, page 0 not available.
Adopt ==
  /\ managed = {}
  /\ \E n \in 1..MaxPages : managed' = 0..(n - 1)
  /\ available' \in SUBSET (managed' \ {0})
  /\ Answer("init", 0, 1)

\* Initialising again changes nothing.
AdoptAgain ==
  /\ managed # {}
  /\ UNCHANGED <<managed, available>>
  /\ Answer("init", 0, 1)

\* There is no usable bitmap: nothing becomes available.
AdoptNothing ==
  /\ UNCHANGED <<managed, available>>
  /\ Answer("init", 0, 0)

Acquire ==
  \E p \in available :
    /\ available' = available \ {p}
    /\ UNCHANGED managed
    /\ Answer("alloc", 0, p * PAGE_SIZE)

\* An allocation fails only when nothing is available.
Exhausted ==
  /\ available = {}
  /\ UNCHANGED <<managed, available>>
  /\ Answer("alloc", 0, 0)

Release(addr) ==
  \E p \in Returnable(addr) :
    /\ available' = available \cup {p}
    /\ UNCHANGED managed
    /\ Answer("free", addr, 1)

\* Anything else is refused, and refusing changes nothing.
Refuse(addr) ==
  /\ Returnable(addr) = {}
  /\ UNCHANGED <<managed, available>>
  /\ Answer("free", addr, 0)

Count ==
  /\ UNCHANGED <<managed, available>>
  /\ Answer("free_page_count", 0, Cardinality(available))

Next ==
  \/ Adopt \/ AdoptAgain \/ AdoptNothing
  \/ Acquire \/ Exhausted
  \/ \E addr \in Addresses : Release(addr) \/ Refuse(addr)
  \/ Count

Spec == Init /\ [][Next]_vars
==============================================================================
