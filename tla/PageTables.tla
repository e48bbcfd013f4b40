------------------------------ MODULE PageTables ------------------------------
(***************************************************************************)
(* The page-table format vmm writes and the processor reads: the address   *)
(* split of VirtualMemoryManager.cpp:34-52, the entry flags and masks of   *)
(* VirtualMemoryManager.h, and the processor's own four-level walk.        *)
(*                                                                         *)
(* The geometry is scaled: a table has ENTRIES entries (512 in the code)   *)
(* and a page PAGE_SIZE bytes (4096), so that the sizes one entry of each  *)
(* level covers keep their ratios and an address space fits TLC.  WORD is  *)
(* 2^64: twice the 48 bits the tables translate, so that the addresses of  *)
(* the higher half are sign-extended and drop their top bits in PML4_IDX.  *)
(*                                                                         *)
(* The memory of page tables is a function from the physical address of    *)
(* each table to its entries.                                              *)
(***************************************************************************)
EXTENDS Integers, FiniteSets

CONSTANTS ENTRIES, PAGE_SIZE

ASSUME GeometryAssumption ==
  /\ ENTRIES \in Nat /\ ENTRIES >= 4 /\ ENTRIES % 2 = 0
  /\ PAGE_SIZE \in Nat /\ PAGE_SIZE > 1

HUGE_SIZE == PAGE_SIZE * ENTRIES     \* one page directory entry: 2 MiB
PDPT_SPAN == HUGE_SIZE * ENTRIES     \* one PDPT entry: 1 GiB
PML4_SPAN == PDPT_SPAN * ENTRIES     \* one PML4 entry: 512 GiB
WORD      == 2 * PML4_SPAN * ENTRIES
NX_BIT    == WORD \div 2             \* bit 63
HIGHER_HALF_OFFSET == WORD - PML4_SPAN * (ENTRIES \div 2)

nullptr == 0
Idx == 0..(ENTRIES - 1)

PML4_IDX(v) == (v \div PML4_SPAN) % ENTRIES
PDPT_IDX(v) == (v \div PDPT_SPAN) % ENTRIES
PD_IDX(v)   == (v \div HUGE_SIZE) % ENTRIES
PT_IDX(v)   == (v \div PAGE_SIZE) % ENTRIES

Plus(a, b)     == (a + b) % WORD
Minus(a, b)    == (a - b) % WORD
AlignDown(a, n) == a - (a % n)
RoundUp(a)     == AlignDown(Plus(a, PAGE_SIZE - 1), PAGE_SIZE)
\* ((virt >> k) + 1) << k: the end of the block of n bytes that holds virt.
NextBlock(a, n) == Plus(AlignDown(a, n), n)

\* An entry: the physical address it holds and the flags that are set.
PageFlags == {"P", "RW", "PWT", "PCD", "PS", "NX"}
Entry(to, flags) == [to |-> to, flags |-> flags]
NoEntry == Entry(0, {})
EmptyTable == [i \in Idx |-> NoEntry]
Present(e) == "P" \in e.flags

\* What the processor makes of a virtual address: no page, or the physical
\* address, the flags of the leaf and the bytes its entry covers.  The flags of
\* the upper entries, P and RW, never restrict those of the leaf.
NoPage == [phys |-> 0, flags |-> {}, size |-> 0]

Translate(mem, root, v) ==
  LET e4 == mem[root][PML4_IDX(v)]
      e3 == mem[e4.to][PDPT_IDX(v)]
      e2 == mem[e3.to][PD_IDX(v)]
      e1 == mem[e2.to][PT_IDX(v)]
  IN IF ~Present(e4) \/ ~Present(e3) \/ ~Present(e2) THEN NoPage
     ELSE IF "PS" \in e2.flags
     THEN [phys |-> AlignDown(e2.to, HUGE_SIZE) + (v % HUGE_SIZE),
           flags |-> e2.flags \ {"PS"}, size |-> HUGE_SIZE]
     ELSE IF Present(e1)
     THEN [phys |-> e1.to + (v % PAGE_SIZE), flags |-> e1.flags, size |-> PAGE_SIZE]
     ELSE NoPage

Mapped(mem, root, v) == Translate(mem, root, v) # NoPage
===============================================================================
