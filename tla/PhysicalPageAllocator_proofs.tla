-------------------- MODULE PhysicalPageAllocator_proofs --------------------
(***************************************************************************)
(* Proofs about the physical page allocator, for every boot information,   *)
(* every bitmap size and contents, and every address passed to free.       *)
(***************************************************************************)
EXTENDS PhysicalPageAllocator, FiniteSetTheorems, TLAPS

Bitmaps(n) == [0..(n - 1) -> SUBSET (0..7)]

------------------------------------------------------------------------------
(* Lemmas about the bit operations.                                        *)

\* A page of the bitmap has its own byte and bit: i >> 3 and i & 7 name it.
LEMMA BitOfPage ==
  ASSUME NEW n \in Nat, NEW i \in 0..(n * 8 - 1)
  PROVE  /\ i \div 8 \in 0..(n - 1)
         /\ i % 8 \in 0..7
         /\ \A j \in 0..(n * 8 - 1) :
              j # i => j \div 8 # i \div 8 \/ j % 8 # i % 8
  OBVIOUS

\* set_used clears exactly page i from the free pages.
LEMMA SetUsedRemoves ==
  ASSUME NEW n \in Nat, NEW bm \in Bitmaps(n), NEW i \in 0..(n * 8 - 1)
  PROVE  /\ set_used(bm, i) \in Bitmaps(n)
         /\ ClearBits(set_used(bm, i), n * 8) = ClearBits(bm, n * 8) \ {i}
<1>1. i \div 8 \in 0..(n - 1) /\ i % 8 \in 0..7
  BY BitOfPage
<1>2. set_used(bm, i) \in Bitmaps(n)
  BY <1>1 DEF set_used, Bitmaps
<1>3. ASSUME NEW j \in 0..(n * 8 - 1)
      PROVE  is_free(set_used(bm, i), j) <=> is_free(bm, j) /\ j # i
  <2>1. j \div 8 \in 0..(n - 1) /\ j % 8 \in 0..7
    BY BitOfPage
  <2>2. CASE j = i
    BY <1>1, <2>2 DEF is_free, set_used, Bitmaps
  <2>3. CASE j # i
    <3>1. j \div 8 # i \div 8 \/ j % 8 # i % 8
      BY BitOfPage, <2>3
    <3>2. QED
      BY <1>1, <2>1, <2>3, <3>1 DEF is_free, set_used, Bitmaps
  <2>4. QED
    BY <2>2, <2>3
<1>4. QED
  BY <1>2, <1>3 DEF ClearBits

\* set_free adds exactly page i to the free pages.
LEMMA SetFreeAdds ==
  ASSUME NEW n \in Nat, NEW bm \in Bitmaps(n), NEW i \in 0..(n * 8 - 1)
  PROVE  /\ set_free(bm, i) \in Bitmaps(n)
         /\ ClearBits(set_free(bm, i), n * 8) = ClearBits(bm, n * 8) \cup {i}
<1>1. i \div 8 \in 0..(n - 1) /\ i % 8 \in 0..7
  BY BitOfPage
<1>2. set_free(bm, i) \in Bitmaps(n)
  BY <1>1 DEF set_free, Bitmaps
<1>3. ASSUME NEW j \in 0..(n * 8 - 1)
      PROVE  is_free(set_free(bm, i), j) <=> is_free(bm, j) \/ j = i
  <2>1. j \div 8 \in 0..(n - 1) /\ j % 8 \in 0..7
    BY BitOfPage
  <2>2. CASE j = i
    BY <1>1, <2>2 DEF is_free, set_free, Bitmaps
  <2>3. CASE j # i
    <3>1. j \div 8 # i \div 8 \/ j % 8 # i % 8
      BY BitOfPage, <2>3
    <3>2. QED
      BY <1>1, <2>1, <2>3, <3>1 DEF is_free, set_free, Bitmaps
  <2>4. QED
    BY <2>2, <2>3
<1>4. QED
  BY <1>2, <1>3 DEF ClearBits

\* The free pages are finitely many, and never more than the pages described.
LEMMA ClearBitsFinite ==
  ASSUME NEW bm, NEW n \in Nat
  PROVE  /\ IsFiniteSet(ClearBits(bm, n))
         /\ Cardinality(ClearBits(bm, n)) \in 0..n
<1>1. IsFiniteSet(0..(n - 1)) /\ Cardinality(0..(n - 1)) = n
  BY FS_Interval
<1>2. ClearBits(bm, n) \in SUBSET (0..(n - 1))
  BY DEF ClearBits
<1>3. IsFiniteSet(ClearBits(bm, n)) /\ Cardinality(ClearBits(bm, n)) <= n
  BY <1>1, <1>2, FS_Subset
<1>4. Cardinality(ClearBits(bm, n)) \in Nat
  BY <1>3, FS_CardinalityType
<1>5. QED
  BY <1>3, <1>4

\* Arithmetic modulo 2^64 does nothing within its range.
LEMMA ModInRange ==
  ASSUME NEW m \in Nat, NEW x \in 0..(m - 1)
  PROVE  x % m = x
  OBVIOUS

------------------------------------------------------------------------------
(* The inductive invariant: the three invariants, and what the allocator   *)
(* knows before and after init has adopted the bitmap.                     *)

Started ==
  /\ g_bitmap # nullptr => Usable(info)
  /\ g_bitmap = nullptr => bitmap = info.bits /\ held = {} /\ foreign = {}

IInv == TypeOK /\ CountMatchesBitmap /\ PagesConserved /\ Started

\* The boot information describes a bitmap within the bound.
LEMMA InfoFacts ==
  ASSUME info \in Infos
  PROVE  /\ info.pageBitmapSize \in Nat
         /\ info.pageBitmapSize * 8 \in 0..MaxPages
         /\ info.bits \in Bitmaps(info.pageBitmapSize)
         /\ BootFree \subseteq Pages
<1>1. /\ info.pageBitmapSize \in Nat
      /\ info.pageBitmapSize * 8 \in 0..MaxPages
      /\ info.bits \in Bitmaps(info.pageBitmapSize)
  BY InfosAssumption, WidthAssumption DEF Bitmaps
<1>2. BootFree \subseteq 0..(info.pageBitmapSize * 8 - 1)
  BY DEF BootFree, ClearBits
<1>3. QED
  BY <1>1, <1>2, WidthAssumption DEF Pages

\* Before init no page is free and no counter counts: the invariant holds.
LEMMA InitIInv == Init => IInv
<1> SUFFICES ASSUME Init PROVE IInv
  OBVIOUS
<1>1. FreePages = {}
  BY DEF Init, FreePages, ClearBits
<1>2. info \in Infos /\ info.bits \in Bitmaps(info.pageBitmapSize)
  BY InfoFacts DEF Init
<1>3. TypeOK
  BY <1>2, WidthAssumption DEF Init, TypeOK, Bitmaps, nullptr, Pages
<1>4. CountMatchesBitmap
  BY <1>1, FS_EmptySet DEF Init, CountMatchesBitmap
<1>5. PagesConserved /\ Started
  BY DEF Init, PagesConserved, Started, nullptr
<1>6. QED
  BY <1>3, <1>4, <1>5 DEF IInv

\* A step that changes neither the allocator's state nor the history.
LEMMA UnchangedIInv ==
  ASSUME IInv, UNCHANGED <<state, held, foreign>>,
         last' = last \/ \E op \in {"init", "alloc", "free", "free_page_count"} :
                           \E arg, res \in Nat : Answer(op, arg, res)
  PROVE  IInv'
<1>1. TypeOK'
  BY DEF IInv, TypeOK, state, Answer, Pages
<1>2. CountMatchesBitmap'
  BY DEF IInv, CountMatchesBitmap, state, FreePages, ClearBits, is_free
<1>3. PagesConserved'
  BY DEF IInv, PagesConserved, state, FreePages, ClearBits, is_free, BootFree
<1>4. Started'
  BY DEF IInv, Started, state, Usable
<1>5. QED
  BY <1>1, <1>2, <1>3, <1>4 DEF IInv

\* What the invariant says of the state in terms of the whole bitmap.
LEMMA StateFacts ==
  ASSUME IInv
  PROVE  /\ g_max_pages \in 0..MaxPages
         /\ bitmap \in Bitmaps(info.pageBitmapSize)
         /\ g_bitmap # nullptr => g_max_pages = info.pageBitmapSize * 8
         /\ g_bitmap = nullptr => g_max_pages = 0
         /\ FreePages \subseteq Pages
         /\ IsFiniteSet(FreePages)
         /\ g_free_pages = Cardinality(FreePages)
         /\ g_free_pages \in 0..MaxPages
<1>1. /\ g_max_pages \in 0..MaxPages
      /\ bitmap \in Bitmaps(info.pageBitmapSize)
      /\ g_bitmap # nullptr => g_max_pages = info.pageBitmapSize * 8
      /\ g_bitmap = nullptr => g_max_pages = 0
  <2>1. info.pageBitmapSize \in Nat /\ info.pageBitmapSize * 8 \in 0..MaxPages
    BY InfoFacts DEF IInv, TypeOK
  <2>2. QED
    BY <2>1, WidthAssumption DEF IInv, TypeOK, Bitmaps
<1>2. FreePages \subseteq 0..(g_max_pages - 1)
  BY DEF FreePages, ClearBits
<1>3. IsFiniteSet(FreePages) /\ Cardinality(FreePages) \in 0..g_max_pages
  BY <1>1, ClearBitsFinite DEF FreePages
<1>4. QED
  BY <1>1, <1>2, <1>3, WidthAssumption DEF IInv, CountMatchesBitmap, Pages

\* init adopts the bitmap with the count its loop takes and page 0 marked.
LEMMA InitStep == IInv /\ init => IInv'
<1> SUFFICES ASSUME IInv, init PROVE IInv'
  OBVIOUS
<1> DEFINE n == info.pageBitmapSize
<1>1. /\ n \in Nat \ {0} /\ n * 8 \in 0..MaxPages
      /\ bitmap \in Bitmaps(n) /\ info.pageBitmapBase \in Nat \ {0}
  BY InfosAssumption, StateFacts, InfoFacts DEF init, adopt, Usable, IInv, TypeOK
<1>2. /\ bitmap' \in Bitmaps(n)
      /\ FreePages' = ClearBits(bitmap, n * 8) \ {0}
  <2>1. 0 \in 0..(n * 8 - 1)
    BY <1>1
  <2>2. QED
    BY <1>1, <2>1, SetUsedRemoves DEF init, adopt, FreePages
<1>3. FreePages' \cup held = BootFree \cup foreign /\ FreePages' \cap held = {}
  <2>1. CASE g_bitmap = nullptr
    BY <1>2, <2>1 DEF IInv, Started, BootFree
  <2>2. CASE g_bitmap # nullptr
    <3>1. FreePages' = FreePages \ {0}
      BY <1>2, <2>2, StateFacts DEF FreePages
    <3>2. QED
      BY <2>2, <3>1 DEF IInv, PagesConserved
  <2>3. QED
    BY <2>1, <2>2
<1>4. 0 \notin FreePages' \cup held
  <2>1. 0 \notin held
    BY DEF IInv, Started, PagesConserved
  <2>2. QED
    BY <1>2, <2>1
<1>5. g_free_pages' = Cardinality(FreePages') /\ g_free_pages' \in 0..(U64 - 1)
  <2>1. Cardinality(FreePages') \in 0..(n * 8)
    BY <1>1, ClearBitsFinite DEF init, adopt, FreePages
  <2>2. QED
    BY <1>1, <2>1, WidthAssumption DEF init, adopt, FreePages
<1>6. TypeOK'
  BY <1>1, <1>2, <1>5
     DEF init, adopt, IInv, TypeOK, Bitmaps, Answer, KERNEL_SUCCESS, Pages, nullptr
<1>7. PagesConserved'
  <2>1. BootFree' = BootFree /\ held' = held /\ foreign' = foreign
    BY DEF init, adopt, BootFree
  <2>2. QED
    BY <1>3, <1>4, <2>1 DEF PagesConserved
<1>8. CountMatchesBitmap'
  BY <1>5 DEF CountMatchesBitmap
<1>9. Started'
  BY <1>1 DEF init, adopt, Started, Usable, nullptr
<1>10. QED
  BY <1>6, <1>7, <1>8, <1>9 DEF IInv

\* alloc moves one page from the free pages to the held ones and counts it.
LEMMA AllocStep == IInv /\ alloc => IInv'
<1> SUFFICES ASSUME IInv, alloc PROVE IInv'
  OBVIOUS
<1>1. PICK i \in FreePages :
        /\ g_bitmap # nullptr
        /\ bitmap' = set_used(bitmap, i)
        /\ g_free_pages' = (g_free_pages - 1) % U64
        /\ held' = held \cup {i}
        /\ Answer("alloc", 0, i * PAGE_SIZE)
        /\ UNCHANGED <<info, g_bitmap, g_bitmap_bytes, g_max_pages, foreign>>
  BY DEF alloc
<1>2. i \in 0..(info.pageBitmapSize * 8 - 1) /\ i \in Pages
  BY <1>1, StateFacts DEF FreePages, ClearBits
<1>3. bitmap' \in Bitmaps(info.pageBitmapSize) /\ FreePages' = FreePages \ {i}
  <2>1. info.pageBitmapSize \in Nat
    BY InfoFacts DEF IInv, TypeOK
  <2>2. QED
    BY <1>1, <1>2, <2>1, StateFacts, SetUsedRemoves DEF FreePages
<1>4. g_free_pages' = Cardinality(FreePages') /\ g_free_pages' \in 0..(U64 - 1)
  <2>1. Cardinality(FreePages \ {i}) = Cardinality(FreePages) - 1
    BY StateFacts, FS_RemoveElement
  <2>2. Cardinality(FreePages \ {i}) \in Nat
    BY StateFacts, FS_RemoveElement, FS_CardinalityType
  <2>3. g_free_pages - 1 \in 0..(U64 - 1)
    BY <2>1, <2>2, StateFacts, WidthAssumption
  <2>4. (g_free_pages - 1) % U64 = g_free_pages - 1
    BY <2>3, ModInRange, WidthAssumption
  <2>5. QED
    BY <1>1, <1>3, <2>1, <2>3, <2>4, StateFacts
<1>5. TypeOK'
  <2>1. i * PAGE_SIZE \in Nat
    BY <1>2 DEF PAGE_SIZE
  <2>2. QED
    BY <1>1, <1>2, <1>3, <1>4, <2>1 DEF IInv, TypeOK, Bitmaps, Answer
<1>6. PagesConserved'
  <2>1. BootFree' = BootFree
    BY <1>1 DEF BootFree
  <2>2. QED
    BY <1>1, <1>3, <2>1 DEF IInv, PagesConserved
<1>7. CountMatchesBitmap'
  BY <1>4 DEF CountMatchesBitmap
<1>8. Started'
  BY <1>1 DEF IInv, Started, Usable
<1>9. QED
  BY <1>5, <1>6, <1>7, <1>8 DEF IInv

\* free moves a page back, which is counted as foreign if nobody held it.
LEMMA FreeStep ==
  ASSUME IInv, NEW addr \in Addresses, free(addr)
  PROVE  IInv'
<1> DEFINE i == addr \div PAGE_SIZE
<1>1. addr \in Nat
  BY AddressesAssumption
<1>2. /\ i \in 0..(info.pageBitmapSize * 8 - 1) /\ i \in Pages
      /\ i # 0 /\ g_bitmap # nullptr
  <2>1. i \in Nat /\ i < g_max_pages
    BY <1>1 DEF free, Accepted, PAGE_SIZE
  <2>2. i # 0
    BY <1>1 DEF free, Accepted, PAGE_SIZE, nullptr
  <2>3. QED
    BY <2>1, <2>2, StateFacts, WidthAssumption DEF Pages
<1>3. bitmap' \in Bitmaps(info.pageBitmapSize) /\ FreePages' = FreePages \cup {i}
  <2>1. info.pageBitmapSize \in Nat
    BY InfoFacts DEF IInv, TypeOK
  <2>2. QED
    BY <1>2, <2>1, StateFacts, SetFreeAdds DEF free, FreePages
<1>4. i \notin FreePages
  BY DEF free, Accepted, FreePages, ClearBits
<1>5. g_free_pages' = Cardinality(FreePages') /\ g_free_pages' \in 0..(U64 - 1)
  <2>1. Cardinality(FreePages') = g_free_pages + 1
    BY <1>3, <1>4, StateFacts, FS_AddElement
  <2>2. Cardinality(FreePages') \in 0..MaxPages
    <3>1. FreePages' = ClearBits(bitmap', g_max_pages)
      BY DEF free, FreePages
    <3>2. g_max_pages \in Nat /\ g_max_pages <= MaxPages
      BY StateFacts, WidthAssumption
    <3>3. Cardinality(FreePages') \in 0..g_max_pages
      BY <3>1, <3>2, ClearBitsFinite
    <3>4. QED
      BY <3>2, <3>3, WidthAssumption
  <2>3. (g_free_pages + 1) % U64 = g_free_pages + 1
    BY <2>1, <2>2, ModInRange, WidthAssumption
  <2>4. QED
    BY <2>1, <2>2, <2>3, WidthAssumption DEF free
<1>6. TypeOK'
  BY <1>1, <1>2, <1>3, <1>5
     DEF free, IInv, TypeOK, Bitmaps, Answer, KERNEL_SUCCESS
<1>7. PagesConserved'
  <2>1. BootFree' = BootFree
    BY DEF free, BootFree
  <2>2. held' = held \ {i} /\ foreign' = IF i \in held THEN foreign ELSE foreign \cup {i}
    BY DEF free
  <2>3. QED
    BY <1>2, <1>3, <1>4, <2>1, <2>2 DEF IInv, PagesConserved
<1>8. CountMatchesBitmap'
  BY <1>5 DEF CountMatchesBitmap
<1>9. Started'
  BY <1>2 DEF free, IInv, Started, Usable
<1>10. QED
  BY <1>6, <1>7, <1>8, <1>9 DEF IInv

\* Every step of the allocator preserves the invariant.
LEMMA NextIInv == IInv /\ [Next]_vars => IInv'
<1> SUFFICES ASSUME IInv, [Next]_vars PROVE IInv'
  OBVIOUS
<1>1. CASE init
  BY <1>1, InitStep
<1>2. CASE init_fails
  BY <1>2, UnchangedIInv DEF init_fails, KERNEL_FAILURE
<1>3. CASE alloc
  BY <1>3, AllocStep
<1>4. CASE alloc_fails
  BY <1>4, UnchangedIInv DEF alloc_fails, nullptr
<1>5. ASSUME NEW addr \in Addresses, free(addr) PROVE IInv'
  BY <1>5, FreeStep
<1>6. ASSUME NEW addr \in Addresses, free_fails(addr) PROVE IInv'
  <2>1. addr \in Nat
    BY AddressesAssumption
  <2>2. QED
    BY <1>6, <2>1, UnchangedIInv DEF free_fails, KERNEL_FAILURE
<1>7. CASE free_page_count
  <2>1. g_free_pages \in Nat
    BY DEF IInv, TypeOK
  <2>2. QED
    BY <1>7, <2>1, UnchangedIInv DEF free_page_count
<1>8. CASE UNCHANGED vars
  BY <1>8, UnchangedIInv DEF vars, state
<1>9. QED
  BY <1>1, <1>2, <1>3, <1>4, <1>5, <1>6, <1>7, <1>8 DEF Next

\* The invariant is inductive, so it holds in every state.
THEOREM Invariance == Spec => []IInv
<1>1. Init => IInv
  BY InitIInv
<1>2. IInv /\ [Next]_vars => IInv'
  BY NextIInv
<1>3. QED
  BY <1>1, <1>2, PTL DEF Spec

\* The state keeps its types: in particular g_max_pages is always eight times
\* the adopted size, and the counter stays within 64 bits.
THEOREM TypeCorrect == Spec => []TypeOK
<1>1. IInv => TypeOK
  BY DEF IInv
<1>2. QED
  BY <1>1, Invariance, PTL

\* free_page_count (PhysicalPageAllocator.cpp:86) is always the number of
\* clear bits of the bitmap, for every sequence of alloc and free.
THEOREM CountCorrect == Spec => []CountMatchesBitmap
<1>1. IInv => CountMatchesBitmap
  BY DEF IInv
<1>2. QED
  BY <1>1, Invariance, PTL

\* Pages are neither lost nor owned twice, and page 0 is never handed out.
THEOREM Conservation == Spec => []PagesConserved
<1>1. IInv => PagesConserved
  BY DEF IInv
<1>2. QED
  BY <1>1, Invariance, PTL

------------------------------------------------------------------------------
(* The bitmap allocator implements the abstract page allocator.            *)

\* The pages a caller may give back are exactly those free accepts.
LEMMA AcceptedIsReturnable ==
  ASSUME IInv, NEW addr \in Addresses
  PROVE  /\ Accepted(addr) =>
              Abstract!Returnable(addr) = {addr \div PAGE_SIZE}
         /\ ~Accepted(addr) => Abstract!Returnable(addr) = {}
<1>1. addr \in Nat
  BY AddressesAssumption
<1>2. g_max_pages \in Nat
  BY StateFacts, WidthAssumption
<1>3. ASSUME NEW p \in Abstract!Returnable(addr)
      PROVE  Accepted(addr) /\ p = addr \div PAGE_SIZE
  <2>1. /\ p \in 0..(g_max_pages - 1) /\ p \notin FreePages
        /\ p # 0 /\ addr = p * 4096
    BY DEF Abstract!Returnable, PAGE_SIZE
  <2>2. addr % 4096 = 0 /\ addr \div 4096 = p /\ addr # 0
    BY <1>2, <2>1
  <2>3. ~is_free(bitmap, p)
    BY <2>1 DEF FreePages, ClearBits
  <2>4. QED
    BY <1>2, <2>1, <2>2, <2>3 DEF Accepted, PAGE_SIZE, nullptr
<1>4. ASSUME Accepted(addr)
      PROVE  addr \div PAGE_SIZE \in Abstract!Returnable(addr)
  <2> DEFINE p == addr \div 4096
  <2>1. /\ addr # 0 /\ addr % 4096 = 0 /\ p < g_max_pages
        /\ ~is_free(bitmap, p)
    BY <1>4 DEF Accepted, PAGE_SIZE, nullptr
  <2>2. p \in 0..(g_max_pages - 1) /\ p # 0 /\ addr = p * 4096
    BY <1>1, <1>2, <2>1
  <2>3. p \notin FreePages
    BY <2>1 DEF FreePages, ClearBits
  <2>4. QED
    BY <2>2, <2>3 DEF Abstract!Returnable, PAGE_SIZE
<1>5. QED
  BY <1>3, <1>4

\* A step that leaves the bitmap and its bounds alone leaves the abstract
\* state alone.
LEMMA SameStateSameAbstract ==
  ASSUME UNCHANGED state
  PROVE  /\ FreePages' = FreePages
         /\ (0..(g_max_pages - 1))' = 0..(g_max_pages - 1)
  BY DEF state, FreePages, ClearBits, is_free

\* init adopts the loader's bitmap the first time and changes nothing later.
LEMMA InitRefines ==
  ASSUME IInv, IInv', init
  PROVE  Abstract!Adopt \/ Abstract!AdoptAgain
<1> DEFINE n == info.pageBitmapSize
<1>1. /\ n \in Nat \ {0} /\ n * 8 \in 1..MaxPages /\ g_max_pages' = n * 8
      /\ g_bitmap' # nullptr
  BY InfosAssumption, InfoFacts DEF init, adopt, Usable, IInv, TypeOK, nullptr
<1>2. FreePages' \in SUBSET (0..(n * 8 - 1) \ {0})
  <2>1. 0 \notin FreePages'
    BY <1>1 DEF IInv, PagesConserved
  <2>2. QED
    BY <1>1, <2>1 DEF FreePages, ClearBits
<1>3. Answer("init", 0, 1)
  BY DEF init, adopt, KERNEL_SUCCESS
<1>4. CASE g_bitmap = nullptr
  <2>1. 0..(g_max_pages - 1) = {}
    BY <1>4, StateFacts
  <2>2. QED
    BY <1>1, <1>2, <1>3, <2>1 DEF Abstract!Adopt, Abstract!Answer, Answer
<1>5. CASE g_bitmap # nullptr
  <2>1. g_max_pages = n * 8
    BY <1>5, StateFacts
  <2>2. FreePages' = FreePages
    <3>1. BootFree' = BootFree /\ held' = held /\ foreign' = foreign
      BY DEF init, adopt, BootFree
    <3>2. QED
      BY <1>1, <1>5, <3>1 DEF IInv, PagesConserved
  <2>3. QED
    BY <1>1, <1>3, <2>1, <2>2 DEF Abstract!AdoptAgain, Abstract!Answer, Answer
<1>6. QED
  BY <1>4, <1>5

\* Every step of the bitmap allocator is a step of the abstract allocator.
LEMMA NextRefines ==
  IInv /\ IInv' /\ [Next]_vars => [Abstract!Next]_(Abstract!vars)
<1> SUFFICES ASSUME IInv, IInv', [Next]_vars
             PROVE  [Abstract!Next]_(Abstract!vars)
  OBVIOUS
<1>1. CASE init
  BY <1>1, InitRefines DEF Abstract!Next
<1>2. CASE init_fails
  BY <1>2, SameStateSameAbstract
     DEF init_fails, Answer, KERNEL_FAILURE,
         Abstract!Next, Abstract!AdoptNothing, Abstract!Answer
<1>3. CASE alloc
  <2>1. PICK i \in FreePages :
          /\ g_bitmap # nullptr
          /\ bitmap' = set_used(bitmap, i)
          /\ Answer("alloc", 0, i * PAGE_SIZE)
          /\ UNCHANGED <<info, g_max_pages>>
    BY <1>3 DEF alloc
  <2>2. i \in 0..(info.pageBitmapSize * 8 - 1)
    BY <2>1, StateFacts DEF FreePages, ClearBits
  <2>3. FreePages' = FreePages \ {i}
    <3>1. info.pageBitmapSize \in Nat
      BY InfoFacts DEF IInv, TypeOK
    <3>2. QED
      BY <2>1, <2>2, <3>1, StateFacts, SetUsedRemoves DEF FreePages
  <2>4. Abstract!Acquire
    BY <2>1, <2>3 DEF Abstract!Acquire, Abstract!Answer, Answer
  <2>5. QED
    BY <2>4 DEF Abstract!Next
<1>4. CASE alloc_fails
  <2>1. FreePages = {}
    <3>1. CASE g_bitmap = nullptr
      BY <3>1, StateFacts DEF FreePages, ClearBits
    <3>2. QED
      BY <1>4, <3>1 DEF alloc_fails
  <2>2. QED
    BY <1>4, <2>1, SameStateSameAbstract
       DEF alloc_fails, Answer, nullptr,
           Abstract!Next, Abstract!Exhausted, Abstract!Answer
<1>5. ASSUME NEW addr \in Addresses, free(addr) PROVE Abstract!Next
  <2> DEFINE i == addr \div PAGE_SIZE
  <2>1. i \in Abstract!Returnable(addr)
    BY <1>5, AcceptedIsReturnable DEF free
  <2>2. FreePages' = FreePages \cup {i}
    <3>1. i \in 0..(info.pageBitmapSize * 8 - 1)
      <4>1. i \in 0..(g_max_pages - 1)
        BY <2>1 DEF Abstract!Returnable
      <4>2. QED
        BY <4>1, StateFacts
    <3>2. info.pageBitmapSize \in Nat
      BY InfoFacts DEF IInv, TypeOK
    <3>3. g_max_pages = info.pageBitmapSize * 8
      BY <3>1, <1>5, StateFacts, AddressesAssumption
         DEF free, Accepted, PAGE_SIZE
    <3>4. QED
      BY <1>5, <3>1, <3>2, <3>3, StateFacts, SetFreeAdds DEF free, FreePages
  <2>3. Abstract!Release(addr)
    BY <1>5, <2>1, <2>2
       DEF free, Answer, KERNEL_SUCCESS, Abstract!Release, Abstract!Answer
  <2>4. QED
    BY <2>3 DEF Abstract!Next
<1>6. ASSUME NEW addr \in Addresses, free_fails(addr) PROVE Abstract!Next
  <2>1. Abstract!Returnable(addr) = {}
    BY <1>6, AcceptedIsReturnable DEF free_fails
  <2>2. Abstract!Refuse(addr)
    BY <1>6, <2>1, SameStateSameAbstract
       DEF free_fails, Answer, KERNEL_FAILURE, Abstract!Refuse, Abstract!Answer
  <2>3. QED
    BY <2>2 DEF Abstract!Next
<1>7. CASE free_page_count
  <2>1. g_free_pages = Cardinality(FreePages)
    BY StateFacts
  <2>2. QED
    BY <1>7, <2>1, SameStateSameAbstract
       DEF free_page_count, Answer, Cardinality, Abstract!Cardinality,
           Abstract!Next, Abstract!Count, Abstract!Answer
<1>8. CASE UNCHANGED vars
  BY <1>8, SameStateSameAbstract DEF vars, state, Abstract!vars
<1>9. QED
  BY <1>1, <1>2, <1>3, <1>4, <1>5, <1>6, <1>7, <1>8 DEF Next

\* alloc, free and free_page_count keep the abstract promise: a page handed out
\* was available, only exhaustion makes alloc fail, a refused free changes
\* nothing, and the count is the number of available pages.
THEOREM Refinement == Spec => ImplementsPageAllocator
<1>1. Init => Abstract!Init
  <2> SUFFICES ASSUME Init PROVE Abstract!Init
    OBVIOUS
  <2>1. FreePages = {} /\ 0..(g_max_pages - 1) = {}
    BY DEF Init, FreePages, ClearBits
  <2>2. QED
    BY <2>1 DEF Init, Abstract!Init
<1>2. IInv /\ IInv' /\ [Next]_vars => [Abstract!Next]_(Abstract!vars)
  BY NextRefines
<1>3. QED
  BY <1>1, <1>2, Invariance, PTL
     DEF Spec, ImplementsPageAllocator, Abstract!Spec
==============================================================================
