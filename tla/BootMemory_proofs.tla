-------------------------- MODULE BootMemory_proofs --------------------------
(***************************************************************************)
(* Proofs about LoaderHandoff, and about BootMemory, which continues it.   *)
(*                                                                         *)
(* First: what the kernel is told of memory, and why the loader halts, for *)
(* every machine and any number of firmware events.                        *)
(*                                                                         *)
(* Then: why the kernel's page allocator and what it hands out agree with  *)
(* the memory the loader leaves.                                           *)
(* Everything the allocator hands out is a page the loader cleared in the  *)
(* bitmap, for the bitmap changes only under the allocator's own hands or  *)
(* when one of its pages is handed out and cleared.  The loader has marked *)
(* the pages the bitmap's length has, so that can only be the page more.   *)
(***************************************************************************)
EXTENDS BootMemory, FiniteSetTheorems, WellFoundedInduction, TLAPS

------------------------------------------------------------------------------
(* Lemmas about counting pages.                                            *)

\* What a quotient is.
LEMMA Quotient ==
  ASSUME NEW a \in Int, NEW b \in Nat \ {0}
  PROVE  a \div b \in Int /\ b * (a \div b) <= a /\ a < b * (a \div b) + b
  OBVIOUS

\* Quotients are ordered as what is divided.
LEMMA QuotientMonotone ==
  ASSUME NEW b \in Nat \ {0}, NEW a \in Int, NEW c \in Int, a <= c
  PROVE  a \div b <= c \div b
<1> DEFINE qa == a \div b  qc == c \div b
<1>1. qa \in Int /\ qc \in Int /\ b * qa <= a /\ c < b * qc + b
  BY Quotient
<1>2. SUFFICES ASSUME qa >= qc + 1 PROVE FALSE
  BY <1>1
<1> HIDE DEF qa, qc
<1>3. b * qa >= b * (qc + 1)
  BY <1>1, <1>2
<1> QED
  BY <1>1, <1>3

\* The pages of a machine are an initial segment of the numbers.
LEMMA PagesFacts ==
  ASSUME machine \in Machines
  PROVE  /\ IsFiniteSet(Pages) /\ Pages \subseteq Nat /\ machine.pool \subseteq Nat
         /\ \A p \in Pages : p # 0 => p - 1 \in Pages
<1>1. IsFiniteSet(Pages) /\ Pages = 0..(Cardinality(Pages) - 1) /\ machine.pool \subseteq Pages
  BY MachinesAssumption DEF Pages
<1>2. Cardinality(Pages) \in Nat
  BY <1>1, FS_CardinalityType
<1> DEFINE n == Cardinality(Pages)
<1> HIDE DEF n
<1>3. Pages = 0..(n - 1) /\ n \in Nat
  BY <1>1, <1>2 DEF n
<1> QED
  BY <1>1, <1>3

\* An address inside page q.
LEMMA PageOfBuffer ==
  ASSUME NEW b \in Nat \ {0}, NEW q \in Nat, NEW o \in 0..(b - 1)
  PROVE  (q * b + o) \div b = q
<1> DEFINE a == q * b + o
           d == a \div b
<1>1. a \in Int /\ d \in Int /\ b * d <= a /\ a < b * d + b
  BY Quotient
<1>2. a = b * q + o
  OBVIOUS
<1> HIDE DEF a, d
<1>3. ~(d >= q + 1)
  <2>1. d >= q + 1 => b * d >= b * (q + 1)
    BY <1>1
  <2> QED BY <1>1, <1>2, <2>1
<1>4. ~(d <= q - 1)
  <2>1. d <= q - 1 => b * d <= b * (q - 1)
    BY <1>1
  <2> QED BY <1>1, <1>2, <2>1
<1> QED
  BY <1>1, <1>3, <1>4 DEF d, a

\* Pages needed for n bytes.
LEMMA CeilFacts ==
  ASSUME NEW b \in Nat \ {0}, NEW a \in Nat
  PROVE  /\ Ceil(a, b) \in Nat /\ a <= b * Ceil(a, b)
         /\ Ceil(0, b) = 0
         /\ a > 0 => Ceil(a, b) > 0
         /\ \A c \in Nat : a <= c => Ceil(a, b) <= Ceil(c, b)
<1>1. Ceil(a, b) \in Int /\ a + b - 1 < b * Ceil(a, b) + b
  BY Quotient DEF Ceil
<1>2. \A c \in Nat : a <= c => Ceil(a, b) <= Ceil(c, b)
  BY QuotientMonotone DEF Ceil
<1>3. Ceil(0, b) = 0
  <2> DEFINE q == (b - 1) \div b
  <2>1. q \in Int /\ b * q <= b - 1 /\ b - 1 < b * q + b
    BY Quotient
  <2> HIDE DEF q
  <2>2. q < 1 /\ q > -1
    <3>1. q >= 1 => b * q >= b
      BY <2>1
    <3>2. q <= -1 => b * q <= -b
      BY <2>1
    <3> QED BY <2>1, <3>1, <3>2
  <2> QED BY <2>1, <2>2 DEF q, Ceil
<1>4. Ceil(0, b) <= Ceil(a, b)
  BY QuotientMonotone DEF Ceil
<1>5. a > 0 => Ceil(a, b) # 0
  BY <1>1
<1> QED
  BY <1>1, <1>2, <1>3, <1>4, <1>5

\* What SetUsedRange marks, the range touches.
LEMMA MarksWhatIsTouched ==
  ASSUME NEW base \in Nat, NEW size \in Nat
  PROVE  SetUsedRange(base, size) \subseteq Touched(base, size)
<1> DEFINE P == EFI_PAGE_SIZE
           q == base \div P
           c == Ceil(size, P)
           t == (base + size - 1) \div P
<1>1. P \in Nat \ {0}
  BY MachinesAssumption
<1>2. c \in Nat /\ (size = 0 => c = 0)
  BY <1>1, CeilFacts
<1>3. q \in Int /\ P * q <= base
  BY <1>1, Quotient
<1>4. P * c <= size + P - 1
  BY <1>1, Quotient DEF Ceil
<1>5. t \in Int /\ base + size - 1 < P * t + P
  BY <1>1, Quotient
<1> HIDE DEF P, q, c, t
<1>6. c > 0 => q + c - 1 <= t
  <2> SUFFICES ASSUME q + c - 1 >= t + 1 PROVE FALSE
    BY <1>2, <1>3, <1>5
  <2>1. P * (q + c - 1) >= P * (t + 1)
    BY <1>1, <1>2, <1>3, <1>5
  <2>2. P * (q + c - 1) = P * q + P * c - P /\ P * (t + 1) = P * t + P
    BY <1>1, <1>2, <1>3, <1>5
  <2> QED
    BY <1>1, <1>2, <1>3, <1>4, <1>5, <2>1, <2>2
<1>7. q..(q + c - 1) \subseteq q..t
  BY <1>2, <1>3, <1>5, <1>6
<1> QED
  BY <1>7 DEF SetUsedRange, Touched, P, q, c, t

\* A finite set of integers has a greatest element: one with the fewest above it.
LEMMA Greatest ==
  ASSUME NEW S \in SUBSET Int, IsFiniteSet(S), S # {}
  PROVE  \E m \in S : \A q \in S : q <= m
<1> DEFINE above(x) == {q \in S : q > x}
           T == {above(x) : x \in S}
<1>1. T \subseteq FiniteSubsetsOf(S) /\ T # {}
  <2>1. ASSUME NEW x \in S PROVE IsFiniteSet(above(x))
    <3>1. above(x) \in SUBSET S
      OBVIOUS
    <3> QED BY <3>1, FS_Subset
  <2> QED BY <2>1 DEF FiniteSubsetsOf
<1>2. \E A \in T : \A B \in T : <<B, A>> \notin StrictSubsetOrdering(S)
  <2> HIDE DEF T
  <2> QED BY <1>1, FS_StrictSubsetOrderingWellFounded, WFMin
<1>3. PICK m \in S : \A q \in S : <<above(q), above(m)>> \notin StrictSubsetOrdering(S)
  BY <1>2
<1>4. ASSUME NEW q \in S, q > m PROVE FALSE
  <2>0. (\A r \in S : r \in Int) /\ ~(q > q)
    OBVIOUS
  <2>1. q \in above(m) /\ q \notin above(q)
    BY <1>4, <2>0
  <2>2. above(q) \subseteq above(m)
    <3>1. \A r \in S : r > q => r > m
      BY <1>4, <2>0
    <3> QED BY <3>1
  <2>3. <<above(q), above(m)>> \in StrictSubsetOrdering(S)
    BY <2>1, <2>2 DEF StrictSubsetOrdering
  <2> QED BY <1>3, <2>3
<1> QED
  BY <1>4

\* maxPages is just beyond the last conventional page.
LEMMA HighestPage ==
  ASSUME machine \in Machines, DOMAIN snapshot = Pages
  PROVE  /\ maxPages \in Nat
         /\ \A p \in Conventional(snapshot) : p < maxPages
         /\ maxPages = 0 \/ maxPages - 1 \in Pages
<1> DEFINE S == Conventional(snapshot) \cup {-1}
<1>1. IsFiniteSet(Pages) /\ Pages \subseteq Nat
  BY PagesFacts
<1>2. IsFiniteSet(S) /\ S \in SUBSET Int /\ \A p \in S : p >= -1
  <2>1. Conventional(snapshot) \subseteq Pages
    BY DEF Conventional
  <2>2. IsFiniteSet(Conventional(snapshot))
    BY <1>1, <2>1, FS_Subset
  <2>3. IsFiniteSet(S)
    BY <2>2, FS_AddElement
  <2>4. \A p \in Conventional(snapshot) : p \in Nat
    BY <1>1, <2>1
  <2>5. S \in SUBSET Int /\ \A p \in S : p >= -1
    BY <2>4
  <2> QED BY <2>3, <2>5
<1> DEFINE h == CHOOSE m \in S : \A q \in Conventional(snapshot) : q <= m
<1>3. h \in S /\ \A q \in Conventional(snapshot) : q <= h
  <2>1. \E m \in S : \A q \in S : q <= m
    <3> HIDE DEF S
    <3>1. S # {}
      BY DEF S
    <3> QED BY <1>2, <3>1, Greatest
  <2> QED BY <2>1
<1>4. maxPages = 1 + h
  BY DEF maxPages
<1>5. h \in Int /\ h >= -1 /\ \A q \in Conventional(snapshot) : q \in Int
  BY <1>2, <1>3
<1>6. h = -1 \/ h \in Pages
  BY <1>3 DEF Conventional
<1> HIDE DEF h, S
<1> QED
  BY <1>3, <1>4, <1>5, <1>6

\* A buffer AllocatePool returns covers the bytes asked for and begins in its page.
LEMMA BufferCovers ==
  ASSUME machine \in Machines, NEW n \in Nat, NEW b \in Buffers(n), Available(b),
         DOMAIN type = Pages
  PROVE  /\ b.page \in Nat /\ b.offset = machine.poolHeader /\ b.own \in BOOLEAN
         /\ b.page..(b.page + Ceil(n, EFI_PAGE_SIZE) - 1) \subseteq b.pages
         /\ b.pages \subseteq Pages /\ \A p \in b.pages : p \in Nat /\ p >= b.page
         /\ b.own => b.pages \subseteq Conventional(type)
<1> DEFINE P == EFI_PAGE_SIZE
           h == machine.poolHeader
<1>1. /\ P \in Nat \ {0} /\ h \in 0..(P - 1)
      /\ Pages \subseteq Nat /\ machine.pool \subseteq Nat /\ machine.pool \subseteq Pages
  BY PagesFacts, MachinesAssumption DEF Pages
<1>2. Ceil(n, P) \in Nat /\ Ceil(h + n, P) \in Nat /\ Ceil(n, P) <= Ceil(h + n, P)
  BY <1>1, CeilFacts
<1>3. b.own => b.pages \subseteq Conventional(type) /\ b.pages \subseteq Pages
  BY DEF Available, Conventional
<1>4. CASE \E p \in Pages : b = [page |-> p, offset |-> h,
                                 pages |-> p..(p + Ceil(h + n, P) - 1), own |-> TRUE]
  <2>1. PICK p \in Pages : b = [page |-> p, offset |-> h,
                                pages |-> p..(p + Ceil(h + n, P) - 1), own |-> TRUE]
    BY <1>4
  <2>2. b.page = p /\ b.offset = h /\ b.own = TRUE /\ b.pages = p..(p + Ceil(h + n, P) - 1)
    BY <2>1
  <2> HIDE DEF P, h
  <2>3. p \in Nat
    BY <1>1
  <2>4. p..(p + Ceil(n, P) - 1) \subseteq p..(p + Ceil(h + n, P) - 1)
    BY <1>2, <2>3
  <2>5. \A q \in p..(p + Ceil(h + n, P) - 1) : q \in Nat /\ q >= p
    BY <1>2, <2>3
  <2>6. \A q \in b.pages : q \in Nat /\ q >= b.page
    BY <2>2, <2>5
  <2>7. b.page..(b.page + Ceil(n, P) - 1) \subseteq b.pages
    BY <2>2, <2>4
  <2> QED BY <1>3, <2>2, <2>3, <2>6, <2>7 DEF P, h
<1>5. CASE \E p \in machine.pool : b = [page |-> p, offset |-> h, pages |-> {p}, own |-> FALSE]
                                   /\ h + n <= P
  <2>1. PICK p \in machine.pool :
          b = [page |-> p, offset |-> h, pages |-> {p}, own |-> FALSE] /\ h + n <= P
    BY <1>5
  <2>2. b.page = p /\ b.offset = h /\ b.own = FALSE /\ b.pages = {p}
    BY <2>1
  <2>3. n + P - 1 \in Int /\ n + P - 1 <= 2 * P - 1
    BY <1>1, <2>1
  <2>4. P * Ceil(n, P) <= n + P - 1
    BY <1>1, <2>3, Quotient DEF Ceil
  <2> HIDE DEF P, h
  <2>5. Ceil(n, P) <= 1
    <3> SUFFICES ASSUME Ceil(n, P) >= 2 PROVE FALSE
      BY <1>2
    <3>1. P * Ceil(n, P) >= P * 2
      BY <1>1, <1>2
    <3> QED BY <1>1, <1>2, <2>3, <2>4, <3>1
  <2>6. p \in Nat
    BY <1>1
  <2>7. p..(p + Ceil(n, P) - 1) \subseteq {p}
    BY <1>2, <2>5, <2>6
  <2>8. \A q \in b.pages : q \in Nat /\ q >= b.page
    BY <2>2, <2>6
  <2>9. b.page..(b.page + Ceil(n, P) - 1) \subseteq b.pages
    BY <2>2, <2>7
  <2> QED BY <1>1, <2>2, <2>6, <2>8, <2>9 DEF P, h
<1> QED
  BY <1>4, <1>5 DEF Buffers

------------------------------------------------------------------------------
(* The inductive invariant, in parts.                                      *)

Stages == {"tables", "query", "allocate", "read", "bitmap", "fill", "free", "exit",
           "kernel", "halted"}

HaveFirst  == pc \in {"bitmap", "fill", "free"} \/ round = 2
HaveBitmap == pc \in {"fill", "free"} \/ round = 2
BitmapMade == pc = "free" \/ round = 2

\* The steps are taken in two rounds, in pages the machine has.
ControlInv ==
  /\ machine \in Machines /\ key \in Nat /\ events \in Nat
  /\ pc \in Stages /\ round \in {1, 2}
  /\ pc \in {"tables", "bitmap", "fill", "free"} => round = 1
  /\ pc \in {"exit", "kernel"} => round = 2
  /\ DOMAIN type = Pages /\ taken \subseteq Pages

\* The key is never ahead of the firmware's, and equal keys mean equal maps.
KeyInv ==
  /\ pc = "exit" => mapKey \in Nat /\ mapKey <= key
  /\ pc = "exit" /\ mapKey = key => snapshot = type
  /\ pc = "exit" /\ events = 0 => mapKey = key
  /\ pc = "kernel" => snapshot = type

\* Undisturbed, the size query answers the size the map still has.
SizeInv ==
  /\ pc \in {"tables", "query", "allocate"} => memMap = NoBuffer
  /\ pc = "allocate" /\ events = 0 => mapSize = Size(type)
  /\ pc = "read" /\ events = 0 /\ ~memMap.own => mapSize = Size(type)

\* Free memory of the first map is in use now only for a known reason.
DriftInv ==
  HaveFirst =>
    /\ DOMAIN first = Pages
    /\ pc \in {"bitmap", "fill"} => snapshot = first
    /\ \A p \in Pages :
         first[p] = "Conventional" =>
           \/ type[p] = "Conventional"
           \/ p \in taken
           \/ memMap.own /\ p \in memMap.pages
           \/ p \in bitmap.pages

\* The bitmap's buffer holds its bytes, and its bits follow the first map.
BitmapInv ==
  /\ HaveBitmap =>
       /\ pageBitmapBytes \in Nat /\ bitmap.page \in Nat /\ bitmap.offset = machine.poolHeader
       /\ bitmap.page..(bitmap.page + Ceil(pageBitmapBytes, EFI_PAGE_SIZE) - 1)
            \subseteq bitmap.pages
       /\ bitmap.pages \subseteq Pages /\ \A p \in bitmap.pages : p >= bitmap.page
  /\ pc = "fill" => pageBitmapBytes = bytes
  /\ BitmapMade =>
       /\ clear \subseteq Conventional(first)
       /\ clear \cap (bitmap.page..(bitmap.page + Ceil(pageBitmapBytes, EFI_PAGE_SIZE) - 1)) = {}
  /\ pc # "halted" /\ ~HaveBitmap => bitmap.pages = {}
  /\ pc # "halted" /\ ~BitmapMade => outside = {}

IInv == ControlInv /\ KeyInv /\ SizeInv /\ DriftInv /\ BitmapInv /\ MarksLandInBitmap

LEMMA InitInv == Init => IInv
BY MachinesAssumption
DEF Init, IInv, ControlInv, KeyInv, SizeInv, DriftInv, BitmapInv, MarksLandInBitmap, Stages,
    HaveFirst, HaveBitmap, BitmapMade, Pages, NoBuffer, NoMap

\* The size of a memory map is decided by its pages and their types.
LEMMA SizeExtensional ==
  ASSUME machine \in Machines,
         NEW f, NEW g, DOMAIN f = Pages, DOMAIN g = Pages, \A p \in Pages : f[p] = g[p]
  PROVE  Size(f) = Size(g)
<1> DEFINE Begins(h) == {p \in DOMAIN h : p = 0 \/ h[p - 1] # h[p]}
<1>1. Begins(f) = Begins(g)
  BY PagesFacts
<1> QED
  BY <1>1 DEF Size

\* Each step of the firmware keeps the invariant.
LEMMA FirmwareStep ==
  ASSUME IInv, NEW p, NEW t, FirmwareEvent(p, t), p \in Pages,
         taken' = taken \cup {p} \/ (t = "Conventional" /\ taken' = taken \ {p})
  PROVE  IInv'
<1> USE DEF FirmwareEvent, UnchangedMap, UnchangedBitmap
<1>1. ControlInv'
  BY DEF IInv, ControlInv, Pages
<1>2. KeyInv'
  BY DEF IInv, ControlInv, KeyInv, Stages
<1>3. SizeInv'
  BY DEF IInv, ControlInv, SizeInv
<1>4. DriftInv'
  BY DEF IInv, ControlInv, DriftInv, HaveFirst, Pages
<1>5. BitmapInv' /\ MarksLandInBitmap'
  BY DEF IInv, BitmapInv, MarksLandInBitmap, HaveBitmap, BitmapMade, Touched, Conventional,
         bytes, maxPages, Pages
<1> QED
  BY <1>1, <1>2, <1>3, <1>4, <1>5 DEF IInv

\* Each step of the loader keeps the invariant.
LEMMA LoaderStep ==
  ASSUME IInv, loader
  PROVE  IInv'
<1> USE DEF UnchangedMemory, UnchangedMap, UnchangedBitmap
<1>1. CASE find_tables
  BY <1>1 DEF find_tables, IInv, ControlInv, KeyInv, SizeInv, DriftInv, BitmapInv,
     MarksLandInBitmap, Stages, HaveFirst, HaveBitmap, BitmapMade, Pages, bytes, maxPages,
     Touched, Conventional
<1>2. CASE query_size
  BY <1>2 DEF query_size, IInv, ControlInv, KeyInv, SizeInv, DriftInv, BitmapInv,
     MarksLandInBitmap, Stages, HaveFirst, HaveBitmap, BitmapMade, Pages, bytes, maxPages,
     Touched, Conventional
<1>3. CASE allocate_map
  <2> USE <1>3 DEF allocate_map
  <2>1. PICK b \in Buffers(mapSize) : Available(b) /\ Take(b) /\ memMap' = b
    OBVIOUS
  <2>2. ControlInv'
    BY <2>1 DEF Take, IInv, ControlInv, Stages, Pages
  <2>3. KeyInv'
    BY DEF KeyInv
  <2>4. SizeInv'
    <3>1. ~b.own => Size(type') = Size(type)
      BY <2>1, <2>2, SizeExtensional DEF Take, IInv, ControlInv, Pages
    <3> QED BY <2>1, <3>1 DEF IInv, SizeInv
  <2>5. DriftInv'
    BY <2>1 DEF IInv, ControlInv, SizeInv, DriftInv, HaveFirst, Take, Pages, NoBuffer
  <2>6. BitmapInv' /\ MarksLandInBitmap'
    BY DEF IInv, BitmapInv, MarksLandInBitmap, HaveBitmap, BitmapMade, Touched, Conventional,
           bytes, maxPages, Stages, Pages
  <2> QED
    BY <2>2, <2>3, <2>4, <2>5, <2>6 DEF IInv
<1>4. CASE read_map
  <2> USE <1>4 DEF read_map, reads_map
  <2>1. ControlInv' /\ KeyInv' /\ SizeInv'
    BY DEF IInv, ControlInv, KeyInv, SizeInv, Stages, Pages
  <2>2. DriftInv'
    BY DEF IInv, ControlInv, DriftInv, HaveFirst, Pages
  <2>3. BitmapInv' /\ MarksLandInBitmap'
    BY DEF IInv, ControlInv, BitmapInv, MarksLandInBitmap, HaveBitmap, BitmapMade, Touched,
           Conventional, Stages, Pages
  <2> QED
    BY <2>1, <2>2, <2>3 DEF IInv
<1>5. CASE read_map_fails
  <2> USE <1>5 DEF read_map_fails, FreeMap
  <2>1. ControlInv' /\ KeyInv' /\ SizeInv'
    BY DEF IInv, ControlInv, KeyInv, SizeInv, Stages, Pages
  <2>2. DriftInv'
    BY DEF IInv, ControlInv, DriftInv, HaveFirst, Pages
  <2>3. BitmapInv' /\ MarksLandInBitmap'
    BY DEF IInv, ControlInv, BitmapInv, MarksLandInBitmap, HaveBitmap, BitmapMade, Touched,
           Conventional, Stages, Pages
  <2> QED
    BY <2>1, <2>2, <2>3 DEF IInv
<1>6. CASE allocate_bitmap
  <2> USE <1>6 DEF allocate_bitmap
  <2>1. PICK b \in Buffers(bytes) : Available(b) /\ Take(b) /\ bitmap' = b
    OBVIOUS
  <2>2. bytes \in Nat
    BY HighestPage, CeilFacts, MachinesAssumption
    DEF bytes, IInv, ControlInv, DriftInv, HaveFirst
  <2>3. /\ b.page \in Nat /\ b.offset = machine.poolHeader
        /\ b.page..(b.page + Ceil(bytes, EFI_PAGE_SIZE) - 1) \subseteq b.pages
        /\ b.pages \subseteq Pages /\ \A p \in b.pages : p >= b.page
    BY <2>1, <2>2, BufferCovers DEF IInv, ControlInv
  <2>4. ControlInv' /\ KeyInv' /\ SizeInv'
    BY <2>1 DEF Take, IInv, ControlInv, KeyInv, SizeInv, Stages, Pages
  <2>5. DriftInv'
    BY <2>1 DEF Take, IInv, ControlInv, DriftInv, BitmapInv, HaveFirst, HaveBitmap, Pages
  <2>6. BitmapInv'
    BY <2>1, <2>2, <2>3 DEF IInv, ControlInv, BitmapInv, HaveBitmap, BitmapMade, Stages,
       bytes, maxPages, Conventional, Pages
  <2>7. MarksLandInBitmap'
    BY DEF IInv, ControlInv, BitmapInv, MarksLandInBitmap, BitmapMade, Stages
  <2> QED
    BY <2>4, <2>5, <2>6, <2>7 DEF IInv
<1>7. CASE fill_bitmap
  <2> USE <1>7 DEF fill_bitmap, fills_bitmap
  <2>1. ControlInv' /\ KeyInv' /\ SizeInv' /\ DriftInv'
    BY DEF IInv, ControlInv, KeyInv, SizeInv, DriftInv, HaveFirst, Stages, Pages
  <2>2. SetUsedRange(bitmap.page * EFI_PAGE_SIZE + bitmap.offset, pageBitmapBytes)
          = bitmap.page..(bitmap.page + Ceil(pageBitmapBytes, EFI_PAGE_SIZE) - 1)
    <3>1. (bitmap.page * EFI_PAGE_SIZE + bitmap.offset) \div EFI_PAGE_SIZE = bitmap.page
      BY PageOfBuffer, MachinesAssumption DEF IInv, ControlInv, BitmapInv, HaveBitmap
    <3> QED BY <3>1 DEF SetUsedRange
  <2>3. BitmapInv'
    BY <2>2 DEF IInv, ControlInv, DriftInv, HaveFirst, BitmapInv, HaveBitmap, BitmapMade,
       Stages, Marked, Pages
  <2>4. MarksLandInBitmap'
    <3> SUFFICES ASSUME NEW p \in Marked, p >= pageBitmapBytes * PER_BYTE
                 PROVE  \/ p \in Touched(machine.imageBase, machine.imageSize)
                        \/ p \in Touched(machine.kernelBase, machine.kernelSize)
                        \/ p \in Touched(machine.frameBufferBase, machine.frameBufferSize)
                        \/ p \in bitmap.pages /\ first[p] # "Conventional"
                        \/ p = 0 /\ Conventional(first) = {}
      BY DEF IInv, MarksLandInBitmap, Touched, Conventional
    <3>1. snapshot = first /\ pageBitmapBytes = bytes /\ DOMAIN snapshot = Pages
      BY DEF IInv, DriftInv, BitmapInv, HaveFirst
    <3>2. maxPages \in Nat /\ \A q \in Conventional(first) : q < maxPages
      BY <3>1, HighestPage DEF IInv, ControlInv
    <3>3. pageBitmapBytes \in Nat /\ maxPages <= PER_BYTE * pageBitmapBytes
      BY <3>1, <3>2, CeilFacts, MachinesAssumption DEF bytes
    <3>4. p \in Conventional(first) => FALSE
      <4>1. p \in Conventional(first) => p \in Nat
        BY <3>1, PagesFacts DEF Conventional, IInv, ControlInv
      <4>2. pageBitmapBytes * PER_BYTE = PER_BYTE * pageBitmapBytes
        BY <3>3, MachinesAssumption
      <4> QED BY <3>2, <3>3, <4>1, <4>2, MachinesAssumption
    <3>5. CASE p \in SetUsedRange(machine.imageBase, machine.imageSize)
      BY <3>5, MarksWhatIsTouched, MachinesAssumption DEF IInv, ControlInv
    <3>6. CASE p \in SetUsedRange(machine.kernelBase, machine.kernelSize)
      BY <3>6, MarksWhatIsTouched, MachinesAssumption DEF IInv, ControlInv
    <3>7. CASE p \in SetUsedRange(machine.frameBufferBase, machine.frameBufferSize)
      BY <3>7, MarksWhatIsTouched, MachinesAssumption DEF IInv, ControlInv
    <3>8. CASE p = 0
      <4>1. pageBitmapBytes = 0
        BY <3>3, <3>8, MachinesAssumption
      <4>2. maxPages = 0
        BY <3>2, <3>3, <4>1, MachinesAssumption
      <4>3. \A q \in Conventional(first) : q \in Nat
        BY <3>1, PagesFacts DEF Conventional, IInv, ControlInv
      <4> QED BY <3>2, <3>8, <4>2, <4>3
    <3>9. CASE p \in SetUsedRange(bitmap.page * EFI_PAGE_SIZE + bitmap.offset, pageBitmapBytes)
      <4>1. p \in bitmap.pages /\ p \in Pages
        BY <2>2, <3>9 DEF IInv, BitmapInv, HaveBitmap
      <4> QED BY <3>1, <3>4, <4>1 DEF Conventional
    <3> QED
      BY <3>5, <3>6, <3>7, <3>8, <3>9 DEF Marked, MarkedRanges
  <2> QED
    BY <2>1, <2>3, <2>4 DEF IInv
<1>8. CASE free_map
  <2> USE <1>8 DEF free_map, FreeMap
  <2>1. ControlInv' /\ KeyInv' /\ SizeInv'
    BY DEF IInv, ControlInv, KeyInv, SizeInv, Stages, Pages
  <2>2. DriftInv'
    BY DEF IInv, ControlInv, DriftInv, HaveFirst, Pages, NoBuffer
  <2>3. BitmapInv' /\ MarksLandInBitmap'
    BY DEF IInv, ControlInv, BitmapInv, MarksLandInBitmap, HaveBitmap, BitmapMade, Touched,
           Conventional, Stages, Pages
  <2> QED
    BY <2>1, <2>2, <2>3 DEF IInv
<1>9. CASE exit_boot_services
  BY <1>9 DEF exit_boot_services, exits, IInv, ControlInv, KeyInv, SizeInv, DriftInv, BitmapInv,
     MarksLandInBitmap, Stages, HaveFirst, HaveBitmap, BitmapMade, Pages, Touched, Conventional
<1>10. CASE exit_boot_services_fails
  BY <1>10 DEF exit_boot_services_fails, exits, IInv, ControlInv, KeyInv, SizeInv, DriftInv,
     BitmapInv, MarksLandInBitmap, Stages, HaveFirst, HaveBitmap, BitmapMade, Pages, Touched,
     Conventional
<1>11. CASE out_of_resources
  <2> USE <1>11 DEF out_of_resources
  <2>1. ControlInv' /\ KeyInv' /\ SizeInv'
    BY DEF IInv, ControlInv, KeyInv, SizeInv, Stages, Pages
  <2>2. DriftInv'
    BY DEF IInv, ControlInv, DriftInv, HaveFirst, Pages
  <2>3. BitmapInv' /\ MarksLandInBitmap'
    BY DEF IInv, ControlInv, BitmapInv, MarksLandInBitmap, HaveBitmap, BitmapMade, Touched,
           Conventional, Stages, Pages
  <2> QED
    BY <2>1, <2>2, <2>3 DEF IInv
<1> QED
  BY <1>1, <1>2, <1>3, <1>4, <1>5, <1>6, <1>7, <1>8, <1>9,
     <1>10, <1>11 DEF loader

LEMMA StepInv == IInv /\ [Next]_vars => IInv'
<1> SUFFICES ASSUME IInv, [Next]_vars PROVE IInv'
  OBVIOUS
<1>1. CASE loader
  BY <1>1, LoaderStep
<1>2. CASE FirmwareAllocates
  <2>1. PICK p \in Conventional(type), t \in EventTypes :
          FirmwareEvent(p, t) /\ taken' = taken \cup {p}
    BY <1>2 DEF FirmwareAllocates
  <2>2. p \in Pages
    BY DEF Conventional, IInv, ControlInv
  <2> QED BY <2>1, <2>2, FirmwareStep
<1>3. CASE FirmwareFrees
  <2>1. PICK p \in taken : FirmwareEvent(p, "Conventional") /\ taken' = taken \ {p}
    BY <1>3 DEF FirmwareFrees
  <2>2. p \in Pages
    BY DEF IInv, ControlInv
  <2> QED BY <2>1, <2>2, FirmwareStep
<1>4. CASE Stopped \/ UNCHANGED vars
  <2>1. UNCHANGED vars
    BY <1>4 DEF Stopped
  <2> USE <2>1 DEF vars
  <2>2. ControlInv' /\ KeyInv'
    BY DEF IInv, ControlInv, KeyInv, Pages, Stages
  <2>3. SizeInv'
    BY DEF IInv, SizeInv
  <2>4. DriftInv'
    BY DEF IInv, DriftInv, HaveFirst, Pages
  <2>5. BitmapInv' /\ MarksLandInBitmap'
    BY DEF IInv, BitmapInv, MarksLandInBitmap, HaveBitmap, BitmapMade, Pages, bytes, maxPages,
           Touched, Conventional
  <2> QED
    BY <2>2, <2>3, <2>4, <2>5 DEF IInv
<1> QED
  BY <1>1, <1>2, <1>3, <1>4 DEF Next

LEMMA Invariance == Spec => []IInv
BY InitInv, StepInv, PTL DEF Spec

------------------------------------------------------------------------------
(* What follows for the kernel.                                            *)

\* The memory map the kernel reads is the one boot services ended with
\* (Loader.c:481-495): ExitBootServices accepts no older key.
THEOREM MapIsCurrent == Spec => []HandoffMapIsCurrent
<1>1. IInv => HandoffMapIsCurrent
  BY DEF IInv, KeyInv, HandoffMapIsCurrent, HandedOver
<1> QED
  BY Invariance, <1>1, PTL

\* A clear page in use now was taken in one of three ways.
LEMMA ClearPages == IInv => ClearPagesInUse
<1> SUFFICES ASSUME IInv, HandedOver, NEW p \in clear, p \notin Conventional(type)
             PROVE  \/ memMap.own /\ p \in memMap.pages
                    \/ p \in taken /\ first[p] = "Conventional"
                    \/ /\ p \in bitmap.pages
                       /\ p >= bitmap.page + Ceil(pageBitmapBytes, EFI_PAGE_SIZE)
  BY DEF ClearPagesInUse
<1>1. round = 2 /\ DOMAIN type = Pages /\ machine \in Machines
  BY DEF HandedOver, IInv, ControlInv
<1>2. p \in Pages /\ first[p] = "Conventional" /\ type[p] # "Conventional"
  BY <1>1 DEF IInv, DriftInv, BitmapInv, BitmapMade, HaveFirst, Conventional
<1>3. (memMap.own /\ p \in memMap.pages) \/ p \in taken \/ p \in bitmap.pages
  BY <1>1, <1>2 DEF IInv, DriftInv, HaveFirst
<1>4. ASSUME p \in bitmap.pages
      PROVE  p >= bitmap.page + Ceil(pageBitmapBytes, EFI_PAGE_SIZE)
  <2>1. /\ bitmap.page \in Nat /\ p \in Nat /\ p >= bitmap.page
        /\ p \notin bitmap.page..(bitmap.page + Ceil(pageBitmapBytes, EFI_PAGE_SIZE) - 1)
        /\ pageBitmapBytes \in Nat
    BY <1>1, <1>4, PagesFacts DEF IInv, BitmapInv, HaveBitmap, BitmapMade
  <2>2. Ceil(pageBitmapBytes, EFI_PAGE_SIZE) \in Nat
    BY <2>1, CeilFacts, MachinesAssumption
  <2> QED BY <2>1, <2>2
<1> QED BY <1>2, <1>3, <1>4

\* The pages the bitmap wrongly calls free are those three kinds, for every
\* machine, wherever buffers are allocated and whatever the firmware does
\* (Loader.c:469, 285).
THEOREM ClearPagesKnown == Spec => []ClearPagesInUse
BY Invariance, ClearPages, PTL

\* However long the bitmap is, the bits set beyond its end belong to the image, the
\* kernel or the frame buffer, whose ranges SetUsedRange (Loader.c:285) marks without a
\* look at that end, to the bitmap's own buffer where it was not conventional memory, or
\* to page 0 when there was none; all other marks land in it.
THEOREM MarksBounded == Spec => []MarksLandInBitmap
<1>1. IInv => MarksLandInBitmap
  BY DEF IInv
<1> QED
  BY Invariance, <1>1, PTL

\* The loader halts only without memory or a table, at the read of a map that its own
\* AllocatePool (Loader.c:226) or the firmware has lengthened, or at an exit (Loader.c:490)
\* before which the firmware allocated: it never makes its own key stale.
THEOREM HaltCaused == Spec => HaltHasCause
<1> DEFINE Cause ==
      pc' = "halted" /\ pc # "halted" =>
        \/ pc = "tables"
        \/ pc \in {"allocate", "bitmap"}
        \/ pc = "read" /\ (events > 0 \/ memMap.own)
        \/ pc = "exit" /\ events > 0
<1>1. IInv /\ [Next]_vars => Cause
  <2> SUFFICES ASSUME IInv, [Next]_vars, pc' = "halted", pc # "halted" PROVE Cause
    OBVIOUS
  <2>1. CASE read_map_fails
    <3>1. Size(type) > mapSize /\ pc = "read"
      BY <2>1 DEF read_map_fails
    <3>2. Size(type) \in Nat
      <4>1. IsFiniteSet(DOMAIN type)
        BY PagesFacts DEF IInv, ControlInv
      <4> DEFINE begins == {p \in DOMAIN type : p = 0 \/ type[p - 1] # type[p]}
      <4>2. IsFiniteSet(begins)
        BY <4>1, FS_Subset
      <4>3. Cardinality(begins) \in Nat
        BY <4>2, FS_CardinalityType
      <4> HIDE DEF begins
      <4>4. DESCRIPTOR * Cardinality(begins) \in Nat
        BY <4>3, MachinesAssumption
      <4> QED BY <4>4 DEF begins, Size
    <3>3. events \in Nat /\ (events = 0 /\ ~memMap.own => mapSize = Size(type))
      BY <3>1 DEF IInv, ControlInv, SizeInv
    <3> QED BY <3>1, <3>2, <3>3
  <2>2. CASE exit_boot_services_fails
    BY <2>2 DEF exit_boot_services_fails, exits, IInv, ControlInv, KeyInv
  <2>3. CASE find_tables \/ out_of_resources
    BY <2>3 DEF find_tables, out_of_resources
  <2>4. CASE query_size \/ allocate_map \/ read_map \/ allocate_bitmap \/ fill_bitmap
             \/ free_map \/ exit_boot_services
    BY <2>4 DEF query_size, allocate_map, read_map, reads_map, allocate_bitmap, fill_bitmap,
       fills_bitmap, free_map, exit_boot_services, exits
  <2>5. CASE FirmwareAllocates \/ FirmwareFrees \/ Stopped \/ UNCHANGED vars
    BY <2>5 DEF FirmwareAllocates, FirmwareFrees, FirmwareEvent, Stopped, vars
  <2> QED
    BY <2>1, <2>2, <2>3, <2>4, <2>5 DEF Next, loader
<1>2. IInv /\ [Next]_vars => [Cause]_vars
  BY <1>1
<1> QED
  BY Invariance, <1>1, <1>2, PTL DEF Spec, HaltHasCause

------------------------------------------------------------------------------
(* The kernel in the memory the loader leaves.                             *)

Bitmaps(n) == [0..(n - 1) -> SUBSET (0..7)]

Placed(base, size) ==
  \/ base % EFI_PAGE_SIZE = 0
  \/ \A p \in Touched(base, size) \cap Pages : machine.memory[p] # "Conventional"

\* What the firmware had given away before the loader's first call stays in use.
GivenInv ==
  /\ \A p \in Pages :
       machine.memory[p] # "Conventional" =>
         /\ type[p] # "Conventional" /\ p \notin taken
         /\ memMap.own => p \notin memMap.pages
         /\ HaveFirst => first[p] # "Conventional"
  /\ memMap.pages \subseteq Pages /\ (~memMap.own => memMap.pages \subseteq machine.pool)

\* The bitmap's buffer ends with the bitmap, and the bitmap fits the allocator's
\* bound.  No page whose bit is clear is one the loader marked.
ExtentInv ==
  /\ HaveBitmap =>
       /\ \A p \in bitmap.pages :
            p = bitmap.page
              \/ p < bitmap.page + Ceil(bitmap.offset + pageBitmapBytes, EFI_PAGE_SIZE)
       /\ pageBitmapBytes * 8 <= MaxPages
  /\ BitmapMade => clear \cap Marked = {}

LoaderInv == IInv /\ GivenInv /\ ExtentInv

\* A page of the bitmap that SetUsedRange did not count was handed out.
Lost == BitmapCrosses /\ cleared \cap BitmapPages # {}

Sound ==
  /\ info = BootInfo /\ bits \in Bitmaps(pageBitmapBytes)
  /\ g_max_pages = IF g_bitmap = 0 THEN 0 ELSE pageBitmapBytes * 8
  /\ g_bitmap = 0 => held = {}
  /\ Ppa!CountMatchesBitmap /\ Ppa!PagesConserved
  /\ foreign = {} /\ cleared \subseteq held
  /\ kernel \in {"alloc", "zero"} => g_bitmap # 0
  /\ kernel = "zero" => PageOf(last.res) \in held

KernelInv ==
  /\ kernel \in {"off", "entry", "alloc", "zero", "stopped"}
  /\ kernel # "off" => pc = "kernel"
  /\ kernel \in {"off", "entry"} =>
       /\ g_bitmap = 0 /\ g_max_pages = 0 /\ g_free_pages = 0
       /\ held = {} /\ foreign = {} /\ cleared = {}
  /\ kernel = "entry" => info = BootInfo /\ bits = Filled
  /\ kernel \in {"alloc", "zero", "stopped"} => Sound \/ Lost

BootInv == LoaderInv /\ KernelInv

------------------------------------------------------------------------------
(* The loader keeps its part.                                              *)

LEMMA InitLoader == Init => LoaderInv
<1> SUFFICES ASSUME Init PROVE LoaderInv
  OBVIOUS
<1>1. IInv
  BY InitInv
<1>2. GivenInv
  BY DEF Init, GivenInv, NoBuffer, HaveFirst
<1>3. ExtentInv
  BY DEF Init, ExtentInv, HaveBitmap, BitmapMade
<1> QED
  BY <1>1, <1>2, <1>3 DEF LoaderInv

\* The firmware takes and gives back only what was free as the loader began.
LEMMA GivenByFirmware ==
  ASSUME LoaderInv, FirmwareAllocates \/ FirmwareFrees
  PROVE  GivenInv'
<1> USE DEF FirmwareEvent, UnchangedMap, UnchangedBitmap
<1>1. DOMAIN type = Pages /\ taken \subseteq Pages
  BY DEF LoaderInv, IInv, ControlInv
<1>2. CASE FirmwareAllocates
  <2>1. PICK p \in Conventional(type), t \in EventTypes :
          FirmwareEvent(p, t) /\ taken' = taken \cup {p}
    BY <1>2 DEF FirmwareAllocates
  <2>2. p \in Pages /\ type[p] = "Conventional"
    BY <1>1 DEF Conventional
  <2> QED
    BY <1>1, <2>1, <2>2 DEF LoaderInv, GivenInv, HaveFirst, Pages
<1>3. CASE FirmwareFrees
  <2>1. PICK p \in taken : FirmwareEvent(p, "Conventional") /\ taken' = taken \ {p}
    BY <1>3 DEF FirmwareFrees
  <2> QED
    BY <1>1, <2>1 DEF LoaderInv, GivenInv, HaveFirst, Pages
<1> QED
  BY <1>2, <1>3

\* What a buffer takes of its own was free.
LEMMA GivenStays ==
  ASSUME LoaderInv, NEW b, Available(b), Take(b), machine' = machine, taken' = taken
  PROVE  \A p \in Pages : machine.memory[p] # "Conventional" =>
           type'[p] # "Conventional" /\ (b.own => p \notin b.pages)
BY DEF LoaderInv, IInv, ControlInv, GivenInv, Available, Take, Conventional

LEMMA GivenByLoader ==
  ASSUME LoaderInv, loader
  PROVE  GivenInv'
<1> USE DEF UnchangedMemory, UnchangedMap, UnchangedBitmap
<1>0. machine \in Machines /\ DOMAIN type = Pages
  BY DEF LoaderInv, IInv, ControlInv
<1>1. CASE find_tables \/ query_size \/ fill_bitmap \/ exit_boot_services
           \/ exit_boot_services_fails \/ out_of_resources
  BY <1>1 DEF find_tables, query_size, fill_bitmap, fills_bitmap, exit_boot_services,
     exit_boot_services_fails, exits, out_of_resources, LoaderInv, GivenInv, HaveFirst, Pages,
     IInv, ControlInv
<1>2. CASE allocate_map
  <2>1. PICK b \in Buffers(mapSize) : Available(b) /\ Take(b) /\ memMap' = b
    BY <1>2 DEF allocate_map
  <2>2. b.own => b.pages \subseteq Pages
    BY <1>0, <2>1 DEF Available, Conventional
  <2>3. ~b.own => b.pages \subseteq machine.pool
    BY <2>1 DEF Buffers
  <2>4. machine.pool \subseteq Pages
    BY <1>0, MachinesAssumption DEF Pages
  <2>5. machine' = machine /\ taken' = taken
    BY <1>2 DEF allocate_map
  <2>6. \A p \in Pages : machine.memory[p] # "Conventional" =>
          type'[p] # "Conventional" /\ (b.own => p \notin b.pages)
    BY <2>1, <2>5, GivenStays
  <2>7. HaveFirst' => HaveFirst /\ first' = first
    BY <1>2 DEF allocate_map, HaveFirst
  <2> QED
    BY <1>2, <2>1, <2>2, <2>3, <2>4, <2>5, <2>6, <2>7 DEF LoaderInv, GivenInv, Pages
<1>3. CASE read_map
  BY <1>0, <1>3 DEF read_map, reads_map, LoaderInv, GivenInv, HaveFirst, Pages, IInv, ControlInv
<1>4. CASE read_map_fails \/ free_map
  <2>1. HaveFirst' => HaveFirst /\ first' = first
    BY <1>4 DEF read_map_fails, free_map, HaveFirst
  <2> QED
    BY <1>0, <1>4, <2>1 DEF read_map_fails, free_map, FreeMap, LoaderInv, GivenInv, Pages, NoBuffer
<1>5. CASE allocate_bitmap
  <2>1. PICK b \in Buffers(bytes) : Available(b) /\ Take(b) /\ bitmap' = b
    BY <1>5 DEF allocate_bitmap
  <2>2. machine' = machine /\ taken' = taken
    BY <1>5 DEF allocate_bitmap
  <2>3. \A p \in Pages : machine.memory[p] # "Conventional" => type'[p] # "Conventional"
    BY <2>1, <2>2, GivenStays
  <2>4. HaveFirst' => HaveFirst /\ first' = first
    BY <1>5 DEF allocate_bitmap, HaveFirst
  <2> QED
    BY <1>5, <2>2, <2>3, <2>4 DEF allocate_bitmap, LoaderInv, GivenInv, Pages
<1> QED
  BY <1>1, <1>2, <1>3, <1>4, <1>5 DEF loader

LEMMA ExtentByLoader ==
  ASSUME LoaderInv, loader
  PROVE  ExtentInv'
<1> USE DEF UnchangedMemory, UnchangedMap, UnchangedBitmap
<1>0. machine \in Machines /\ DOMAIN type = Pages
  BY DEF LoaderInv, IInv, ControlInv
<1>1. CASE find_tables \/ query_size \/ allocate_map \/ read_map \/ read_map_fails \/ free_map
           \/ exit_boot_services \/ exit_boot_services_fails \/ out_of_resources
  <2>1. /\ UNCHANGED <<machine, bitmap, pageBitmapBytes, clear>>
        /\ HaveBitmap' => HaveBitmap
        /\ BitmapMade' => BitmapMade
    BY <1>1 DEF find_tables, query_size, allocate_map, read_map, reads_map, read_map_fails,
       free_map, exit_boot_services, exit_boot_services_fails, exits, out_of_resources,
       HaveBitmap, BitmapMade
  <2> QED
    BY <2>1 DEF LoaderInv, ExtentInv, Marked, MarkedRanges
<1>2. CASE allocate_bitmap
  <2>1. PICK b \in Buffers(bytes) : Available(b) /\ Take(b) /\ bitmap' = b
    BY <1>2 DEF allocate_bitmap
  <2>2. /\ pageBitmapBytes' = bytes /\ bitmap' = b /\ machine' = machine
        /\ pc = "bitmap" /\ pc' = "fill" /\ clear' = clear /\ round' = round
    BY <1>2, <2>1 DEF allocate_bitmap
  <2>3. DOMAIN snapshot = Pages
    BY <2>2 DEF LoaderInv, IInv, DriftInv, HaveFirst
  <2>4. maxPages \in Nat /\ (maxPages = 0 \/ maxPages - 1 \in Pages) /\ bytes \in Nat
    BY <1>0, <2>3, HighestPage, CeilFacts, MachinesAssumption DEF bytes
  <2>5. bytes * 8 <= MaxPages
    <3>1. /\ Pages = 0..(Cardinality(Pages) - 1) /\ IsFiniteSet(Pages)
          /\ Ceil(Cardinality(Pages), 8) * 8 <= MaxPages /\ PER_BYTE = 8 /\ MaxPages \in Nat
      BY <1>0, MachinesAssumption, BootAssumption DEF Pages
    <3> DEFINE n == Cardinality(Pages)
    <3>2. n \in Nat
      BY <3>1, FS_CardinalityType
    <3>3. Ceil(n, 8) \in Nat
      BY <3>2, CeilFacts
    <3>4. maxPages <= n
      <4> HIDE DEF n
      <4>1. Pages = 0..(n - 1)
        BY <3>1 DEF n
      <4> QED BY <2>4, <3>2, <4>1
    <3>5. bytes <= Ceil(n, 8)
      <4> HIDE DEF n
      <4> QED BY <2>4, <3>1, <3>2, <3>4, CeilFacts DEF bytes
    <3> HIDE DEF n
    <3>6. Ceil(n, 8) * 8 <= MaxPages
      BY <3>1 DEF n
    <3> QED BY <2>4, <3>1, <3>3, <3>5, <3>6
  <2>6. \A p \in b.pages :
          p = b.page \/ p < b.page + Ceil(b.offset + bytes, EFI_PAGE_SIZE)
    <3>1. CASE \E q \in Pages : b = [page |-> q, offset |-> machine.poolHeader,
                 pages |-> q..(q + Ceil(machine.poolHeader + bytes, EFI_PAGE_SIZE) - 1),
                 own |-> TRUE]
      <4>1. machine.poolHeader + bytes \in Nat /\ EFI_PAGE_SIZE \in Nat \ {0}
        BY <1>0, <2>4, MachinesAssumption
      <4>2. Ceil(machine.poolHeader + bytes, EFI_PAGE_SIZE) \in Nat
        BY <4>1, CeilFacts
      <4>3. \A q \in Pages : q \in Nat
        BY <1>0, PagesFacts
      <4> QED BY <3>1, <4>2, <4>3
    <3>2. CASE \E q \in machine.pool :
                 b = [page |-> q, offset |-> machine.poolHeader, pages |-> {q}, own |-> FALSE]
      BY <3>2
    <3> QED BY <2>1, <3>1, <3>2 DEF Buffers
  <2>7. ~BitmapMade'
    <3>1. round = 1
      BY <2>2 DEF LoaderInv, IInv, ControlInv
    <3> QED BY <2>2, <3>1 DEF BitmapMade
  <2> QED
    BY <2>2, <2>5, <2>6, <2>7 DEF ExtentInv
<1>3. CASE fill_bitmap
  <2>1. /\ UNCHANGED <<machine, bitmap, pageBitmapBytes>> /\ HaveBitmap
        /\ clear' = Conventional(snapshot) \ Marked
    BY <1>3 DEF fill_bitmap, fills_bitmap, HaveBitmap
  <2>2. Marked' = Marked
    BY <2>1 DEF Marked, MarkedRanges, SetUsedRange
  <2> QED
    BY <2>1, <2>2 DEF LoaderInv, ExtentInv
<1> QED
  BY <1>1, <1>2, <1>3 DEF loader

LEMMA LoaderKeeps == LoaderInv /\ [Next]_vars => LoaderInv'
<1> SUFFICES ASSUME LoaderInv, [Next]_vars PROVE LoaderInv'
  OBVIOUS
<1>1. IInv'
  BY StepInv DEF LoaderInv
<1>2. CASE loader
  BY <1>1, <1>2, GivenByLoader, ExtentByLoader DEF LoaderInv
<1>3. CASE FirmwareAllocates \/ FirmwareFrees
  <2>1. /\ UNCHANGED <<machine, bitmap, pageBitmapBytes, clear>>
        /\ HaveBitmap' = HaveBitmap /\ BitmapMade' = BitmapMade
    BY <1>3 DEF FirmwareAllocates, FirmwareFrees, FirmwareEvent, UnchangedBitmap, UnchangedMap,
       HaveBitmap, BitmapMade
  <2>2. ExtentInv'
    BY <2>1 DEF LoaderInv, ExtentInv, Marked, MarkedRanges, SetUsedRange
  <2> QED
    BY <1>1, <1>3, <2>2, GivenByFirmware DEF LoaderInv
<1>4. CASE Stopped \/ UNCHANGED vars
  <2>1. UNCHANGED vars
    BY <1>4 DEF Stopped
  <2>2. GivenInv' /\ ExtentInv'
    BY <2>1 DEF vars, LoaderInv, GivenInv, ExtentInv, HaveFirst, HaveBitmap, BitmapMade, Pages,
       Marked, MarkedRanges, SetUsedRange
  <2> QED
    BY <1>1, <2>2 DEF LoaderInv
<1> QED
  BY <1>2, <1>3, <1>4 DEF Next

------------------------------------------------------------------------------
(* The allocator's bits, which are the loader's.                           *)

\* Marking a page takes it, and nothing else, from the clear bits.
LEMMA SetUsedRemoves ==
  ASSUME NEW n \in Nat, NEW bm \in Bitmaps(n), NEW i \in 0..(n * 8 - 1)
  PROVE  /\ Ppa!set_used(bm, i) \in Bitmaps(n)
         /\ Ppa!ClearBits(Ppa!set_used(bm, i), n * 8) = Ppa!ClearBits(bm, n * 8) \ {i}
<1>1. i \div 8 \in 0..(n - 1) /\ i % 8 \in 0..7
  OBVIOUS
<1>2. Ppa!set_used(bm, i) \in Bitmaps(n)
  BY <1>1 DEF Ppa!set_used, Bitmaps
<1>3. ASSUME NEW j \in 0..(n * 8 - 1)
      PROVE  Ppa!is_free(Ppa!set_used(bm, i), j) <=> Ppa!is_free(bm, j) /\ j # i
  <2>1. j \div 8 \in 0..(n - 1) /\ j % 8 \in 0..7
    OBVIOUS
  <2>2. j # i => j \div 8 # i \div 8 \/ j % 8 # i % 8
    OBVIOUS
  <2> QED
    BY <1>1, <2>1, <2>2 DEF Ppa!is_free, Ppa!set_used, Bitmaps
<1> QED
  BY <1>2, <1>3 DEF Ppa!ClearBits

\* The allocator counts with the FiniteSets of its own module.
LEMMA SameCardinality == ASSUME NEW S PROVE Ppa!Cardinality(S) = Cardinality(S)
BY DEF Ppa!Cardinality, Cardinality

\* A bitmap has finitely many clear bits, and no more than bits.
LEMMA ClearBitsFinite ==
  ASSUME NEW bm, NEW n \in Nat
  PROVE  /\ IsFiniteSet(Ppa!ClearBits(bm, n))
         /\ Cardinality(Ppa!ClearBits(bm, n)) \in 0..n
<1>1. IsFiniteSet(0..(n - 1)) /\ Cardinality(0..(n - 1)) = n
  BY FS_Interval
<1>2. Ppa!ClearBits(bm, n) \in SUBSET (0..(n - 1))
  BY DEF Ppa!ClearBits
<1>3. IsFiniteSet(Ppa!ClearBits(bm, n)) /\ Cardinality(Ppa!ClearBits(bm, n)) <= n
  BY <1>1, <1>2, FS_Subset
<1> QED
  BY <1>3, FS_CardinalityType

\* The bytes CreatePageBitmap left are a bitmap, and its clear bits are clear.
LEMMA FilledFacts ==
  ASSUME pageBitmapBytes \in Nat
  PROVE  /\ Filled \in Bitmaps(pageBitmapBytes)
         /\ Ppa!ClearBits(Filled, pageBitmapBytes * 8) \subseteq clear
<1>1. Filled \in Bitmaps(pageBitmapBytes)
  BY DEF Filled, Bitmaps
<1>2. ASSUME NEW i \in 0..(pageBitmapBytes * 8 - 1), Ppa!is_free(Filled, i)
      PROVE  i \in clear
  <2>1. i \div 8 \in 0..(pageBitmapBytes - 1) /\ i % 8 \in 0..7 /\ (i \div 8) * 8 + (i % 8) = i
    OBVIOUS
  <2>2. i % 8 \notin {b \in 0..7 : (i \div 8) * 8 + b \notin clear}
    BY <1>2, <2>1 DEF Ppa!is_free, Filled
  <2> QED BY <2>1, <2>2
<1> QED
  BY <1>1, <1>2 DEF Ppa!ClearBits

\* As the kernel starts, the loader has made its bitmap.
LEMMA BitmapReady ==
  ASSUME LoaderInv, pc = "kernel"
  PROVE  /\ pageBitmapBytes \in Nat /\ pageBitmapBytes * 8 <= MaxPages
         /\ bitmap.page \in Nat /\ bitmap.offset \in 0..(EFI_PAGE_SIZE - 1)
         /\ EFI_PAGE_SIZE \in Nat \ {0} /\ Ceil(pageBitmapBytes, EFI_PAGE_SIZE) \in Nat
         /\ clear \subseteq Conventional(first) /\ clear \subseteq Pages
         /\ \A p \in clear : p \in Nat
         /\ clear \cap (bitmap.page..(bitmap.page + Ceil(pageBitmapBytes, EFI_PAGE_SIZE) - 1)) = {}
<1>1. HaveBitmap /\ BitmapMade /\ HaveFirst /\ machine \in Machines
  BY DEF LoaderInv, IInv, ControlInv, HaveBitmap, BitmapMade, HaveFirst
<1>2. /\ pageBitmapBytes \in Nat /\ pageBitmapBytes * 8 <= MaxPages
      /\ bitmap.page \in Nat /\ bitmap.offset \in 0..(EFI_PAGE_SIZE - 1)
      /\ EFI_PAGE_SIZE \in Nat \ {0}
  BY <1>1, MachinesAssumption DEF LoaderInv, IInv, BitmapInv, ExtentInv
<1>3. /\ clear \subseteq Conventional(first)
      /\ clear \cap (bitmap.page..(bitmap.page + Ceil(pageBitmapBytes, EFI_PAGE_SIZE) - 1)) = {}
  BY <1>1 DEF LoaderInv, IInv, BitmapInv
<1>4. DOMAIN first = Pages /\ Pages \subseteq Nat
  BY <1>1, PagesFacts DEF LoaderInv, IInv, DriftInv
<1> QED
  BY <1>2, <1>3, <1>4, CeilFacts DEF Conventional

\* A page of the bitmap whose bit is clear is the one SetUsedRange did not count.
LEMMA ClearInBitmap ==
  ASSUME LoaderInv, pc = "kernel", NEW p \in clear, p \in BitmapPages
  PROVE  BitmapCrosses
<1> DEFINE E == EFI_PAGE_SIZE
           C == Ceil(pageBitmapBytes, E)
<1>1. PICK k \in 0..(pageBitmapBytes - 1) : p = Address(k) \div E
  BY DEF BitmapPages
<1>2. /\ pageBitmapBytes \in Nat /\ bitmap.page \in Nat /\ bitmap.offset \in Nat
      /\ E \in Nat \ {0} /\ C \in Nat /\ p \in Nat
      /\ p \notin bitmap.page..(bitmap.page + C - 1)
  BY BitmapReady
<1>3. Address(k) = bitmap.page * E + bitmap.offset + k
  BY DEF Address
<1> DEFINE a == Address(k)
<1> HIDE DEF E, C, a
<1>4. a \in Int /\ a = bitmap.page * E + bitmap.offset + k
  BY <1>2, <1>3 DEF a
<1>5. p \in Int /\ E * p <= a /\ a < E * p + E
  <2>1. p = a \div E
    BY <1>1 DEF a, E
  <2> QED BY <1>2, <1>4, <2>1, Quotient
<1>6. p >= bitmap.page
  <2>1. ASSUME p + 1 <= bitmap.page PROVE FALSE
    <3>1. E * (p + 1) <= E * bitmap.page
      BY <1>2, <1>5, <2>1
    <3>2. E * (p + 1) = E * p + E /\ E * bitmap.page = bitmap.page * E
      BY <1>2, <1>5
    <3>3. E * bitmap.page \in Int /\ E * p \in Int
      BY <1>2, <1>5
    <3> QED BY <1>2, <1>4, <1>5, <3>1, <3>2, <3>3
  <2> QED BY <1>2, <1>5, <2>1
<1>7. p >= bitmap.page + C
  BY <1>2, <1>5, <1>6
<1>8. E * p >= E * (bitmap.page + C)
  BY <1>2, <1>5, <1>7
<1>9. E * (bitmap.page + C) = bitmap.page * E + C * E /\ bitmap.page * E \in Int /\ C * E \in Int
  BY <1>2
<1>10. bitmap.offset + pageBitmapBytes > C * E
  BY <1>2, <1>4, <1>5, <1>8, <1>9
<1> QED
  BY <1>10 DEF BitmapCrosses, C, E

------------------------------------------------------------------------------
(* The kernel's steps.                                                     *)

LEMMA InitKernel == KernelInit => BootInv
BY InitLoader DEF KernelInit, BootInv, KernelInv

\* What the allocator adopts is the loader's bitmap with page 0 in use.
LEMMA AdoptStep ==
  ASSUME BootInv, ppa_init
  PROVE  KernelInv'
<1> DEFINE n == pageBitmapBytes
<1>1. /\ kernel = "entry" /\ kernel' = "alloc" /\ pc = "kernel" /\ pc' = pc
      /\ info = BootInfo /\ bits = Filled /\ held = {} /\ foreign = {} /\ cleared = {}
      /\ UNCHANGED <<vars, cleared>>
  BY DEF BootInv, KernelInv, ppa_init, vars
<1>2. /\ info.pageBitmapBase # 0 /\ info.pageBitmapSize # 0
      /\ g_bitmap' = info.pageBitmapBase /\ g_max_pages' = info.pageBitmapSize * 8
      /\ bits' = Ppa!set_used(bits, 0)
      /\ g_free_pages' = Cardinality(Ppa!ClearBits(bits', g_max_pages'))
      /\ UNCHANGED <<info, held, foreign>>
  BY SameCardinality DEF ppa_init, Ppa!init, Ppa!adopt, Ppa!Usable
<1>3. info.pageBitmapSize = n /\ info.bits = Filled
  BY <1>1 DEF BootInfo
<1>4. n \in Nat \ {0} /\ Filled \in Bitmaps(n)
  BY <1>1, <1>2, <1>3, BitmapReady, FilledFacts DEF BootInv
<1>5. /\ bits' \in Bitmaps(n)
      /\ Ppa!ClearBits(bits', n * 8) = Ppa!ClearBits(Filled, n * 8) \ {0}
  <2>1. 0 \in 0..(n * 8 - 1)
    BY <1>4
  <2> QED BY <1>1, <1>2, <1>4, <2>1, SetUsedRemoves
<1>6. Ppa!FreePages' = Ppa!BootFree' /\ 0 \notin Ppa!FreePages'
  <2>1. Ppa!FreePages' = Ppa!ClearBits(bits', n * 8)
    BY <1>2, <1>3 DEF Ppa!FreePages, Ppa!ClearBits, Ppa!is_free
  <2>2. Ppa!BootFree' = Ppa!ClearBits(Filled, n * 8) \ {0}
    BY <1>2, <1>3 DEF Ppa!BootFree, Ppa!ClearBits, Ppa!is_free
  <2> QED BY <1>5, <2>1, <2>2
<1>7. Ppa!CountMatchesBitmap'
  BY <1>2, SameCardinality DEF Ppa!CountMatchesBitmap, Ppa!FreePages, Ppa!ClearBits, Ppa!is_free
<1>8. Ppa!PagesConserved'
  BY <1>1, <1>2, <1>6 DEF Ppa!PagesConserved
<1>9. info' = BootInfo' /\ pageBitmapBytes' = n
  BY <1>1, <1>2 DEF vars, BootInfo, Filled, Address
<1>10. Sound'
  BY <1>1, <1>2, <1>3, <1>5, <1>7, <1>8, <1>9 DEF Sound, Bitmaps
<1> QED
  BY <1>1, <1>10 DEF KernelInv

\* Without a bitmap nothing is handed out.
LEMMA NothingAdopted ==
  ASSUME BootInv, ppa_init_fails
  PROVE  KernelInv'
<1>1. /\ kernel = "entry" /\ kernel' = "stopped" /\ pc = "kernel" /\ pc' = pc
      /\ info = BootInfo /\ bits = Filled /\ held = {} /\ foreign = {} /\ cleared = {}
      /\ g_bitmap = 0 /\ g_max_pages = 0 /\ g_free_pages = 0
      /\ UNCHANGED <<vars, cleared>>
  BY DEF BootInv, KernelInv, ppa_init_fails, vars
<1>2. UNCHANGED <<info, bits, g_bitmap, g_bitmap_bytes, g_max_pages, g_free_pages, held, foreign>>
  BY DEF ppa_init_fails, Ppa!init_fails, Ppa!state
<1>3. Filled \in Bitmaps(pageBitmapBytes)
  BY <1>1, BitmapReady, FilledFacts DEF BootInv
<1>4. info' = BootInfo' /\ pageBitmapBytes' = pageBitmapBytes
  BY <1>1, <1>2 DEF vars, BootInfo, Filled, Address
<1>5. Ppa!CountMatchesBitmap'
  <2>1. Ppa!FreePages' = {}
    BY <1>1, <1>2 DEF Ppa!FreePages, Ppa!ClearBits
  <2> QED BY <1>1, <1>2, <2>1, FS_EmptySet, SameCardinality DEF Ppa!CountMatchesBitmap
<1>6. Ppa!PagesConserved'
  BY <1>1, <1>2 DEF Ppa!PagesConserved, Ppa!nullptr
<1>7. Sound'
  BY <1>1, <1>2, <1>3, <1>4, <1>5, <1>6 DEF Sound, Bitmaps
<1> QED
  BY <1>1, <1>7 DEF KernelInv

\* Lost stays lost: the loader is gone, and no page is taken back.
LEMMA LostStays ==
  ASSUME Lost, UNCHANGED vars, cleared \subseteq cleared'
  PROVE  Lost'
BY DEF Lost, vars, BitmapCrosses, BitmapPages, Address

\* The lowest clear bit is marked, and its page is one the loader left free.
LEMMA TakeStep ==
  ASSUME BootInv, take_page
  PROVE  KernelInv'
<1> DEFINE n == pageBitmapBytes
<1>1. kernel = "alloc" /\ kernel' = "zero" /\ pc = "kernel" /\ pc' = pc /\ UNCHANGED <<vars, cleared>>
  BY DEF BootInv, KernelInv, take_page, vars
<1>2. CASE Lost
  BY <1>1, <1>2, LostStays DEF KernelInv
<1>3. CASE Sound
  <2>1. PICK i \in Ppa!FreePages :
          /\ g_bitmap # 0 /\ bits' = Ppa!set_used(bits, i)
          /\ g_free_pages' = (g_free_pages - 1) % U64
          /\ held' = held \cup {i} /\ last'.res = i * 4096
          /\ UNCHANGED <<info, g_bitmap, g_bitmap_bytes, g_max_pages, foreign>>
    BY DEF take_page, Ppa!alloc, Ppa!nullptr, Ppa!Answer, Ppa!PAGE_SIZE
  <2>2. /\ n \in Nat /\ n * 8 <= MaxPages /\ g_max_pages = n * 8 /\ bits \in Bitmaps(n)
        /\ i \in 0..(n * 8 - 1)
    BY <1>1, <1>3, <2>1, BitmapReady DEF BootInv, Sound, Ppa!FreePages, Ppa!ClearBits
  <2>3. bits' \in Bitmaps(n) /\ Ppa!FreePages' = Ppa!FreePages \ {i}
    <3>1. /\ bits' \in Bitmaps(n)
          /\ Ppa!ClearBits(bits', n * 8) = Ppa!ClearBits(bits, n * 8) \ {i}
      BY <2>1, <2>2, SetUsedRemoves
    <3>2. Ppa!FreePages' = Ppa!ClearBits(bits', n * 8)
      BY <2>1, <2>2 DEF Ppa!FreePages, Ppa!ClearBits, Ppa!is_free
    <3> QED BY <2>2, <3>1, <3>2 DEF Ppa!FreePages
  <2>4. Ppa!CountMatchesBitmap'
    <3> DEFINE F == Ppa!FreePages
    <3>1. IsFiniteSet(F) /\ Cardinality(F) \in 0..(n * 8)
      BY <2>2, ClearBitsFinite DEF Ppa!FreePages
    <3>2. Cardinality(F \ {i}) = Cardinality(F) - 1
      <4> HIDE DEF F
      <4>1. i \in F
        BY <2>1 DEF F
      <4> QED BY <3>1, <4>1, FS_RemoveElement
    <3>3. IsFiniteSet(F \ {i}) /\ Cardinality(F \ {i}) \in Nat
      <4> HIDE DEF F
      <4> QED BY <3>1, FS_RemoveElement, FS_CardinalityType
    <3>4. g_free_pages = Cardinality(F)
      BY <1>3, SameCardinality DEF Sound, Ppa!CountMatchesBitmap
    <3> HIDE DEF F
    <3> DEFINE c == Cardinality(F)  d == Cardinality(F \ {i})
    <3> HIDE DEF c, d
    <3>5. c \in 0..(n * 8) /\ d = c - 1 /\ d \in Nat /\ g_free_pages = c
      BY <3>1, <3>2, <3>3, <3>4 DEF c, d
    <3>6. d < U64 /\ U64 \in Nat
      BY <2>2, <3>5, BootAssumption
    <3>7. g_free_pages' = d
      BY <2>1, <3>5, <3>6
    <3> QED BY <2>3, <3>7, SameCardinality DEF d, F, Ppa!CountMatchesBitmap
  <2>5. Ppa!BootFree' = Ppa!BootFree
    BY <2>1 DEF Ppa!BootFree, Ppa!ClearBits, Ppa!is_free
  <2>6. Ppa!PagesConserved'
    BY <1>3, <2>1, <2>3, <2>5 DEF Sound, Ppa!PagesConserved, Ppa!nullptr
  <2>7. info' = BootInfo' /\ pageBitmapBytes' = n
    BY <1>1, <1>3, <2>1 DEF Sound, vars, BootInfo, Filled, Address
  <2>8. PageOf(last.res)' \in held'
    <3>1. (i * 4096) \div 4096 = i
      BY <2>2
    <3> QED BY <2>1, <3>1 DEF PageOf, Ppa!PAGE_SIZE
  <2>9. Sound'
    BY <1>1, <1>3, <2>1, <2>2, <2>3, <2>4, <2>6, <2>7, <2>8 DEF Sound, Bitmaps
  <2> QED
    BY <1>1, <2>9 DEF KernelInv
<1> QED
  BY <1>1, <1>2, <1>3 DEF BootInv, KernelInv

\* The allocator that finds nothing changes nothing.
LEMMA NothingTaken ==
  ASSUME BootInv, no_page_left
  PROVE  KernelInv'
<1>1. /\ kernel = "alloc" /\ kernel' = "stopped" /\ pc = "kernel" /\ pc' = pc
      /\ UNCHANGED <<vars, cleared>>
      /\ UNCHANGED <<info, bits, g_bitmap, g_bitmap_bytes, g_max_pages, g_free_pages, held, foreign>>
  BY DEF BootInv, KernelInv, no_page_left, Ppa!alloc_fails, Ppa!state, vars
<1>2. CASE Lost
  BY <1>1, <1>2, LostStays DEF KernelInv
<1>3. CASE Sound
  <2>1. info' = BootInfo' /\ pageBitmapBytes' = pageBitmapBytes
    BY <1>1, <1>3 DEF Sound, vars, BootInfo, Filled, Address
  <2>2. Ppa!CountMatchesBitmap' /\ Ppa!PagesConserved'
    BY <1>1, <1>3 DEF Sound, Ppa!CountMatchesBitmap, Ppa!PagesConserved, Ppa!FreePages,
       Ppa!BootFree, Ppa!ClearBits, Ppa!is_free, Ppa!nullptr
  <2>3. Sound'
    BY <1>1, <1>3, <2>1, <2>2 DEF Sound, Bitmaps
  <2> QED BY <1>1, <2>3 DEF KernelInv
<1> QED
  BY <1>1, <1>2, <1>3 DEF BootInv, KernelInv

\* Clearing a page handed out leaves the bitmap as it is, or the page is the one
\* of the bitmap that was not counted.
LEMMA ZeroStep ==
  ASSUME BootInv, zero_page
  PROVE  KernelInv'
<1> DEFINE p == PageOf(last.res)
<1>1. /\ kernel = "zero" /\ kernel' = "alloc" /\ pc = "kernel" /\ pc' = pc
      /\ cleared' = cleared \cup {p} /\ UNCHANGED <<vars, ppaVars>>
      /\ bits' = [k \in DOMAIN bits |->
                    IF Address(k) \div EFI_PAGE_SIZE = p THEN {} ELSE bits[k]]
  BY DEF BootInv, KernelInv, zero_page, vars
<1>2. CASE Lost
  BY <1>1, <1>2, LostStays DEF KernelInv
<1>3. CASE Sound
  <2>1. p \in held /\ g_bitmap # 0 /\ bits \in Bitmaps(pageBitmapBytes) /\ info = BootInfo
    BY <1>1, <1>3 DEF Sound
  <2>2. p \in clear
    <3>1. held \subseteq Ppa!BootFree
      BY <1>3, <2>1 DEF Sound, Ppa!PagesConserved, Ppa!nullptr
    <3>2. info.bits = Filled /\ info.pageBitmapSize = pageBitmapBytes
      BY <2>1 DEF BootInfo
    <3> QED BY <1>1, <2>1, <3>1, <3>2, FilledFacts, BitmapReady DEF BootInv, Ppa!BootFree
  <2>3. CASE p \in BitmapPages
    <3>1. BitmapCrosses
      BY <1>1, <2>2, <2>3, ClearInBitmap DEF BootInv
    <3>2. BitmapCrosses' /\ BitmapPages' = BitmapPages
      BY <1>1, <3>1 DEF vars, BitmapCrosses, BitmapPages, Address
    <3>3. Lost'
      BY <1>1, <2>3, <3>2 DEF Lost
    <3> QED BY <1>1, <3>3 DEF KernelInv
  <2>4. CASE p \notin BitmapPages
    <3>1. bits' = bits
      <4>1. DOMAIN bits = 0..(pageBitmapBytes - 1) /\ bits = [k \in DOMAIN bits |-> bits[k]]
        BY <2>1 DEF Bitmaps
      <4>2. \A k \in DOMAIN bits : Address(k) \div EFI_PAGE_SIZE # p
        BY <2>4, <4>1 DEF BitmapPages
      <4> QED BY <1>1, <4>1, <4>2
    <3>2. info' = BootInfo' /\ pageBitmapBytes' = pageBitmapBytes
      BY <1>1, <2>1 DEF vars, ppaVars, BootInfo, Filled, Address
    <3>3. Ppa!CountMatchesBitmap' /\ Ppa!PagesConserved'
      BY <1>1, <1>3, <3>1 DEF ppaVars, Sound, Ppa!CountMatchesBitmap, Ppa!PagesConserved,
         Ppa!FreePages, Ppa!BootFree, Ppa!ClearBits, Ppa!is_free, Ppa!nullptr
    <3>4. Sound'
      BY <1>1, <1>3, <2>1, <3>1, <3>2, <3>3 DEF Sound, ppaVars, Bitmaps
    <3> QED BY <1>1, <3>4 DEF KernelInv
  <2> QED
    BY <2>3, <2>4
<1> QED
  BY <1>1, <1>2, <1>3 DEF BootInv, KernelInv

LEMMA KernelStep == BootInv /\ [KernelNext]_<<vars, kernelVars>> => BootInv'
<1> SUFFICES ASSUME BootInv, [KernelNext]_<<vars, kernelVars>> PROVE BootInv'
  OBVIOUS
<1>1. LoaderInv'
  <2>1. [Next]_vars
    BY DEF KernelNext, loading, enter_kernel, ppa_init, ppa_init_fails, take_page, no_page_left,
       zero_page
  <2> QED BY <2>1, LoaderKeeps DEF BootInv
<1>2. CASE loading
  BY <1>1, <1>2 DEF loading, kernelVars, ppaVars, BootInv, KernelInv
<1>3. CASE enter_kernel
  BY <1>1, <1>3 DEF enter_kernel, BootInv, KernelInv, vars, BootInfo, Filled, Address
<1>4. CASE ppa_init \/ ppa_init_fails \/ take_page \/ no_page_left \/ zero_page
  BY <1>1, <1>4, AdoptStep, NothingAdopted, TakeStep, NothingTaken, ZeroStep DEF BootInv
<1>5. CASE UNCHANGED <<vars, kernelVars>>
  <2>1. Lost => Lost'
    BY <1>5, LostStays DEF kernelVars
  <2>2. BootInfo' = BootInfo /\ Filled' = Filled /\ pageBitmapBytes' = pageBitmapBytes
    BY <1>5 DEF vars, BootInfo, Filled, Address
  <2>3. Sound => Sound'
    <3> SUFFICES ASSUME Sound PROVE Sound'
      OBVIOUS
    <3>1. Ppa!CountMatchesBitmap' /\ Ppa!PagesConserved'
      BY <1>5 DEF kernelVars, ppaVars, Sound, Ppa!CountMatchesBitmap, Ppa!PagesConserved,
         Ppa!FreePages, Ppa!BootFree, Ppa!ClearBits, Ppa!is_free, Ppa!nullptr
    <3> QED
      BY <1>5, <2>2, <3>1 DEF kernelVars, ppaVars, Sound, Bitmaps, PageOf
  <2> QED
    BY <1>1, <1>5, <2>1, <2>2, <2>3 DEF vars, kernelVars, ppaVars, BootInv, KernelInv
<1> QED
  BY <1>1, <1>2, <1>3, <1>4, <1>5 DEF KernelNext, BootInv

LEMMA BootInvariance == KernelSpec => []BootInv
BY InitKernel, KernelStep, PTL DEF KernelSpec

------------------------------------------------------------------------------
(* What is handed out.                                                     *)

\* The allocator stays true to the bitmap the loader left it, on every machine,
\* or a page of that bitmap SetUsedRange did not count was handed out and cleared
\* (PhysicalPageAllocator.cpp:63, VirtualMemoryManager.cpp:37, Loader.c:469).
THEOREM BitmapKept == KernelSpec => []AllocatorKeepsItsBitmap
<1>1. BootInv => AllocatorKeepsItsBitmap
  BY DEF BootInv, KernelInv, Sound, Lost, AllocatorKeepsItsBitmap
<1> QED
  BY BootInvariance, <1>1, PTL

\* SetUsedRange counts every page of a range that begins on a page.
LEMMA AlignedIsMarked ==
  ASSUME NEW base \in Nat, NEW size \in Nat, base % EFI_PAGE_SIZE = 0
  PROVE  Touched(base, size) \subseteq SetUsedRange(base, size)
<1> DEFINE E == EFI_PAGE_SIZE
           q == base \div E
           c == Ceil(size, E)
           t == (base + size - 1) \div E
<1>0. E \in Nat \ {0}
  BY MachinesAssumption
<1>1. E \in Nat \ {0} /\ c \in Nat /\ q \in Int
  BY <1>0, CeilFacts, Quotient
<1>2. base = E * q
  BY <1>1
<1>3. size + E - 1 < E * c + E
  BY <1>1, Quotient DEF Ceil
<1>4. t \in Int /\ E * t <= base + size - 1
  BY <1>1, Quotient
<1> HIDE DEF E, q, c, t
<1>5. t <= q + c - 1
  <2> SUFFICES ASSUME t >= q + c PROVE FALSE
    BY <1>1, <1>4
  <2>1. E * t >= E * (q + c)
    BY <1>1, <1>4
  <2>2. E * (q + c) = E * q + E * c /\ E * q \in Int /\ E * c \in Int /\ E * t \in Int
    BY <1>1, <1>4
  <2> QED
    BY <1>1, <1>2, <1>3, <1>4, <2>1, <2>2
<1>6. q..t \subseteq q..(q + c - 1)
  BY <1>1, <1>4, <1>5
<1> QED
  BY <1>6 DEF SetUsedRange, Touched, E, q, c, t

\* A page of a range that was placed as loaders place them is not called free.
LEMMA PlacedIsKept ==
  ASSUME LoaderInv, pc = "kernel", NEW base \in Nat, NEW size \in Nat, Placed(base, size),
         SetUsedRange(base, size) \subseteq Marked, NEW p \in clear
  PROVE  p \notin Touched(base, size)
<1>1. p \in Pages /\ first[p] = "Conventional" /\ HaveFirst /\ BitmapMade
  BY BitmapReady DEF LoaderInv, IInv, ControlInv, HaveFirst, BitmapMade, Conventional
<1>2. p \notin Marked
  BY <1>1 DEF LoaderInv, ExtentInv
<1>3. machine.memory[p] = "Conventional"
  BY <1>1 DEF LoaderInv, GivenInv
<1> QED
  BY <1>1, <1>2, <1>3, AlignedIsMarked DEF Placed

\* Beyond the pages its length has, the bitmap's buffer holds bytes of the bitmap.
LEMMA BufferIsBitmap ==
  ASSUME LoaderInv, pc = "kernel", pageBitmapBytes # 0, NEW p \in bitmap.pages,
         p >= bitmap.page + Ceil(pageBitmapBytes, EFI_PAGE_SIZE)
  PROVE  p \in BitmapPages
<1> DEFINE E == EFI_PAGE_SIZE
           o == bitmap.offset
           q == bitmap.page
           n == pageBitmapBytes
           C == Ceil(o + n, E)
<1>1. /\ E \in Nat \ {0} /\ o \in 0..(E - 1) /\ q \in Nat /\ n \in Nat \ {0}
      /\ Ceil(n, E) \in Nat /\ Ceil(n, E) > 0 /\ C \in Nat
  <2>1. E \in Nat \ {0} /\ o \in 0..(E - 1) /\ q \in Nat /\ n \in Nat \ {0}
    BY BitmapReady
  <2> HIDE DEF E, o, q, n
  <2>2. o + n \in Nat
    BY <2>1
  <2>3. Ceil(o + n, E) \in Nat
    BY <2>1, <2>2, CeilFacts
  <2>4. Ceil(n, E) \in Nat /\ Ceil(n, E) > 0
    <3>1. n \in Nat /\ n > 0
      BY <2>1
    <3> QED BY <2>1, <3>1, CeilFacts
  <2> QED BY <2>1, <2>3, <2>4 DEF E, o, q, n
<1>2. p \in Nat /\ p > q
  <2>1. HaveBitmap /\ machine \in Machines
    BY DEF LoaderInv, IInv, ControlInv, HaveBitmap
  <2>2. p \in Nat
    BY <2>1, PagesFacts DEF LoaderInv, IInv, BitmapInv
  <2> QED BY <1>1, <2>2
<1>3. p <= q + C - 1
  <2>1. p = q \/ p < q + C
    BY DEF LoaderInv, IInv, ControlInv, HaveBitmap, ExtentInv
  <2> HIDE DEF C, q
  <2> QED BY <1>1, <1>2, <2>1
<1>4. E * C <= o + n + E - 1
  BY <1>1, Quotient DEF Ceil
<1> DEFINE k == E * p - q * E - o
<1>5. k \in 0..(n - 1)
  <2> HIDE DEF E, o, q, n, C
  <2>1. E * p >= E * (q + 1) /\ E * p <= E * (q + C - 1)
    BY <1>1, <1>2, <1>3
  <2>2. /\ E * (q + 1) = q * E + E /\ E * (q + C - 1) = q * E + E * C - E
        /\ q * E \in Int /\ E * C \in Int /\ E * p \in Int
    BY <1>1, <1>2
  <2> QED BY <1>1, <1>4, <2>1, <2>2
<1>6. Address(k) \div E = p
  <2>1. Address(k) = q * E + o + k
    BY DEF Address
  <2>2. q * E + o + k = p * E + 0
    <3> HIDE DEF E, o, q
    <3>1. q * E \in Int /\ E * p \in Int /\ E * p = p * E
      BY <1>1, <1>2
    <3> QED BY <1>1, <3>1
  <2>3. (p * E + 0) \div E = p
    BY <1>1, <1>2, PageOfBuffer
  <2> QED BY <2>1, <2>2, <2>3
<1> QED
  BY <1>5, <1>6 DEF BitmapPages

\* The kernel clears nothing that is in use as it starts, but for what the loader
\* and the firmware took since the bitmap was made, on every machine that places
\* image, kernel and display as loaders do (Loader.c:469, VirtualMemoryManager.cpp:37).
THEOREM InUseKept == KernelSpec => []PagesInUseKept
<1>1. BootInv => PagesInUseKept
  <2> SUFFICES ASSUME BootInv, kernel # "off", ~Lost, NEW p \in cleared \cap InUse
               PROVE  \/ p \in taken /\ first[p] = "Conventional"
                      \/ memMap.own /\ p \in memMap.pages
    BY DEF PagesInUseKept, Lost
  <2>1. LoaderInv /\ pc = "kernel" /\ Sound
    BY DEF BootInv, KernelInv
  <2>2. p \in Ppa!BootFree
    BY <2>1 DEF Sound, Ppa!PagesConserved, Ppa!nullptr
  <2>3. /\ p \in Ppa!ClearBits(Filled, pageBitmapBytes * 8) /\ p # 0
    BY <2>1, <2>2 DEF Ppa!BootFree, Sound, BootInfo
  <2>4. p \in clear /\ pageBitmapBytes # 0
    <3>1. pageBitmapBytes \in Nat
      BY <2>1, BitmapReady
    <3> QED BY <2>3, <3>1, FilledFacts DEF Ppa!ClearBits
  <2>5. p \notin BitmapPages
    BY <2>1, <2>4, ClearInBitmap DEF Lost
  <2>6. /\ p \in Pages /\ first[p] = "Conventional" /\ machine \in Machines
        /\ machine.memory[p] = "Conventional"
    BY <2>1, <2>4, BitmapReady
    DEF Conventional, LoaderInv, IInv, ControlInv, GivenInv, HaveFirst
  <2>7. /\ p \notin Touched(machine.imageBase, machine.imageSize)
        /\ p \notin Touched(machine.kernelBase, machine.kernelSize)
        /\ p \notin Touched(machine.frameBufferBase, machine.frameBufferSize)
    <3>1. /\ Placed(machine.imageBase, machine.imageSize)
          /\ Placed(machine.kernelBase, machine.kernelSize)
          /\ Placed(machine.frameBufferBase, machine.frameBufferSize)
          /\ {machine.imageBase, machine.imageSize, machine.kernelBase, machine.kernelSize,
              machine.frameBufferBase, machine.frameBufferSize} \subseteq Nat
      BY <2>6, BootAssumption, MachinesAssumption DEF Placed, Pages
    <3>2. /\ SetUsedRange(machine.imageBase, machine.imageSize) \subseteq Marked
          /\ SetUsedRange(machine.kernelBase, machine.kernelSize) \subseteq Marked
          /\ SetUsedRange(machine.frameBufferBase, machine.frameBufferSize) \subseteq Marked
      BY DEF Marked, MarkedRanges
    <3> QED BY <2>1, <2>4, <3>1, <3>2, PlacedIsKept
  <2>8. CASE p \in memMap.pages
    <3>1. p \notin machine.pool
      BY <2>6, BootAssumption DEF Pages
    <3> QED BY <2>1, <2>8, <3>1 DEF LoaderInv, GivenInv
  <2>9. CASE type[p] # "Conventional"
    <3>1. p \in clear \ Conventional(type) /\ HandedOver
      BY <2>1, <2>4, <2>9 DEF Conventional, HandedOver
    <3>2. p \in bitmap.pages /\ p >= bitmap.page + Ceil(pageBitmapBytes, EFI_PAGE_SIZE)
            => FALSE
      BY <2>1, <2>4, <2>5, BufferIsBitmap
    <3> QED BY <2>1, <3>1, <3>2, ClearPages DEF LoaderInv, ClearPagesInUse
  <2> QED
    BY <2>3, <2>5, <2>7, <2>8, <2>9 DEF InUse
<1> QED
  BY BootInvariance, <1>1, PTL
==============================================================================
