------------------------ MODULE KernelLoader_proofs ------------------------
(***************************************************************************)
(* Proofs about KernelLoader: what ReadFileToBuffer and UefiMain acquire   *)
(* they give back, whichever firmware call fails; the loader writes into   *)
(* the pages it allocated; the kernel is in memory as it was linked.       *)
(*                                                                         *)
(* The last two follow the loops of LoadKernelElf: the pages counted so    *)
(* far are at least those the segments so far touch; the segments so far   *)
(* are in memory; the entries read so far are the table's; the relocations *)
(* so far are applied, and the tables and symbols still as they were.      *)
(***************************************************************************)
EXTENDS KernelLoader, FiniteSetTheorems, WellFoundedInduction, TLAPS

\* What the first calls of ReadFileToBuffer have acquired before the c-th.
Acquired(c) ==
  (IF c > 3 THEN {"root"} ELSE {}) \cup (IF c > 4 THEN {"file"} ELSE {})
    \cup (IF c = 7 THEN {"fileInfo"} ELSE {}) \cup (IF c > 8 THEN {"buffer"} ELSE {})

\* While it reads, the loader holds what the calls so far have acquired and not
\* yet given back; before that and after it, nothing but the file's contents.
HeldByCall ==
  /\ pc \in {"read", "check", "copy", "scan", "rela", "jmprel", "done",
             "loaded", "halted", "lost"}
  /\ call \in 1..10
  /\ pc = "read" => held = Acquired(call)
  /\ pc \in {"check", "copy", "scan", "rela", "jmprel", "done", "lost"} => held = {"buffer"}
  /\ pc \in {"halted", "loaded"} => held = {}

\* The loader starts with nothing.
LEMMA InitHeld == Init => HeldByCall
BY DEF Init, HeldByCall, Acquired

\* The table of firmware calls has nine entries.
LEMMA NineCalls ==
  /\ Len(ReadCalls) = 9
  /\ ReadCalls[1] = {} /\ ReadCalls[2] = {} /\ ReadCalls[3] = {"root"}
  /\ ReadCalls[4] = {"file"} /\ ReadCalls[5] = {} /\ ReadCalls[6] = {"fileInfo"}
  /\ ReadCalls[7] = {} /\ ReadCalls[8] = {"buffer"} /\ ReadCalls[9] = {}
BY DEF ReadCalls

\* Each step keeps the account of what is held.
LEMMA StepHeld == HeldByCall /\ [Next]_vars => HeldByCall'
<1> SUFFICES ASSUME HeldByCall, [Next]_vars PROVE HeldByCall'
  OBVIOUS
<1> USE DEF HeldByCall
<1>1. CASE read_call
  <2>1. call \in 1..9
    BY <1>1, NineCalls DEF read_call
  <2>2. held = Acquired(call) /\ call' = call + 1 /\ pc' = "read" /\ pc = "read"
    BY <1>1 DEF read_call
  <2>3. held' = Acquired(call + 1)
    <3>1. CASE call = 1 BY <1>1, <2>2, <3>1, NineCalls DEF read_call, Acquired
    <3>2. CASE call = 2 BY <1>1, <2>2, <3>2, NineCalls DEF read_call, Acquired
    <3>3. CASE call = 3 BY <1>1, <2>2, <3>3, NineCalls DEF read_call, Acquired
    <3>4. CASE call = 4 BY <1>1, <2>2, <3>4, NineCalls DEF read_call, Acquired
    <3>5. CASE call = 5 BY <1>1, <2>2, <3>5, NineCalls DEF read_call, Acquired
    <3>6. CASE call = 6 BY <1>1, <2>2, <3>6, NineCalls DEF read_call, Acquired
    <3>7. CASE call = 7 BY <1>1, <2>2, <3>7, NineCalls DEF read_call, Acquired
    <3>8. CASE call = 8 BY <1>1, <2>2, <3>8, NineCalls DEF read_call, Acquired
    <3>9. CASE call = 9 BY <1>1, <2>2, <3>9, NineCalls DEF read_call, Acquired
    <3> QED BY <2>1, <3>1, <3>2, <3>3, <3>4, <3>5, <3>6, <3>7, <3>8, <3>9
  <2> QED BY <2>1, <2>2, <2>3
<1>2. CASE read_call_fails
  BY <1>2 DEF read_call_fails, fails_giving_back, Acquired
<1>3. CASE read_exit
  <2>1. call = 10 /\ pc = "read"
    BY <1>3, NineCalls DEF read_exit
  <2> QED BY <1>3, <2>1 DEF read_exit, Acquired
<1>4. CASE load_refuses \/ count_pages
  BY <1>4 DEF load_refuses, count_pages, reading
<1>5. CASE allocate_pages_fails
  BY <1>5 DEF allocate_pages_fails
<1>6. CASE allocate_pages
  BY <1>6 DEF allocate_pages, reading
<1>7. CASE copy_segment
  BY <1>7 DEF copy_segment, copies_segment, reading
<1>8. CASE find_dynamic
  BY <1>8 DEF find_dynamic, reading
<1>9. CASE scan_dynamic \/ scan_ends \/ scan_gets_lost
  BY <1>9 DEF scan_dynamic, scan_ends, scan_gets_lost, reading
<1>10. CASE apply_rela \/ rela_ends
  BY <1>10 DEF apply_rela, rela_ends, reading
<1>11. CASE apply_jmprel \/ jmprel_ends
  BY <1>11 DEF apply_jmprel, jmprel_ends, reading
<1>12. CASE load_done
  BY <1>12 DEF load_done
<1>13. CASE Stopped \/ UNCHANGED vars
  BY <1>13 DEF Stopped, vars, reading
<1> QED
  BY <1>1, <1>2, <1>3, <1>4, <1>5, <1>6, <1>7, <1>8, <1>9, <1>10, <1>11, <1>12, <1>13
  DEF Next

\* Whichever firmware call fails, and whatever the kernel file is, the loader
\* halts or starts the kernel with no file open and no pool allocated
\* (FileUtility.c:67-85, Loader.c:429-443).
THEOREM NothingHeld == Spec => []NothingLeftHeld
<1>1. HeldByCall => NothingLeftHeld
  BY DEF HeldByCall, NothingLeftHeld
<1> QED
  BY InitHeld, StepHeld, <1>1, PTL DEF Spec

------------------------------------------------------------------------------
(* Sets of numbers.                                                        *)

LEMMA MinIsLeast ==
  ASSUME NEW S \in SUBSET Nat, S # {}
  PROVE  Min(S) \in S /\ \A y \in S : Min(S) <= y
<1>1. PICK x \in S : \A y \in S : <<y, x>> \notin OpToRel(<, Nat)
  BY NatLessThanWellFounded, WFMin
<1>2. \A y \in S : x <= y
  <2>1. ASSUME NEW y \in S, y < x PROVE FALSE
    <3>1. <<y, x>> \in OpToRel(<, Nat)
      BY <2>1 DEF OpToRel
    <3> QED BY <1>1, <3>1
  <2> QED BY <2>1
<1> QED
  BY <1>2 DEF Min

LEMMA MaxIsGreatest ==
  ASSUME NEW S \in SUBSET Int, S # {}, NEW B \in Int, \A x \in S : x <= B
  PROVE  Max(S) \in S /\ \A y \in S : y <= Max(S)
<1> DEFINE T == {B - x : x \in S}
<1>1. T \in SUBSET Nat /\ T # {}
  <2>1. \A x \in S : B - x \in Nat
    OBVIOUS
  <2> QED BY <2>1
<1>2. PICK t \in T : \A u \in T : t <= u
  <2> HIDE DEF T
  <2> QED BY <1>1, MinIsLeast
<1>3. PICK x \in S : t = B - x
  BY <1>2
<1>4. \A y \in S : y <= x
  <2>1. ASSUME NEW y \in S PROVE y <= x
    <3>1. B - y \in T /\ y \in Int /\ x \in Int
      BY <2>1
    <3> HIDE DEF T
    <3>2. t <= B - y
      BY <1>2, <3>1
    <3> QED BY <1>3, <3>1, <3>2
  <2> QED BY <2>1
<1> QED
  BY <1>4 DEF Max

LEMMA Quotient ==
  ASSUME NEW a \in Int, NEW b \in Nat \ {0}
  PROVE  a \div b \in Int /\ b * (a \div b) <= a /\ a < b * (a \div b) + b
  OBVIOUS

LEMMA QuotientMonotone ==
  ASSUME NEW b \in Nat \ {0}, NEW a \in Int, NEW c \in Int, a <= c
  PROVE  a \div b <= c \div b
<1> DEFINE qa == a \div b  qc == c \div b
<1>1. qa \in Int /\ qc \in Int /\ b * qa <= a /\ c < b * qc + b
  BY Quotient
<1>2. SUFFICES ASSUME qa >= qc + 1 PROVE FALSE
  BY <1>1
<1> HIDE DEF qa, qc
<1>3. b * qa >= b * (qc + 1)
  BY <1>1, <1>2
<1> QED
  BY <1>1, <1>3

------------------------------------------------------------------------------
(* Kernel files.                                                           *)

\* A file the loader accepts, with an address to load it at.
Accepted(f, b) == f \in Files /\ f.valid /\ Loads(f) # {} /\ b \in Bases

LEMMA SegmentsOf ==
  ASSUME NEW f \in Files, f.valid, Loads(f) # {}
  PROVE  /\ SegmentsFit(f) /\ Headers(f) = 1..Len(f.phdr) /\ Loads(f) \subseteq Headers(f)
         /\ \A n \in Headers(f) : /\ f.phdr[n].vaddr \in Nat /\ f.phdr[n].offset \in Nat
                                  /\ f.phdr[n].filesz \in Nat /\ f.phdr[n].memsz \in Nat
<1>1. SegmentsFit(f)
  BY KernelAssumption
<1> QED
  BY <1>1 DEF SegmentsFit, Headers, Loads

LEMMA Segments ==
  ASSUME NEW f, NEW b, Accepted(f, b)
  PROVE  /\ SegmentsFit(f) /\ Headers(f) = 1..Len(f.phdr) /\ Loads(f) \subseteq Headers(f)
         /\ \A n \in Headers(f) : /\ f.phdr[n].vaddr \in Nat /\ f.phdr[n].offset \in Nat
                                  /\ f.phdr[n].filesz \in Nat /\ f.phdr[n].memsz \in Nat
BY SegmentsOf DEF Accepted

LEMMA Extent ==
  ASSUME NEW f, NEW b, Accepted(f, b)
  PROVE  /\ originalBase(f) \in Nat /\ highestEnd(f) \in Nat /\ b \in Nat \ {0} /\ Limit \in Nat
         /\ originalBase(f) <= highestEnd(f) /\ b + (highestEnd(f) - originalBase(f)) <= Limit
         /\ \A n \in Loads(f) : /\ originalBase(f) <= f.phdr[n].vaddr
                                /\ f.phdr[n].vaddr + f.phdr[n].memsz <= highestEnd(f)
<1> DEFINE A == {f.phdr[n].vaddr : n \in Loads(f)}
           E == {f.phdr[n].vaddr + f.phdr[n].memsz : n \in Loads(f)}
<1>1. Loads(f) # {} /\ b \in Nat \ {0} /\ Limit \in Nat
  BY KernelAssumption DEF Accepted
<1>2. \A n \in Loads(f) : f.phdr[n].vaddr \in Nat /\ f.phdr[n].memsz \in Nat
  BY Segments
<1>3. A \in SUBSET Nat /\ A # {} /\ E \in SUBSET Nat /\ E # {}
  BY <1>1, <1>2
<1>4. originalBase(f) \in A /\ \A y \in A : originalBase(f) <= y
  <2> HIDE DEF A
  <2>1. Min(A) \in A /\ \A y \in A : Min(A) <= y
    BY <1>3, MinIsLeast
  <2> QED BY <2>1 DEF originalBase, A
<1>5. originalBase(f) \in Nat
  BY <1>3, <1>4
<1> DEFINE o == originalBase(f)
<1> HIDE DEF o
<1>6. \A n \in Loads(f) : b + ((f.phdr[n].vaddr + f.phdr[n].memsz) - o) <= Limit
  <2>1. SegmentsFit(f) /\ b \in Bases
    BY Segments DEF Accepted
  <2>2. \A n \in Loads(f) :
          b + (f.phdr[n].vaddr + f.phdr[n].memsz - originalBase(f)) <= Limit
    BY <2>1 DEF SegmentsFit
  <2> QED BY <1>1, <1>2, <1>5, <2>2 DEF o
<1>7. \A e \in E : e <= Limit + o - b
  BY <1>1, <1>2, <1>5, <1>6 DEF o
<1>8. highestEnd(f) \in E /\ \A y \in E : y <= highestEnd(f)
  <2> HIDE DEF E
  <2>1. Limit + o - b \in Int /\ E \in SUBSET Int
    BY <1>1, <1>3, <1>5 DEF o
  <2>2. Max(E) \in E /\ \A y \in E : y <= Max(E)
    BY <1>3, <1>7, <2>1, MaxIsGreatest
  <2> QED BY <2>2 DEF highestEnd, E
<1>9. highestEnd(f) \in Nat
  BY <1>3, <1>8
<1>10. \A n \in Loads(f) : /\ o <= f.phdr[n].vaddr
                           /\ f.phdr[n].vaddr + f.phdr[n].memsz <= highestEnd(f)
  BY <1>4, <1>8 DEF o
<1>11. o <= highestEnd(f)
  BY <1>1, <1>2, <1>5, <1>9, <1>10 DEF o
<1>12. b + (highestEnd(f) - o) <= Limit
  <2> DEFINE h == highestEnd(f)
  <2>1. h \in Nat /\ h <= Limit + o - b
    BY <1>7, <1>8, <1>9
  <2> HIDE DEF h
  <2>2. b + (h - o) <= Limit
    BY <1>1, <1>5, <2>1 DEF o
  <2> QED BY <2>2 DEF h
<1> QED
  BY <1>1, <1>5, <1>9, <1>10, <1>11, <1>12 DEF o

\* A loaded word, moved, is in memory and between the ends of the kernel.
LEMMA Inside ==
  ASSUME NEW f, NEW b, Accepted(f, b), NEW v \in Int, InMemory(f, v)
  PROVE  LET p == (b - originalBase(f)) + v IN
         p \in b..(b + (highestEnd(f) - originalBase(f)) - 1) /\ p \in Addresses
<1>1. PICK n \in Loads(f) : Covers(f.phdr[n], v)
  BY DEF InMemory
<1> DEFINE o == originalBase(f)
           h == highestEnd(f)
           a == f.phdr[n].vaddr
           m == f.phdr[n].memsz
<1>2. /\ o \in Nat /\ h \in Nat /\ b \in Nat /\ Limit \in Nat /\ b + (h - o) <= Limit
      /\ o <= a /\ a + m <= h /\ a \in Nat /\ m \in Nat
  BY Extent, Segments
<1>3. v >= a /\ v < a + m
  BY <1>1 DEF Covers
<1> HIDE DEF o, h, a, m
<1> QED
  BY <1>2, <1>3 DEF Addresses, o, h

\* Segments do not overlap: a word is the one of the segment it is found in.
LEMMA LinkedIn ==
  ASSUME NEW f, NEW b, Accepted(f, b), NEW v \in Int, NEW n \in Loads(f), Covers(f.phdr[n], v)
  PROVE  Linked(f, v) = IF v < f.phdr[n].vaddr + f.phdr[n].filesz
                        THEN f.words[f.phdr[n].offset + v - f.phdr[n].vaddr] ELSE Num(0)
<1>1. \A m \in Loads(f) : Covers(f.phdr[m], v) => n = m
  <2>1. v \in f.phdr[n].vaddr..(f.phdr[n].vaddr + f.phdr[n].memsz - 1)
    BY Segments DEF Covers
  <2> QED BY <2>1, Segments DEF SegmentsFit
<1>2. (CHOOSE m \in Loads(f) : Covers(f.phdr[m], v)) = n
  BY <1>1
<1> QED
  BY <1>2 DEF Linked

LEMMA LinkedVal ==
  ASSUME NEW f, NEW b, Accepted(f, b), NEW v \in Int, InMemory(f, v)
  PROVE  Linked(f, v).val \in Int
<1>1. PICK n \in Loads(f) : Covers(f.phdr[n], v)
  BY DEF InMemory
<1>2. Linked(f, v) = IF v < f.phdr[n].vaddr + f.phdr[n].filesz
                     THEN f.words[f.phdr[n].offset + v - f.phdr[n].vaddr] ELSE Num(0)
  BY <1>1, LinkedIn
<1>3. CASE v < f.phdr[n].vaddr + f.phdr[n].filesz
  <2> DEFINE o == f.phdr[n].offset + v - f.phdr[n].vaddr
           a == f.phdr[n].vaddr
           e == f.phdr[n].offset
           z == f.phdr[n].filesz
  <2>1. o \in e..(e + z - 1)
    <3>1. a \in Nat /\ e \in Nat /\ z \in Nat /\ v >= a /\ v < a + z
      BY <1>1, <1>3, Segments DEF Covers
    <3>2. o = e + v - a
      OBVIOUS
    <3> HIDE DEF o, a, e, z
    <3> QED BY <3>1, <3>2
  <2>2. o \in DOMAIN f.words
    <3>1. SegmentsFit(f)
      BY Segments
    <3> QED BY <2>1, <3>1 DEF SegmentsFit
  <2> QED BY <1>2, <1>3, <2>2, KernelAssumption DEF Accepted
<1>4. CASE ~(v < f.phdr[n].vaddr + f.phdr[n].filesz)
  <2>1. Num(0).val = 0
    BY DEF Num, Word
  <2> QED BY <1>2, <1>4, <2>1
<1> QED
  BY <1>3, <1>4

------------------------------------------------------------------------------
(* The pages counted.                                                      *)

PagesOf(h) == FirstPage(h)..(PageEnd(h) - 1)
Counted(f, k) == UNION {PagesOf(f.phdr[n]) : n \in {m \in Loads(f) : m < k}}

LEMMA PagesCount ==
  ASSUME NEW h, h.vaddr \in Nat, h.memsz \in Nat
  PROVE  /\ FirstPage(h) \in Int /\ PageEnd(h) \in Int /\ pages(h) \in Nat
         /\ IsFiniteSet(PagesOf(h)) /\ Cardinality(PagesOf(h)) = pages(h)
<1> DEFINE a == FirstPage(h)
           e == PageEnd(h)
<1>1. PAGE_SIZE \in Nat \ {0}
  BY KernelAssumption
<1>2. a \in Int /\ e \in Int /\ a <= e
  <2> DEFINE x == h.vaddr
             y == h.vaddr + h.memsz + PAGE_SIZE - 1
  <2>1. x \in Int /\ y \in Int /\ x <= y
    BY <1>1
  <2> HIDE DEF x, y
  <2>2. x \div PAGE_SIZE \in Int /\ y \div PAGE_SIZE \in Int /\ x \div PAGE_SIZE <= y \div PAGE_SIZE
    BY <1>1, <2>1, Quotient, QuotientMonotone
  <2> QED BY <2>2 DEF FirstPage, PageEnd, x, y
<1> HIDE DEF a, e
<1>3. IsFiniteSet(a..(e - 1)) /\ Cardinality(a..(e - 1)) = IF a > e - 1 THEN 0 ELSE (e - 1) - a + 1
  <2>1. e - 1 \in Int
    BY <1>2
  <2> QED BY <1>2, <2>1, FS_Interval
<1>4. Cardinality(a..(e - 1)) = e - a
  BY <1>2, <1>3
<1> QED
  BY <1>2, <1>3, <1>4 DEF a, e, pages, PagesOf

\* One more header: at most its pages more.
LEMMA OneMore ==
  ASSUME NEW f \in Files, f.valid, Loads(f) # {}, NEW k \in Headers(f),
         IsFiniteSet(Counted(f, k))
  PROVE  LET more == IF k \in Loads(f) THEN pages(f.phdr[k]) ELSE 0 IN
         /\ more \in Nat /\ IsFiniteSet(Counted(f, k + 1))
         /\ Cardinality(Counted(f, k + 1)) <= Cardinality(Counted(f, k)) + more
<1>1. k \in Int /\ \A m \in Loads(f) : m \in Int
  BY SegmentsOf
<1>2. CASE k \in Loads(f)
  <2> DEFINE h == f.phdr[k]
             U == Counted(f, k)
  <2>1. /\ pages(h) \in Nat /\ IsFiniteSet(PagesOf(h)) /\ Cardinality(PagesOf(h)) = pages(h)
    BY <1>2, SegmentsOf, PagesCount
  <2>2. {m \in Loads(f) : m < k + 1} = {m \in Loads(f) : m < k} \cup {k}
    <3>1. \A m \in Loads(f) : m < k + 1 <=> m < k \/ m = k
      BY <1>1
    <3>2. k < k + 1
      BY <1>1
    <3> QED BY <1>2, <3>1, <3>2
  <2>3. Counted(f, k + 1) = U \cup PagesOf(h)
    BY <2>2 DEF Counted
  <2> HIDE DEF h, U
  <2>4. /\ IsFiniteSet(U \cup PagesOf(h))
        /\ Cardinality(U \cup PagesOf(h)) =
             Cardinality(U) + Cardinality(PagesOf(h)) - Cardinality(U \cap PagesOf(h))
    BY <2>1, FS_Union DEF U
  <2>5. Cardinality(U) \in Nat /\ Cardinality(U \cap PagesOf(h)) \in Nat
    <3>1. IsFiniteSet(U) /\ IsFiniteSet(U \cap PagesOf(h))
      BY <2>1, FS_Intersection DEF U
    <3> QED BY <3>1, FS_CardinalityType
  <2>6. Cardinality(U \cup PagesOf(h)) <= Cardinality(U) + pages(h)
    <3> DEFINE x == Cardinality(U)
               y == Cardinality(U \cap PagesOf(h))
               z == Cardinality(U \cup PagesOf(h))
    <3>1. x \in Nat /\ y \in Nat /\ pages(h) \in Nat /\ z = x + pages(h) - y
      BY <2>1, <2>4, <2>5
    <3> HIDE DEF x, y, z
    <3>2. z <= x + pages(h)
      BY <3>1
    <3> QED BY <3>2 DEF x, z
  <2> QED BY <1>2, <2>1, <2>3, <2>4, <2>6 DEF h, U
<1>3. CASE k \notin Loads(f)
  <2>1. {m \in Loads(f) : m < k + 1} = {m \in Loads(f) : m < k}
    BY <1>1, <1>3
  <2>2. Counted(f, k + 1) = Counted(f, k)
    BY <2>1 DEF Counted
  <2>3. Cardinality(Counted(f, k)) \in Nat
    BY FS_CardinalityType
  <2> QED BY <1>3, <2>2, <2>3
<1> QED
  BY <1>2, <1>3

\* Pages enough to hold the kernel, unless nobody counted some.
LEMMA EnoughPages ==
  ASSUME NEW f, NEW b, Accepted(f, b), ~PageGap(f), NEW t \in Nat,
         IsFiniteSet(Counted(f, Len(f.phdr) + 1)), Cardinality(Counted(f, Len(f.phdr) + 1)) <= t
  PROVE  highestEnd(f) - originalBase(f) <= t * PAGE_SIZE
<1> DEFINE o == originalBase(f)
           h == highestEnd(f)
           U == Counted(f, Len(f.phdr) + 1)
           lo == o \div PAGE_SIZE
           hi == (h - 1) \div PAGE_SIZE
<1>1. o \in Nat /\ h \in Nat /\ o <= h /\ PAGE_SIZE \in Nat \ {0}
  BY Extent, KernelAssumption
<1>2. CASE o = h
  <2>1. t * PAGE_SIZE \in Nat
    BY <1>1
  <2> HIDE DEF o, h
  <2>2. h - o <= t * PAGE_SIZE
    BY <1>1, <1>2, <2>1
  <2> QED BY <2>2 DEF o, h
<1>3. CASE o # h
  <2>1. /\ lo \in Int /\ hi \in Int /\ PAGE_SIZE * lo <= o
        /\ h - 1 < PAGE_SIZE * hi + PAGE_SIZE
    <3> HIDE DEF o, h
    <3>1. h - 1 \in Int
      BY <1>1
    <3> QED BY <1>1, <3>1, Quotient
  <2>2. lo <= hi
    <3> HIDE DEF o, h
    <3>1. h - 1 \in Int /\ o \in Int /\ o <= h - 1
      BY <1>1, <1>3
    <3> QED BY <1>1, <3>1, QuotientMonotone
  <2>3. lo..hi \subseteq U
    <3>1. ASSUME NEW p \in lo..hi PROVE p \in U
      <4>1. PICK n \in Loads(f) : ~(p < FirstPage(f.phdr[n]) \/ p >= PageEnd(f.phdr[n]))
        BY <3>1 DEF PageGap
      <4>2. FirstPage(f.phdr[n]) \in Int /\ PageEnd(f.phdr[n]) \in Int
        BY Segments, PagesCount
      <4>3. p \in PagesOf(f.phdr[n])
        BY <2>1, <3>1, <4>1, <4>2 DEF PagesOf
      <4>4. n < Len(f.phdr) + 1
        <5>1. n \in 1..Len(f.phdr) /\ Len(f.phdr) \in Nat
          BY Segments DEF SegmentsFit
        <5> QED BY <5>1
      <4> QED BY <4>3, <4>4 DEF Counted
    <3> QED BY <3>1
  <2> HIDE DEF U, lo, hi, o, h
  <2>4. Cardinality(lo..hi) = hi - lo + 1
    BY <2>1, <2>2, FS_Interval
  <2>5. Cardinality(lo..hi) <= Cardinality(U)
    BY <2>3, FS_Subset DEF U
  <2>6. Cardinality(U) \in Nat /\ Cardinality(U) <= t
    BY FS_CardinalityType DEF U
  <2>7. hi - lo + 1 <= t
    BY <2>1, <2>4, <2>5, <2>6
  <2>8. h - o <= t * PAGE_SIZE
    <3> DEFINE k == hi - lo + 1
    <3>1. k \in Nat /\ k <= t
      BY <2>1, <2>2, <2>7
    <3>2. h - o <= PAGE_SIZE * k
      <4>1. PAGE_SIZE * k = PAGE_SIZE * hi - PAGE_SIZE * lo + PAGE_SIZE
        BY <1>1, <2>1
      <4>2. PAGE_SIZE * hi \in Int /\ PAGE_SIZE * lo \in Int
        BY <1>1, <2>1
      <4> QED BY <1>1, <2>1, <4>1, <4>2
    <3> HIDE DEF k
    <3>3. PAGE_SIZE * k <= PAGE_SIZE * t /\ PAGE_SIZE * t = t * PAGE_SIZE
      BY <1>1, <3>1
    <3>4. PAGE_SIZE * k \in Nat /\ PAGE_SIZE * t \in Nat
      BY <1>1, <3>1
    <3> QED BY <1>1, <3>2, <3>3, <3>4
  <2> QED BY <2>8 DEF o, h
<1> QED
  BY <1>2, <1>3

------------------------------------------------------------------------------
(* Relocations.                                                            *)

\* A file whose dynamic table is there to be read.
Dynamic(f, b) ==
  /\ Accepted(f, b) /\ Dynamics(f) # {} /\ DynamicLoaded(f)
  /\ DynamicFits(f) /\ RelocationsFit(f)

LEMMA IsDynamic ==
  ASSUME NEW f, NEW b, Accepted(f, b), Dynamics(f) # {}, DynamicLoaded(f)
  PROVE  Dynamic(f, b)
<1>1. DynamicFits(f) /\ RelocationsFit(f)
  BY KernelAssumption DEF Accepted
<1> QED
  BY <1>1 DEF Dynamic

\* The dynamic table: where it is, and where it ends.
LEMMA TableLoaded ==
  ASSUME NEW f, NEW b, Dynamic(f, b)
  PROVE  /\ DynamicHeader(f).vaddr \in Nat /\ Min(Ends(f)) \in Nat
         /\ Min(Ends(f)) \in Ends(f) /\ \A k \in Ends(f) : Min(Ends(f)) <= k
         /\ \A k \in 0..Min(Ends(f)) : InMemory(f, DynamicHeader(f).vaddr + k)
<1> DEFINE n == Min(Dynamics(f))
           e == Min(Ends(f))
<1>1. Dynamics(f) \in SUBSET Nat /\ Dynamics(f) # {}
  <2>1. Headers(f) = 1..Len(f.phdr)
    BY Segments DEF Dynamic
  <2> QED BY <2>1 DEF Dynamic, Dynamics
<1>2. n \in Dynamics(f) /\ DynamicHeader(f) = f.phdr[n]
  BY <1>1, MinIsLeast DEF DynamicHeader
<1> DEFINE h == f.phdr[n]
<1>3. h.vaddr \in Nat /\ h.memsz \in Nat
  <2>1. n \in Headers(f)
    BY <1>2 DEF Dynamics
  <2> QED BY <2>1, Segments DEF Dynamic
<1>4. Ends(f) \in SUBSET Nat /\ Ends(f) # {}
  BY <1>2, <1>3 DEF Ends, Dynamic, DynamicFits
<1>5. e \in Ends(f) /\ \A k \in Ends(f) : e <= k
  BY <1>4, MinIsLeast
<1>6. e \in 0..(h.memsz - 1)
  BY <1>2, <1>5 DEF Ends
<1>7. \A v \in h.vaddr..(h.vaddr + h.memsz - 1) : InMemory(f, v)
  BY <1>2 DEF Dynamic, DynamicLoaded
<1> HIDE DEF h, e
<1>8. \A k \in 0..e : InMemory(f, h.vaddr + k)
  <2>1. ASSUME NEW k \in 0..e PROVE h.vaddr + k \in h.vaddr..(h.vaddr + h.memsz - 1)
    BY <1>3, <1>6
  <2> QED BY <1>7, <2>1
<1> QED
  BY <1>2, <1>3, <1>4, <1>5, <1>8 DEF h, e

Entries(f) == Relas(f) \cup Jmprels(f)

\* What a table says is a number, and so is where its entries are.
LEMMA ValueInt ==
  ASSUME NEW f, NEW b, Dynamic(f, b), NEW tag
  PROVE  Value(f, tag) \in Int
<1>1. CASE With(f, tag) = {}
  BY <1>1 DEF Value
<1>2. CASE With(f, tag) # {}
  <2> DEFINE k == CHOOSE j \in With(f, tag) : TRUE
  <2>1. k \in With(f, tag) /\ Value(f, tag) = DynamicEntry(f, k).val
    BY <1>2 DEF Value
  <2>2. Min(Ends(f)) \in Nat /\ DynamicHeader(f).vaddr \in Nat
    BY TableLoaded
  <2>3. k \in 0..(Min(Ends(f)) - 1)
    BY <2>1 DEF With
  <2> HIDE DEF k
  <2>4. k \in 0..Min(Ends(f)) /\ DynamicHeader(f).vaddr + k \in Int
    BY <2>2, <2>3
  <2>5. InMemory(f, DynamicHeader(f).vaddr + k)
    BY <2>4, TableLoaded
  <2>6. DynamicEntry(f, k).val \in Int
    BY <2>4, <2>5, LinkedVal DEF DynamicEntry, Dynamic
  <2> QED BY <2>1, <2>6
<1> QED
  BY <1>1, <1>2

LEMMA EntriesLoaded ==
  ASSUME NEW f, NEW b, Dynamic(f, b), NEW v \in Entries(f)
  PROVE  v \in Int /\ InMemory(f, v) /\ Linked(f, v) \in f.relocs
<1>1. Value(f, "DT_RELA") \in Int /\ Value(f, "DT_JMPREL") \in Int
  BY ValueInt
<1>2. v \in Int
  BY <1>1 DEF Entries, Relas, Jmprels
<1>3. InMemory(f, v)
  BY DEF Dynamic, DynamicFits, Entries
<1>4. Linked(f, v) \in f.relocs
  BY DEF Dynamic, RelocationsFit, Entries
<1> QED
  BY <1>2, <1>3, <1>4

\* What a relocation of the file is.
LEMMA RelocationFacts ==
  ASSUME NEW f, NEW b, Dynamic(f, b), NEW r \in f.relocs
  PROVE  /\ InMemory(f, r.off) /\ r.off \in Int /\ r.sym \in Int /\ r.off \notin Entries(f)
         /\ r.tag = "RELATIVE" => r.sym = 0
         /\ r.tag = "JUMP_SLOT" => r.sym # 0
         /\ r.sym # 0 => /\ With(f, "DT_SYMTAB") # {} /\ InMemory(f, f.symtab + r.sym)
                         /\ \A s \in f.relocs : s.off # f.symtab + r.sym
         /\ r.val \in Int
         /\ \A s \in f.relocs : s.off = r.off => s = r
<1>1. RelocationsFit(f)
  BY DEF Dynamic
<1>2. f.relocs = {Linked(f, v) : v \in Entries(f)}
  BY <1>1 DEF RelocationsFit, Entries
<1>3. PICK v \in Entries(f) : r = Linked(f, v)
  BY <1>2
<1>4. r.val \in Int
  BY <1>3, EntriesLoaded, LinkedVal DEF Dynamic
<1>5. \A s \in f.relocs : s.off = r.off => s = r
  <2>1. ASSUME NEW s \in f.relocs, s.off = r.off PROVE s = r
    <3>1. PICK w \in Entries(f) : s = Linked(f, w)
      BY <1>2
    <3>2. v = w
      BY <1>1, <1>3, <2>1, <3>1 DEF RelocationsFit, Entries
    <3> QED BY <1>3, <3>1, <3>2
  <2> QED BY <2>1
<1>6. /\ InMemory(f, r.off) /\ r.off \in Int /\ r.sym \in Int /\ r.off \notin Entries(f)
      /\ r.tag = "RELATIVE" => r.sym = 0
      /\ r.tag = "JUMP_SLOT" => r.sym # 0
      /\ r.sym # 0 => /\ With(f, "DT_SYMTAB") # {} /\ InMemory(f, f.symtab + r.sym)
                      /\ \A s \in f.relocs : s.off # f.symtab + r.sym
  BY <1>1 DEF RelocationsFit, Entries
<1> QED
  BY <1>4, <1>5, <1>6

\* The image has each word relocated by the entry for it,
LEMMA ImageAt ==
  ASSUME NEW f, NEW b, Dynamic(f, b), NEW r \in f.relocs, NEW z
  PROVE  LET w == Linked(f, r.off)
             s == IF r.sym = 0 THEN 0 ELSE Linked(f, f.symtab + r.sym).val
         IN Image(f, z, r.off) =
              IF r.tag \in {"RELATIVE", "64", "GLOB_DAT", "JUMP_SLOT"} THEN Num(z + s + r.val)
              ELSE IF r.tag = "32S" THEN Low(w, z + s + r.val)
              ELSE IF r.tag \in {"PC32", "PLT32"} THEN Low(w, s + r.val - r.off)
              ELSE w
<1>1. {x \in f.relocs : x.off = r.off} = {r}
  BY RelocationFacts
<1>2. (CHOOSE x \in {r} : TRUE) = r
  OBVIOUS
<1> QED
  BY <1>1, <1>2 DEF Image

\* and the others as they were linked.
LEMMA ImageElsewhere ==
  ASSUME NEW f, NEW z, NEW v, \A r \in f.relocs : r.off # v
  PROVE  Image(f, z, v) = Linked(f, v)
<1>1. {r \in f.relocs : r.off = v} = {}
  OBVIOUS
<1> QED
  BY <1>1 DEF Image

\* The symbol table is not at address 0.
LEMMA SymtabThere ==
  ASSUME NEW f, NEW b, Dynamic(f, b), With(f, "DT_SYMTAB") # {}
  PROVE  f.symtab \in Int /\ (b - originalBase(f)) + f.symtab # nullptr
<1>1. InMemory(f, f.symtab) /\ f.symtab = Value(f, "DT_SYMTAB")
  BY DEF Dynamic, DynamicFits
<1>2. f.symtab \in Int
  BY <1>1, ValueInt
<1> DEFINE p == (b - originalBase(f)) + f.symtab
<1>3. p \in b..(b + (highestEnd(f) - originalBase(f)) - 1) /\ b \in Nat \ {0}
  BY <1>1, <1>2, Inside, Extent DEF Dynamic
<1>4. highestEnd(f) \in Nat /\ originalBase(f) \in Nat
  BY Extent DEF Dynamic
<1> HIDE DEF p
<1>5. p # 0
  BY <1>3, <1>4
<1> QED
  BY <1>2, <1>5 DEF p, nullptr

\* A symbol is read where the linker put it.
Symbol(f, z, symtab, m, r) ==
  /\ With(f, "DT_SYMTAB") # {} => symtab = z + f.symtab
  /\ r.sym # 0 => m[symtab + r.sym] = Linked(f, f.symtab + r.sym)

LEMMA RelocatedToImage ==
  ASSUME NEW f, NEW b, Dynamic(f, b), NEW r \in f.relocs, r.tag \in Applied,
         NEW z, z = b - originalBase(f), NEW m, NEW symtab, Symbol(f, z, symtab, m, r),
         m[z + r.off] = Linked(f, r.off)
  PROVE  Relocated(m, r, z + r.off, symtab, z) = Image(f, z, r.off)
<1> DEFINE w == Linked(f, r.off)
           s == IF r.sym = 0 THEN 0 ELSE Linked(f, f.symtab + r.sym).val
           base == IF r.sym = 0 \/ symtab = nullptr THEN z ELSE ResolveSym(m, symtab, r.sym, z)
<1>1. z \in Int /\ r.off \in Int /\ r.val \in Int
  BY Extent, RelocationFacts DEF Dynamic
<1>2. s \in Int /\ base = z + s
  <2>1. CASE r.sym = 0
    BY <1>1, <2>1
  <2>2. CASE r.sym # 0
    <3>1. With(f, "DT_SYMTAB") # {} /\ InMemory(f, f.symtab + r.sym) /\ r.sym \in Int
      BY <2>2, RelocationFacts
    <3>2. symtab = z + f.symtab /\ symtab # nullptr /\ f.symtab \in Int
      BY <3>1, SymtabThere DEF Symbol
    <3>3. f.symtab + r.sym \in Int
      BY <3>1, <3>2
    <3>4. Linked(f, f.symtab + r.sym).val \in Int
      BY <3>1, <3>3, LinkedVal DEF Dynamic
    <3>5. base = z + Linked(f, f.symtab + r.sym).val
      BY <2>2, <3>2 DEF ResolveSym, Symbol
    <3> QED BY <2>2, <3>4, <3>5
  <2> QED BY <2>1, <2>2
<1>3. Image(f, z, r.off) =
        IF r.tag \in {"RELATIVE", "64", "GLOB_DAT", "JUMP_SLOT"} THEN Num(z + s + r.val)
        ELSE IF r.tag = "32S" THEN Low(w, z + s + r.val)
        ELSE IF r.tag \in {"PC32", "PLT32"} THEN Low(w, s + r.val - r.off)
        ELSE w
  BY ImageAt
<1>4. r.tag = "RELATIVE" => s = 0
  BY RelocationFacts
<1> HIDE DEF s, base, w
<1>5. CASE r.tag = "RELATIVE"
  <2>1. Relocated(m, r, z + r.off, symtab, z) = Num(z + r.val)
    BY <1>5 DEF Relocated
  <2>2. z + s + r.val = z + r.val
    BY <1>1, <1>4, <1>5
  <2> QED BY <1>3, <1>5, <2>1, <2>2
<1>6. CASE r.tag \in {"64", "GLOB_DAT"}
  <2>1. Relocated(m, r, z + r.off, symtab, z) = Num(base + r.val)
    BY <1>6 DEF Relocated, base
  <2> QED BY <1>2, <1>3, <1>6, <2>1
<1>7. CASE r.tag = "32S"
  <2>1. Relocated(m, r, z + r.off, symtab, z) = Low(w, base + r.val)
    BY <1>7 DEF Relocated, base, w
  <2> QED BY <1>2, <1>3, <1>7, <2>1
<1>8. CASE r.tag \in {"PC32", "PLT32"}
  <2>1. Relocated(m, r, z + r.off, symtab, z) = Low(w, base + r.val - (z + r.off))
    BY <1>8 DEF Relocated, base, w
  <2>2. base + r.val - (z + r.off) = s + r.val - r.off
    BY <1>1, <1>2
  <2> QED BY <1>3, <1>8, <2>1, <2>2
<1> QED
  BY <1>5, <1>6, <1>7, <1>8 DEF Applied

------------------------------------------------------------------------------
(* The loops of LoadKernelElf.                                             *)

Working == {"copy", "scan", "rela", "jmprel", "done", "loaded", "lost"}

\* The pages counted so far hold the segments so far; when they are allocated they
\* hold the kernel.
CountInv ==
  /\ file \in Files
  /\ pc \notin Working => outside = {}
  /\ pc = "read" => i = 1 /\ totalPages = 0
  /\ pc = "check" /\ file.valid /\ Loads(file) # {} =>
       /\ i \in 1..(Len(file.phdr) + 1) /\ totalPages \in Nat
       /\ IsFiniteSet(Counted(file, i)) /\ Cardinality(Counted(file, i)) <= totalPages
  /\ pc \in Working =>
       /\ Accepted(file, loadBase) /\ totalPages \in Nat
       /\ PageGap(file) \/ highestEnd(file) - originalBase(file) <= totalPages * PAGE_SIZE

\* The file was read whole and has its dynamic table where the loader looks.
Sane == ~ShortRead /\ DynamicLoaded(file)

\* The addresses of the kernel, and the loaded ones of them.
Extents(f) == originalBase(f)..(highestEnd(f) - 1)

\* The segments before the k-th header are in memory.
Copied(f, z, m, k) ==
  \A n \in Loads(f) : n < k =>
    \A v \in Extents(f) : Covers(f.phdr[n], v) => m[z + v] = Linked(f, v)

\* The loader has read what the first k entries of the dynamic table say.
Sizes == {"DT_RELASZ", "DT_PLTRELSZ"}
Said(f, z, dyn, k) ==
  \A tag \in DynamicTags :
    dyn[tag] = IF \E j \in With(f, tag) : j < k
               THEN IF tag \in Sizes THEN Value(f, tag) ELSE z + Value(f, tag)
               ELSE 0

\* The relocations at the addresses S are applied, and no other word is changed.
Patched(f, z, m, S) ==
  \A v \in Extents(f) :
    InMemory(f, v) =>
      m[z + v] = IF \E w \in S : Linked(f, w).off = v THEN Image(f, z, v) ELSE Linked(f, v)

Loaded(f, z, m) ==
  \A v \in Extents(f) : InMemory(f, v) => m[z + v] = Image(f, z, v)

RelasTill(f, k) == {Value(f, "DT_RELA") + j : j \in 0..(k - 1)}
JmprelsTill(f, k) == Relas(f) \cup {Value(f, "DT_JMPREL") + j : j \in 0..(k - 1)}
TableRead == Dynamics(file) # {} /\ Said(file, bias, dynamic, Min(Ends(file)))

\* What has been read, copied, found and applied, loop by loop.
LoadInv ==
  /\ DOMAIN dynamic = DynamicTags
  /\ pc \in {"read", "check", "copy"} => \A tag \in DynamicTags : dynamic[tag] = 0
  /\ pc = "copy" => i \in 1..(Len(file.phdr) + 1)
  /\ pc = "loaded" => /\ kernelBaseSize = highestEnd(file) - originalBase(file)
                      /\ entryPoint = loadBase + file.entry
  /\ pc \in Working /\ Sane =>
       /\ pc = "copy" => Copied(file, bias, memory, i)
       /\ pc = "scan" =>
            /\ Dynamics(file) # {} /\ Patched(file, bias, memory, {})
            /\ \E k \in 0..Min(Ends(file)) :
                 d = bias + (DynamicHeader(file).vaddr + k) /\ Said(file, bias, dynamic, k)
       /\ pc = "rela" =>
            /\ TableRead /\ i \in 0..Value(file, "DT_RELASZ")
            /\ Patched(file, bias, memory, RelasTill(file, i))
       /\ pc = "jmprel" =>
            /\ TableRead /\ i \in 0..Value(file, "DT_PLTRELSZ")
            /\ Patched(file, bias, memory, JmprelsTill(file, i))
       /\ pc \in {"done", "loaded"} => Loaded(file, bias, memory)
       /\ pc # "lost"

LEMMA InitCount == Init => CountInv
BY DEF Init, CountInv, Working

\* Steps after the pages are allocated leave what CountInv is about alone.
LEMMA WorkCount ==
  ASSUME CountInv, pc \in Working, pc' \in Working, UNCHANGED <<file, loadBase, totalPages>>
  PROVE  CountInv'
<1>1. pc \notin {"read", "check"} /\ pc' \notin {"read", "check"}
  BY DEF Working
<1> QED
  BY <1>1 DEF CountInv, Accepted

LEMMA StepCount == CountInv /\ [Next]_vars => CountInv'
<1> SUFFICES ASSUME CountInv, [Next]_vars PROVE CountInv'
  OBVIOUS
<1>1. CASE read_call \/ read_call_fails
  BY <1>1 DEF read_call, read_call_fails, fails_giving_back, CountInv, Working, loaded, reading
<1>2. CASE read_exit
  <2>1. /\ pc = "read" /\ pc' = "check" /\ UNCHANGED <<file, totalPages, i, outside>>
        /\ i = 1 /\ totalPages = 0 /\ outside = {} /\ file \in Files
    BY <1>2 DEF read_exit, CountInv, Working, loaded
  <2>2. ASSUME file.valid, Loads(file) # {}
        PROVE  /\ i \in 1..(Len(file.phdr) + 1)
               /\ IsFiniteSet(Counted(file, i)) /\ Cardinality(Counted(file, i)) <= totalPages
    <3>1. SegmentsFit(file) /\ Loads(file) \subseteq 1..Len(file.phdr)
      BY <2>1, <2>2, SegmentsOf
    <3>2. Len(file.phdr) \in Nat
      BY <3>1 DEF SegmentsFit
    <3>3. {m \in Loads(file) : m < i} = {}
      BY <2>1, <3>1, <3>2
    <3>4. Counted(file, i) = {}
      BY <3>3 DEF Counted
    <3>5. IsFiniteSet({}) /\ Cardinality({}) = 0
      BY FS_EmptySet
    <3>6. IsFiniteSet(Counted(file, i)) /\ Cardinality(Counted(file, i)) = 0
      BY <3>4, <3>5
    <3>7. i \in 1..(Len(file.phdr) + 1) /\ 0 <= totalPages
      BY <2>1, <3>2
    <3> QED BY <3>6, <3>7
  <2> QED BY <2>1, <2>2 DEF CountInv, Working
<1>3. CASE load_refuses \/ allocate_pages_fails
  BY <1>3 DEF load_refuses, allocate_pages_fails, CountInv, Working
<1>4. CASE count_pages
  <2> DEFINE more == IF i \in Loads(file) THEN pages(file.phdr[i]) ELSE 0
  <2>1. /\ pc = "check" /\ pc' = "check" /\ UNCHANGED <<file, outside>> /\ file \in Files
        /\ file.valid /\ Loads(file) # {} /\ i \in Headers(file) /\ outside = {}
        /\ totalPages \in Nat /\ totalPages' = totalPages + more /\ i' = i + 1
        /\ IsFiniteSet(Counted(file, i)) /\ Cardinality(Counted(file, i)) <= totalPages
    BY <1>4 DEF count_pages, CountInv, Working
  <2>2. /\ more \in Nat /\ IsFiniteSet(Counted(file, i + 1))
        /\ Cardinality(Counted(file, i + 1)) <= Cardinality(Counted(file, i)) + more
    BY <2>1, OneMore
  <2>3. Cardinality(Counted(file, i)) \in Nat /\ Cardinality(Counted(file, i + 1)) \in Nat
    BY <2>1, <2>2, FS_CardinalityType
  <2>4. i + 1 \in 1..(Len(file.phdr) + 1)
    <3>1. i \in 1..Len(file.phdr) /\ Len(file.phdr) \in Nat
      BY <2>1, SegmentsOf DEF SegmentsFit
    <3> QED BY <3>1
  <2> HIDE DEF more
  <2>5. totalPages + more \in Nat /\ Cardinality(Counted(file, i + 1)) <= totalPages + more
    BY <2>1, <2>2, <2>3
  <2> QED BY <2>1, <2>2, <2>4, <2>5 DEF CountInv, Working
<1>5. CASE allocate_pages
  <2>1. /\ pc = "check" /\ pc' = "copy" /\ UNCHANGED <<file, totalPages>> /\ file \in Files
        /\ file.valid /\ Loads(file) # {} /\ i \notin Headers(file) /\ loadBase' \in Bases
        /\ totalPages \in Nat /\ i \in 1..(Len(file.phdr) + 1)
        /\ IsFiniteSet(Counted(file, i)) /\ Cardinality(Counted(file, i)) <= totalPages
    BY <1>5 DEF allocate_pages, CountInv, Working
  <2>2. i = Len(file.phdr) + 1
    <3>1. Headers(file) = 1..Len(file.phdr) /\ Len(file.phdr) \in Nat
      BY <2>1, SegmentsOf DEF SegmentsFit
    <3> QED BY <2>1, <3>1
  <2>3. Accepted(file, loadBase')
    BY <2>1 DEF Accepted
  <2>4. PageGap(file) \/ highestEnd(file) - originalBase(file) <= totalPages * PAGE_SIZE
    BY <2>1, <2>2, <2>3, EnoughPages
  <2> QED BY <2>1, <2>3, <2>4 DEF CountInv, Working
<1>6. CASE copy_segment \/ find_dynamic
  BY <1>6, WorkCount DEF copy_segment, copies_segment, find_dynamic, Working, loaded
<1>7. CASE scan_dynamic \/ scan_ends \/ scan_gets_lost
  BY <1>7, WorkCount DEF scan_dynamic, scan_ends, scan_gets_lost, Working, loaded
<1>8. CASE apply_rela \/ rela_ends \/ apply_jmprel \/ jmprel_ends
  BY <1>8, WorkCount DEF apply_rela, rela_ends, apply_jmprel, jmprel_ends, Working, loaded
<1>9. CASE load_done
  BY <1>9, WorkCount DEF load_done, Working
<1>10. CASE Stopped \/ UNCHANGED vars
  BY <1>10 DEF Stopped, vars, CountInv, loaded
<1> QED
  BY <1>1, <1>2, <1>3, <1>4, <1>5, <1>6, <1>7, <1>8, <1>9, <1>10 DEF Next

\* What is written between the ends of the kernel is written into the pages.
LEMMA InPages ==
  ASSUME CountInv, pc \in Working, ~PageGap(file), NEW p \in Int,
         p \in loadBase..(loadBase + (highestEnd(file) - originalBase(file)) - 1)
  PROVE  p \in Allocated
<1> DEFINE n == highestEnd(file) - originalBase(file)
           t == totalPages * PAGE_SIZE
<1>1. loadBase \in Nat /\ n \in Int /\ t \in Int /\ n <= t
  <2>1. Accepted(file, loadBase) /\ totalPages \in Nat /\ n <= t
    BY DEF CountInv
  <2>2. PAGE_SIZE \in Nat
    BY KernelAssumption
  <2>3. t \in Int
    BY <2>1, <2>2
  <2> QED BY <2>1, <2>3, Extent
<1> HIDE DEF n, t
<1>2. p \in loadBase..(loadBase + n - 1)
  BY DEF n
<1>3. p \in loadBase..(loadBase + t - 1)
  BY <1>1, <1>2
<1> QED
  BY <1>3 DEF Allocated, t


LEMMA InExtents ==
  ASSUME NEW f, NEW b, Accepted(f, b), NEW v \in Int, InMemory(f, v)
  PROVE  v \in Extents(f)
<1>1. PICK n \in Loads(f) : v >= f.phdr[n].vaddr /\ v < f.phdr[n].vaddr + f.phdr[n].memsz
  BY DEF InMemory, Covers
<1> DEFINE o == originalBase(f)
           h == highestEnd(f)
           a == f.phdr[n].vaddr
           m == f.phdr[n].memsz
<1>2. /\ o \in Nat /\ h \in Nat /\ o <= a /\ a + m <= h /\ a \in Nat /\ m \in Nat
      /\ v >= a /\ v < a + m
  BY <1>1, Extent, Segments
<1> HIDE DEF o, h, a, m
<1>3. v \in o..(h - 1)
  BY <1>2
<1> QED
  BY <1>3 DEF Extents, o, h

\* Every loaded word is copied, when all segments are.
LEMMA CopiedAll ==
  ASSUME NEW f, NEW b, Accepted(f, b), NEW z, NEW m, NEW k, k \notin Headers(f),
         k \in 1..(Len(f.phdr) + 1), Copied(f, z, m, k)
  PROVE  Patched(f, z, m, {})
<1>1. Headers(f) = 1..Len(f.phdr) /\ Len(f.phdr) \in Nat /\ Loads(f) \subseteq Headers(f)
  BY Segments DEF SegmentsFit
<1>2. \A n \in Loads(f) : n < k
  BY <1>1
<1> QED
  BY <1>2 DEF Copied, Patched, InMemory

\* One more entry of the dynamic table.
LEMMA OneMoreSaid ==
  ASSUME NEW f, NEW b, Dynamic(f, b), NEW z, NEW dyn, DOMAIN dyn = DynamicTags,
         NEW k \in 0..(Min(Ends(f)) - 1), Said(f, z, dyn, k),
         NEW e, e = DynamicEntry(f, k), NEW dyn1,
         dyn1 = IF e.tag \in DOMAIN dyn
                THEN [dyn EXCEPT ![e.tag] = IF e.tag \in Sizes THEN e.val ELSE z + e.val]
                ELSE dyn
  PROVE  Said(f, z, dyn1, k + 1) /\ DOMAIN dyn1 = DynamicTags
<1>1. Min(Ends(f)) \in Nat
  BY TableLoaded
<1>2. k \in Int /\ k < k + 1
  BY <1>1
<1>3. k \in With(f, e.tag)
  BY DEF With
<1>4. \A tag : \A j \in With(f, tag) : j \in Int
  BY <1>1 DEF With
<1>5. \A tag : k \in With(f, tag) => tag = e.tag
  BY DEF With
<1>6. ASSUME e.tag \in DynamicTags PROVE Value(f, e.tag) = e.val
  <2>1. \A j \in With(f, e.tag) : j = k
    BY <1>3, <1>6 DEF Dynamic, DynamicFits
  <2>2. (CHOOSE j \in With(f, e.tag) : TRUE) = k
    BY <1>3, <2>1
  <2> QED BY <1>3, <2>2 DEF Value
<1>7. ASSUME NEW tag \in DynamicTags
      PROVE  dyn1[tag] = IF \E j \in With(f, tag) : j < k + 1
                         THEN IF tag \in Sizes THEN Value(f, tag) ELSE z + Value(f, tag)
                         ELSE 0
  <2>1. CASE tag = e.tag
    <3>1. \E j \in With(f, tag) : j < k + 1
      BY <1>2, <1>3, <2>1
    <3>2. dyn1[tag] = IF tag \in Sizes THEN e.val ELSE z + e.val
      BY <2>1
    <3> QED BY <1>6, <2>1, <3>1, <3>2
  <2>2. CASE tag # e.tag
    <3>1. dyn1[tag] = dyn[tag]
      BY <2>2
    <3>2. \A j \in With(f, tag) : j < k + 1 <=> j < k
      <4>1. ASSUME NEW j \in With(f, tag) PROVE j < k + 1 <=> j < k
        <5>1. j \in Int /\ j # k
          BY <1>4, <1>5, <2>2
        <5> QED BY <1>2, <5>1
      <4> QED BY <4>1
    <3> QED BY <3>1, <3>2 DEF Said
  <2> QED BY <2>1, <2>2
<1> QED
  BY <1>7 DEF Said

\* What the loader knows when the whole table is read.
LEMMA AllSaid ==
  ASSUME NEW f, NEW b, Dynamic(f, b), NEW z, NEW dyn, Said(f, z, dyn, Min(Ends(f)))
  PROVE  /\ dyn["DT_RELASZ"] = Value(f, "DT_RELASZ")
         /\ dyn["DT_PLTRELSZ"] = Value(f, "DT_PLTRELSZ")
         /\ With(f, "DT_RELA") # {} => dyn["DT_RELA"] = z + Value(f, "DT_RELA")
         /\ With(f, "DT_JMPREL") # {} => dyn["DT_JMPREL"] = z + Value(f, "DT_JMPREL")
         /\ With(f, "DT_SYMTAB") # {} => dyn["DT_SYMTAB"] = z + f.symtab
<1>1. Min(Ends(f)) \in Nat
  BY TableLoaded
<1>2. \A tag : \A j \in With(f, tag) : j < Min(Ends(f))
  BY <1>1 DEF With
<1>3. \A tag \in DynamicTags :
        dyn[tag] = IF With(f, tag) # {}
                   THEN IF tag \in Sizes THEN Value(f, tag) ELSE z + Value(f, tag) ELSE 0
  BY <1>2 DEF Said
<1>4. \A tag : With(f, tag) = {} => Value(f, tag) = 0
  BY DEF Value
<1>5. f.symtab = Value(f, "DT_SYMTAB")
  BY DEF Dynamic, DynamicFits
<1> QED
  BY <1>3, <1>4, <1>5 DEF DynamicTags, Sizes

\* A word no relocation is for is as it was linked,
LEMMA NotPatched ==
  ASSUME NEW f, NEW b, Dynamic(f, b), NEW z, NEW m, NEW S \in SUBSET Entries(f),
         Patched(f, z, m, S), NEW v \in Int, InMemory(f, v),
         \A w \in S : Linked(f, w).off # v
  PROVE  m[z + v] = Linked(f, v)
<1>1. v \in Extents(f)
  BY InExtents DEF Dynamic
<1> QED
  BY <1>1 DEF Patched

\* so that the loader finds the relocation, the symbol and the word it is for.
LEMMA FindsRelocation ==
  ASSUME NEW f, NEW b, Dynamic(f, b), NEW z, NEW m, NEW S \in SUBSET Entries(f),
         z = b - originalBase(f), Patched(f, z, m, S), NEW dyn, Said(f, z, dyn, Min(Ends(f))),
         NEW v \in Entries(f), NEW r, r = m[z + v]
  PROVE  /\ r = Linked(f, v) /\ r \in f.relocs
         /\ v \notin S => m[z + r.off] = Linked(f, r.off)
         /\ Symbol(f, z, dyn["DT_SYMTAB"], m, r)
<1>1. v \in Int /\ InMemory(f, v) /\ \A w \in Entries(f) : Linked(f, w) \in f.relocs
  BY EntriesLoaded
<1>2. r = Linked(f, v) /\ r \in f.relocs
  <2>1. \A s \in f.relocs : s.off # v
    BY RelocationFacts
  <2> QED BY <1>1, <2>1, NotPatched
<1>3. ASSUME v \notin S PROVE m[z + r.off] = Linked(f, r.off)
  <2>1. \A w \in S : Linked(f, w).off # r.off
    BY <1>2, <1>3 DEF Dynamic, RelocationsFit, Entries
  <2> QED BY <1>2, <2>1, NotPatched, RelocationFacts
<1>4. With(f, "DT_SYMTAB") # {} => dyn["DT_SYMTAB"] = z + f.symtab
  BY AllSaid
<1>5. ASSUME r.sym # 0
      PROVE  m[dyn["DT_SYMTAB"] + r.sym] = Linked(f, f.symtab + r.sym)
  <2>1. /\ With(f, "DT_SYMTAB") # {} /\ InMemory(f, f.symtab + r.sym) /\ r.sym \in Int
        /\ \A s \in f.relocs : s.off # f.symtab + r.sym
    BY <1>2, <1>5, RelocationFacts
  <2>2. f.symtab \in Int /\ z \in Int
    <3>1. f.symtab \in Int
      BY <2>1, SymtabThere
    <3>2. b \in Int /\ originalBase(f) \in Int
      BY Extent DEF Dynamic
    <3> QED BY <3>1, <3>2
  <2>3. m[z + (f.symtab + r.sym)] = Linked(f, f.symtab + r.sym)
    <3>1. f.symtab + r.sym \in Int /\ \A w \in S : Linked(f, w).off # f.symtab + r.sym
      BY <1>1, <2>1, <2>2
    <3> QED BY <2>1, <3>1, NotPatched
  <2>4. z + (f.symtab + r.sym) = (z + f.symtab) + r.sym
    BY <2>1, <2>2
  <2> QED BY <1>4, <2>1, <2>3, <2>4
<1> QED
  BY <1>2, <1>3, <1>4, <1>5 DEF Symbol

\* One more relocation.
LEMMA OneMorePatched ==
  ASSUME NEW f, NEW z, NEW m, NEW S, Patched(f, z, m, S), NEW v, NEW m1,
         \A x \in Extents(f) : InMemory(f, x) =>
           m1[z + x] = IF x = Linked(f, v).off THEN Image(f, z, x) ELSE m[z + x]
  PROVE  Patched(f, z, m1, S \cup {v})
BY DEF Patched

\* When all of them are applied, the image is in memory.
LEMMA PatchedAll ==
  ASSUME NEW f, NEW b, Dynamic(f, b), NEW z, NEW m, Patched(f, z, m, Entries(f))
  PROVE  Loaded(f, z, m)
<1>1. f.relocs = {Linked(f, w) : w \in Entries(f)}
  BY DEF Dynamic, RelocationsFit, Entries
<1>2. ASSUME NEW v \in Extents(f), InMemory(f, v) PROVE m[z + v] = Image(f, z, v)
  <2>1. CASE \E w \in Entries(f) : Linked(f, w).off = v
    BY <1>2, <2>1 DEF Patched
  <2>2. CASE \A w \in Entries(f) : Linked(f, w).off # v
    BY <1>1, <1>2, <2>2, ImageElsewhere DEF Patched
  <2> QED BY <2>1, <2>2
<1> QED
  BY <1>2 DEF Loaded


------------------------------------------------------------------------------
(* Steps.                                                                  *)

LoaderInv == CountInv /\ LoadInv /\ WritesInside

\* A write is inside, or need not be.
LEMMA StoreInside ==
  ASSUME LoaderInv, UNCHANGED <<file, buffer>>, NEW f, Store(f),
         Sane /\ ~PageGap(file) => DOMAIN f \subseteq Allocated
  PROVE  WritesInside'
BY DEF LoaderInv, WritesInside, Sane, ShortRead, Store

LEMMA QuietInside ==
  ASSUME LoaderInv, UNCHANGED <<file, buffer, outside>>
  PROVE  WritesInside'
BY DEF LoaderInv, WritesInside, ShortRead

LEMMA SegmentCopied ==
  ASSUME Accepted(file, loadBase), NEW k \in Loads(file), ~ShortRead,
         Copied(file, bias, memory, k), NEW h, h = file.phdr[k],
         NEW dest, dest = loadBase + (h.vaddr - originalBase(file)),
         NEW m1, m1 = [a \in Addresses |->
                        IF a \in dest..(dest + h.memsz - 1)
                        THEN Segment(h, h.memsz, dest)[a] ELSE memory[a]]
  PROVE  Copied(file, bias, m1, k + 1)
<1> DEFINE o == originalBase(file)
           D == dest..(dest + h.memsz - 1)
<1>1. /\ o \in Int /\ loadBase \in Int /\ h.vaddr \in Nat /\ h.memsz \in Nat
      /\ h.offset \in Nat /\ h.filesz \in Nat /\ h.filesz <= h.memsz
      /\ Loads(file) \subseteq Int
  <2>1. k \in Headers(file) /\ SegmentsFit(file) /\ Loads(file) \subseteq Int
    BY Segments
  <2>2. h.filesz <= h.memsz
    BY <2>1 DEF SegmentsFit
  <2> QED BY <2>1, <2>2, Segments, Extent
<1>2. bias = loadBase - o
  BY DEF bias
<1> HIDE DEF o
<1>3. ASSUME NEW n \in Loads(file), n < k + 1, NEW v \in Extents(file), Covers(file.phdr[n], v)
      PROVE  m1[bias + v] = Linked(file, v)
  <2>1. v \in Int /\ InMemory(file, v)
    <3>1. v \in o..(highestEnd(file) - 1) /\ highestEnd(file) \in Int
      BY <1>3, Extent DEF Extents, o
    <3> QED BY <1>1, <1>3, <3>1 DEF InMemory
  <2>2. bias + v \in Addresses
    <3>1. (loadBase - originalBase(file)) + v \in Addresses
      BY <2>1, Inside
    <3> QED BY <3>1 DEF bias
  <2>3. bias + v \in D <=> Covers(h, v)
    BY <1>1, <1>2, <2>1 DEF Covers, o
  <2>4. CASE Covers(h, v)
    <3>1. m1[bias + v] = Segment(h, h.memsz, dest)[bias + v]
      BY <2>2, <2>3, <2>4
    <3>2. Segment(h, h.memsz, dest)[bias + v]
            = IF bias + v < dest + h.filesz
              THEN buffer[h.offset + (bias + v) - dest] ELSE Num(0)
      BY <2>3, <2>4 DEF Segment
    <3>3. Linked(file, v) = IF v < h.vaddr + h.filesz
                            THEN file.words[h.offset + v - h.vaddr] ELSE Num(0)
      BY <2>1, <2>4, LinkedIn
    <3>4. /\ bias + v < dest + h.filesz <=> v < h.vaddr + h.filesz
          /\ h.offset + (bias + v) - dest = h.offset + v - h.vaddr
      BY <1>1, <1>2, <2>1 DEF o
    <3> QED BY <3>1, <3>2, <3>3, <3>4 DEF ShortRead
  <2>5. CASE ~Covers(h, v)
    <3>1. n < k
      <4>1. n # k
        BY <1>3, <2>5
      <4> QED BY <1>1, <1>3, <4>1
    <3>2. memory[bias + v] = Linked(file, v)
      BY <1>3, <3>1 DEF Copied
    <3> QED BY <2>2, <2>3, <2>5, <3>2
  <2> QED BY <2>4, <2>5
<1> QED
  BY <1>3 DEF Copied

LEMMA StepCopy == LoaderInv /\ copy_segment => LoadInv' /\ WritesInside'
<1> SUFFICES ASSUME LoaderInv, copy_segment PROVE LoadInv' /\ WritesInside'
  OBVIOUS
<1> DEFINE h == file.phdr[i]
           dest == loadBase + (h.vaddr - originalBase(file))
<1>1. /\ pc = "copy" /\ pc' = "copy" /\ i \in Headers(file) /\ i' = i + 1
      /\ UNCHANGED <<file, buffer, loadBase, totalPages, dynamic>>
      /\ Accepted(file, loadBase) /\ pc \in Working
  BY DEF copy_segment, copies_segment, reading, loaded, LoaderInv, CountInv, Working
<1>2. /\ i + 1 \in 1..(Len(file.phdr) + 1) /\ i \in Int /\ Loads(file) \subseteq Int
      /\ h.vaddr \in Nat /\ h.memsz \in Nat
  <2>1. i \in 1..Len(file.phdr) /\ Len(file.phdr) \in Nat /\ Loads(file) \subseteq Int
    BY <1>1, Segments DEF SegmentsFit
  <2>2. h.vaddr \in Nat /\ h.memsz \in Nat
    BY <1>1, Segments
  <2> QED BY <2>1, <2>2
<1>3. bias' = bias
  BY <1>1 DEF bias
<1>4. Sane => Copied(file, bias, memory, i)
  BY <1>1 DEF LoaderInv, LoadInv
<1>5. CASE i \notin Loads(file)
  <2>1. UNCHANGED <<memory, outside>>
    BY <1>1, <1>5 DEF copy_segment, copies_segment, Loads
  <2>2. Sane => Copied(file, bias, memory, i + 1)
    <3>1. \A n \in Loads(file) : n < i + 1 => n < i
      BY <1>2, <1>5
    <3> QED BY <1>4, <3>1 DEF Copied
  <2>3. LoadInv'
    BY <1>1, <1>2, <1>3, <2>1, <2>2 DEF LoaderInv, LoadInv, Sane, ShortRead
  <2> QED BY <1>1, <2>1, <2>3, QuietInside
<1>6. CASE i \in Loads(file)
  <2>1. Store(Segment(h, h.memsz, dest))
    BY <1>1, <1>6 DEF copy_segment, copies_segment, Loads
  <2>2. DOMAIN Segment(h, h.memsz, dest) = dest..(dest + h.memsz - 1)
    BY DEF Segment
  <2>3. Sane => Copied(file, bias, memory', i + 1)
    <3>1. memory' = [a \in Addresses |->
                       IF a \in dest..(dest + h.memsz - 1)
                       THEN Segment(h, h.memsz, dest)[a] ELSE memory[a]]
      BY <2>1, <2>2 DEF Store
    <3> HIDE DEF h, dest
    <3> QED BY <1>1, <1>4, <1>6, <3>1, SegmentCopied DEF Sane, h, dest
  <2>4. LoadInv'
    BY <1>1, <1>2, <1>3, <2>3 DEF LoaderInv, LoadInv, Sane, ShortRead
  <2>5. ASSUME ~PageGap(file), NEW p \in dest..(dest + h.memsz - 1) PROVE p \in Allocated
    <3> DEFINE o == originalBase(file)
               e == highestEnd(file)
    <3>1. /\ o \in Nat /\ e \in Nat /\ loadBase \in Nat /\ o <= h.vaddr /\ h.vaddr + h.memsz <= e
          /\ dest = loadBase + (h.vaddr - o)
      BY <1>1, <1>6, Extent
    <3> HIDE DEF o, e, h, dest
    <3>2. p \in Int /\ p \in loadBase..(loadBase + (e - o) - 1)
      BY <1>2, <2>5, <3>1, SMTT(30)
    <3>3. CountInv /\ pc \in Working
      BY <1>1 DEF LoaderInv
    <3>4. p \in loadBase..(loadBase + (highestEnd(file) - originalBase(file)) - 1)
      BY <3>2 DEF o, e
    <3> QED BY <2>5, <3>2, <3>3, <3>4, InPages
  <2> QED BY <1>1, <2>1, <2>2, <2>4, <2>5, StoreInside
<1> QED
  BY <1>5, <1>6


LEMMA StepFind == LoaderInv /\ find_dynamic => LoadInv' /\ WritesInside'
<1> SUFFICES ASSUME LoaderInv, find_dynamic PROVE LoadInv' /\ WritesInside'
  OBVIOUS
<1>1. /\ pc = "copy" /\ i \notin Headers(file) /\ i \in 1..(Len(file.phdr) + 1)
      /\ UNCHANGED <<file, buffer, loadBase, memory, dynamic, outside>>
      /\ Accepted(file, loadBase) /\ pc \in Working /\ pc' \in {"done", "scan"}
      /\ DOMAIN dynamic = DynamicTags /\ \A tag \in DynamicTags : dynamic[tag] = 0
  BY DEF find_dynamic, reading, loaded, LoaderInv, CountInv, LoadInv, Working
<1>2. bias' = bias
  BY <1>1 DEF bias
<1>3. Sane => Patched(file, bias, memory, {})
  BY <1>1, CopiedAll DEF LoaderInv, LoadInv
<1>4. CASE Dynamics(file) = {}
  <2>1. pc' = "done" /\ file.relocs = {}
    BY <1>1, <1>4, KernelAssumption DEF find_dynamic, Accepted
  <2>2. Sane => Loaded(file, bias, memory)
    BY <1>3, <2>1, ImageElsewhere DEF Patched, Loaded
  <2>3. LoadInv'
    BY <1>1, <1>2, <2>1, <2>2 DEF LoadInv, Sane, ShortRead
  <2> QED BY <1>1, <2>3, QuietInside
<1>5. CASE Dynamics(file) # {}
  <2>1. pc' = "scan" /\ d' = bias + DynamicHeader(file).vaddr
    BY <1>5 DEF find_dynamic, DynamicHeader
  <2>2. ASSUME Sane
        PROVE  /\ 0 \in 0..Min(Ends(file)) /\ d' = bias + (DynamicHeader(file).vaddr + 0)
               /\ Said(file, bias, dynamic, 0)
    <3>1. Dynamic(file, loadBase)
      BY <1>1, <1>5, <2>2, IsDynamic DEF Sane
    <3>2. Min(Ends(file)) \in Nat /\ DynamicHeader(file).vaddr \in Nat
      BY <3>1, TableLoaded
    <3>3. \A tag : \A j \in With(file, tag) : ~(j < 0)
      BY <3>2 DEF With
    <3>4. Said(file, bias, dynamic, 0)
      BY <1>1, <3>3 DEF Said
    <3> QED BY <2>1, <3>2, <3>4
  <2>3. LoadInv'
    BY <1>1, <1>2, <1>3, <1>5, <2>1, <2>2 DEF LoadInv, Sane, ShortRead
  <2> QED BY <1>1, <2>3, QuietInside
<1> QED
  BY <1>4, <1>5

\* While the table is read, the entry at d is the next.
LEMMA ScanEntry ==
  ASSUME LoaderInv, pc = "scan", Sane, NEW k \in 0..Min(Ends(file)),
         d = bias + (DynamicHeader(file).vaddr + k)
  PROVE  /\ Dynamic(file, loadBase) /\ d \in Addresses /\ d \in Int
         /\ memory[d] = DynamicEntry(file, k)
         /\ memory[d] \in DT_NULL <=> k = Min(Ends(file))
<1>1. /\ Accepted(file, loadBase) /\ Dynamics(file) # {} /\ Patched(file, bias, memory, {})
  BY DEF LoaderInv, CountInv, LoadInv, Working
<1>2. Dynamic(file, loadBase)
  BY <1>1, IsDynamic DEF Sane
<1> DEFINE a == DynamicHeader(file).vaddr
           e == Min(Ends(file))
<1>3. /\ a \in Nat /\ e \in Nat /\ e \in Ends(file) /\ InMemory(file, a + k)
      /\ \A j \in Ends(file) : e <= j
  BY <1>2, TableLoaded
<1>4. a + k \in Int /\ k \in Nat
  BY <1>3
<1>5. d \in Addresses /\ Limit \in Nat
  <2>1. (loadBase - originalBase(file)) + (a + k) \in Addresses /\ Limit \in Nat
    BY <1>1, <1>3, <1>4, Inside, Extent
  <2> QED BY <2>1 DEF bias
<1>6. memory[d] = DynamicEntry(file, k)
  <2>1. a + k \in Extents(file)
    BY <1>1, <1>3, <1>4, InExtents
  <2> QED BY <1>1, <1>3, <2>1 DEF Patched, DynamicEntry
<1>7. memory[d] \in DT_NULL <=> k = e
  <2>1. e \in 0..(DynamicHeader(file).memsz - 1) /\ DynamicEntry(file, e) \in DT_NULL
    BY <1>3 DEF Ends
  <2>2. ASSUME DynamicEntry(file, k) \in DT_NULL PROVE k = e
    <3>1. DynamicHeader(file).memsz \in Int
      <4>1. Dynamics(file) \in SUBSET Nat /\ Dynamics(file) # {}
        BY <1>1, Segments DEF Dynamics
      <4>2. Min(Dynamics(file)) \in Headers(file)
        BY <4>1, MinIsLeast DEF Dynamics
      <4> QED BY <1>1, <4>2, Segments DEF DynamicHeader
    <3>2. k \in 0..(DynamicHeader(file).memsz - 1)
      BY <1>3, <1>4, <2>1, <3>1
    <3>3. k \in Ends(file)
      BY <2>2, <3>2 DEF Ends
    <3>4. e <= k
      BY <1>3, <3>3
    <3> QED BY <1>3, <1>4, <3>4
  <2> QED BY <1>6, <2>1, <2>2
<1> QED
  BY <1>2, <1>5, <1>6, <1>7 DEF Addresses

LEMMA StepScan == LoaderInv /\ scan_dynamic => LoadInv' /\ WritesInside'
<1> SUFFICES ASSUME LoaderInv, scan_dynamic PROVE LoadInv' /\ WritesInside'
  OBVIOUS
<1> DEFINE e == memory[d]
<1>1. /\ pc = "scan" /\ pc' = "scan" /\ d' = d + 1 /\ e \notin DT_NULL
      /\ UNCHANGED <<file, buffer, loadBase, memory, outside>> /\ pc \in Working
      /\ DOMAIN dynamic = DynamicTags
      /\ dynamic' = IF e.tag \in DOMAIN dynamic
                    THEN [dynamic EXCEPT ![e.tag] =
                            IF e.tag \in Sizes THEN e.val ELSE bias + e.val]
                    ELSE dynamic
  BY DEF scan_dynamic, reading, loaded, LoaderInv, LoadInv, Working, Sizes
<1>2. bias' = bias
  BY <1>1 DEF bias
<1>3. DOMAIN dynamic' = DynamicTags
  BY <1>1
<1>4. ASSUME Sane
      PROVE  /\ Dynamics(file) # {} /\ Patched(file, bias, memory, {})
             /\ \E k \in 0..Min(Ends(file)) :
                  d' = bias + (DynamicHeader(file).vaddr + k) /\ Said(file, bias, dynamic', k)
  <2>1. Dynamics(file) # {} /\ Patched(file, bias, memory, {})
    BY <1>1, <1>4 DEF LoaderInv, LoadInv
  <2>2. PICK k \in 0..Min(Ends(file)) :
          d = bias + (DynamicHeader(file).vaddr + k) /\ Said(file, bias, dynamic, k)
    BY <1>1, <1>4 DEF LoaderInv, LoadInv
  <2>3. /\ Dynamic(file, loadBase) /\ e = DynamicEntry(file, k) /\ k # Min(Ends(file))
        /\ d \in Int
    BY <1>1, <1>4, <2>2, ScanEntry
  <2>4. Min(Ends(file)) \in Nat /\ DynamicHeader(file).vaddr \in Nat /\ bias \in Int
    BY <2>3, TableLoaded, Extent DEF Dynamic, bias
  <2>5. /\ k \in 0..(Min(Ends(file)) - 1) /\ k + 1 \in 0..Min(Ends(file))
        /\ d' = bias + (DynamicHeader(file).vaddr + (k + 1))
    BY <1>1, <2>2, <2>3, <2>4
  <2> HIDE DEF e
  <2>6. Said(file, bias, dynamic', k + 1)
    BY <1>1, <2>2, <2>3, <2>5, OneMoreSaid
  <2> QED BY <2>1, <2>5, <2>6
<1>5. LoadInv'
  <2> HIDE DEF e
  <2> QED BY <1>1, <1>2, <1>3, <1>4 DEF LoadInv, Sane, ShortRead
<1> QED
  BY <1>1, <1>5, QuietInside

LEMMA StepScanEnds == LoaderInv /\ (scan_ends \/ scan_gets_lost) => LoadInv' /\ WritesInside'
<1> SUFFICES ASSUME LoaderInv, scan_ends \/ scan_gets_lost PROVE LoadInv' /\ WritesInside'
  OBVIOUS
<1>1. /\ pc = "scan" /\ UNCHANGED <<file, buffer, loadBase, memory, dynamic, outside>>
      /\ pc \in Working /\ DOMAIN dynamic = DynamicTags
  BY DEF scan_ends, scan_gets_lost, reading, loaded, LoaderInv, LoadInv, Working
<1>2. bias' = bias
  BY <1>1 DEF bias
<1>3. ASSUME Sane
      PROVE  /\ scan_ends /\ Dynamic(file, loadBase) /\ Dynamics(file) # {}
             /\ Patched(file, bias, memory, {})
             /\ Said(file, bias, dynamic, Min(Ends(file)))
  <2>1. PICK k \in 0..Min(Ends(file)) :
          d = bias + (DynamicHeader(file).vaddr + k) /\ Said(file, bias, dynamic, k)
    BY <1>1, <1>3 DEF LoaderInv, LoadInv
  <2>2. /\ Dynamic(file, loadBase) /\ d \in Addresses
        /\ memory[d] \in DT_NULL <=> k = Min(Ends(file))
    BY <1>1, <1>3, <2>1, ScanEntry
  <2>3. scan_ends /\ k = Min(Ends(file))
    BY <2>2 DEF scan_ends, scan_gets_lost
  <2> QED BY <1>1, <1>3, <2>1, <2>2, <2>3 DEF LoaderInv, LoadInv
<1>4. CASE scan_gets_lost
  <2>1. pc' = "lost" /\ ~Sane
    <3>1. ~(d \in Addresses) /\ pc' = "lost"
      BY <1>4 DEF scan_gets_lost
    <3> QED BY <1>3, <3>1 DEF scan_ends
  <2>2. LoadInv'
    BY <1>1, <2>1 DEF LoadInv, Sane, ShortRead
  <2> QED BY <1>1, <2>2, QuietInside
<1>5. CASE scan_ends
  <2>1. pc' = "rela" /\ i' = 0
    BY <1>5 DEF scan_ends
  <2>2. RelasTill(file, 0) = {}
    BY DEF RelasTill
  <2>3. Sane => 0 \in 0..Value(file, "DT_RELASZ")
    BY <1>3 DEF Dynamic, DynamicFits
  <2>4. LoadInv'
    BY <1>1, <1>2, <1>3, <2>1, <2>2, <2>3 DEF LoadInv, TableRead, Sane, ShortRead
  <2> QED BY <1>1, <2>4, QuietInside
<1> QED
  BY <1>4, <1>5


\* A relocation changes the one word it is for, inside the pages.
LEMMA StoreOne ==
  ASSUME LoaderInv, pc \in Working, Dynamic(file, loadBase), NEW r \in file.relocs,
         NEW w, Store([a \in {bias + r.off} |-> w])
  PROVE  /\ \A x \in Extents(file) : InMemory(file, x) =>
              memory'[bias + x] = IF x = r.off THEN w ELSE memory[bias + x]
         /\ ~PageGap(file) => DOMAIN [a \in {bias + r.off} |-> w] \subseteq Allocated
<1> DEFINE p == bias + r.off
<1>1. InMemory(file, r.off) /\ r.off \in Int /\ Accepted(file, loadBase)
  BY RelocationFacts DEF Dynamic
<1>2. highestEnd(file) \in Int /\ originalBase(file) \in Int /\ loadBase \in Int
  BY <1>1, Extent
<1>3. bias \in Int /\ bias = loadBase - originalBase(file)
  BY <1>2 DEF bias
<1>4. memory' = [a \in Addresses |-> IF a = p THEN w ELSE memory[a]]
  BY DEF Store
<1> HIDE DEF p
<1>5. ASSUME NEW x \in Extents(file), InMemory(file, x)
      PROVE  memory'[bias + x] = IF x = r.off THEN w ELSE memory[bias + x]
  <2>1. x \in Int
    BY <1>2, <1>5 DEF Extents
  <2>2. bias + x \in Addresses
    BY <1>1, <1>3, <1>5, <2>1, Inside
  <2>3. bias + x = p <=> x = r.off
    <3> DEFINE y == r.off
               z == bias
    <3>1. z \in Int /\ y \in Int /\ p = z + y
      BY <1>1, <1>3 DEF p
    <3> HIDE DEF y, z
    <3>2. z + x = p <=> x = y
      BY <2>1, <3>1
    <3> QED BY <3>2 DEF y, z
  <2> QED BY <1>4, <2>2, <2>3
<1>6. ASSUME ~PageGap(file) PROVE p \in Allocated
  <2>1. p \in loadBase..(loadBase + (highestEnd(file) - originalBase(file)) - 1)
    <3>1. p = (loadBase - originalBase(file)) + r.off
      BY <1>3 DEF p
    <3> QED BY <1>1, <3>1, Inside
  <2>2. p \in Int
    BY <1>1, <1>3 DEF p
  <2> QED BY <1>6, <2>1, <2>2, InPages DEF LoaderInv
<1> QED
  BY <1>5, <1>6 DEF p

LEMMA StepRela == LoaderInv /\ apply_rela => LoadInv' /\ WritesInside'
<1> SUFFICES ASSUME LoaderInv, apply_rela PROVE LoadInv' /\ WritesInside'
  OBVIOUS
<1> DEFINE r == memory[dynamic["DT_RELA"] + i]
           symtab == dynamic["DT_SYMTAB"]
           w == Relocated(memory, r, bias + r.off, symtab, bias)
           v == Value(file, "DT_RELA") + i
<1>1. /\ pc = "rela" /\ pc' = "rela" /\ i < dynamic["DT_RELASZ"] /\ i' = i + 1
      /\ UNCHANGED <<file, buffer, loadBase, dynamic>> /\ pc \in Working
      /\ DOMAIN dynamic = DynamicTags
  BY DEF apply_rela, reading, loaded, LoaderInv, LoadInv, Working
<1>2. bias' = bias
  BY <1>1 DEF bias
<1>3. IF r.tag \in Applied THEN Store([a \in {bias + r.off} |-> w])
      ELSE UNCHANGED <<memory, outside>>
  BY DEF apply_rela
<1>4. ASSUME Sane
      PROVE  /\ Dynamic(file, loadBase) /\ r \in file.relocs /\ TableRead
             /\ i + 1 \in 0..Value(file, "DT_RELASZ")
             /\ Patched(file, bias, memory', RelasTill(file, i + 1))
  <2>1. /\ TableRead /\ i \in 0..Value(file, "DT_RELASZ")
        /\ Patched(file, bias, memory, RelasTill(file, i))
    BY <1>1, <1>4 DEF LoaderInv, LoadInv
  <2>2. Dynamic(file, loadBase)
    BY <1>1, <1>4, <2>1, IsDynamic DEF LoaderInv, CountInv, TableRead, Sane
  <2>3. dynamic["DT_RELASZ"] = Value(file, "DT_RELASZ") /\ Value(file, "DT_RELASZ") \in Nat
    BY <2>1, <2>2, AllSaid DEF TableRead, Dynamic, DynamicFits
  <2>4. Value(file, "DT_RELA") \in Int /\ bias \in Int /\ bias = loadBase - originalBase(file)
    BY <2>2, ValueInt, Extent DEF Dynamic, bias
  <2>5. i + 1 \in 0..Value(file, "DT_RELASZ") /\ i \in 0..(Value(file, "DT_RELASZ") - 1)
    BY <1>1, <2>1, <2>3
  <2>6. v \in Relas(file) /\ v \in Entries(file)
    BY <2>5 DEF Relas, Entries
  <2>7. RelasTill(file, i) \in SUBSET Entries(file) /\ v \notin RelasTill(file, i)
    <3>1. \A j \in 0..(i - 1) : j \in 0..(Value(file, "DT_RELASZ") - 1) /\ j # i
      BY <2>3, <2>5
    <3>2. \A j \in 0..(i - 1) : Value(file, "DT_RELA") + j # v
      BY <2>4, <2>5
    <3> QED BY <3>1, <3>2 DEF RelasTill, Relas, Entries
  <2>8. RelasTill(file, i + 1) = RelasTill(file, i) \cup {v}
    <3>1. 0..((i + 1) - 1) = 0..(i - 1) \cup {i}
      BY <2>5
    <3> QED BY <3>1 DEF RelasTill
  <2>9. r = memory[bias + v]
    <3>1. dynamic["DT_RELA"] = bias + Value(file, "DT_RELA")
      <4>1. With(file, "DT_RELA") # {}
        BY <2>2, <2>6 DEF Dynamic, DynamicFits
      <4> QED BY <2>1, <2>2, <4>1, AllSaid DEF TableRead
    <3>2. (bias + Value(file, "DT_RELA")) + i = bias + (Value(file, "DT_RELA") + i)
      BY <2>4, <2>5
    <3> QED BY <3>1, <3>2
  <2> HIDE DEF r, v
  <2>10. /\ r = Linked(file, v) /\ r \in file.relocs
         /\ memory[bias + r.off] = Linked(file, r.off)
         /\ Symbol(file, bias, symtab, memory, r)
    BY <2>1, <2>2, <2>4, <2>6, <2>7, <2>9, FindsRelocation DEF TableRead
  <2>11. \A x \in Extents(file) : InMemory(file, x) =>
           memory'[bias + x] = IF x = r.off THEN Image(file, bias, x) ELSE memory[bias + x]
    <3>1. CASE r.tag \in Applied
      <4>1. w = Image(file, bias, r.off)
        BY <2>2, <2>4, <2>10, <3>1, RelocatedToImage
      <4>2. Store([a \in {bias + r.off} |-> w])
        BY <1>3, <3>1
      <4>3. \A x \in Extents(file) : InMemory(file, x) =>
              memory'[bias + x] = IF x = r.off THEN w ELSE memory[bias + x]
        <5> HIDE DEF w
        <5> QED BY <1>1, <2>2, <2>10, <4>2, StoreOne
      <4> QED BY <4>1, <4>3
    <3>2. CASE r.tag \notin Applied
      <4>1. r.tag # "JUMP_SLOT"
        BY <2>2, <2>6, <2>10 DEF Dynamic, RelocationsFit
      <4>2. Image(file, bias, r.off) = Linked(file, r.off)
        BY <2>2, <2>10, <3>2, <4>1, ImageAt DEF Applied
      <4> QED BY <1>3, <2>10, <3>2, <4>2
    <3> QED BY <3>1, <3>2
  <2>12. Patched(file, bias, memory', RelasTill(file, i) \cup {v})
    BY <2>1, <2>10, <2>11, OneMorePatched
  <2> QED BY <2>1, <2>2, <2>5, <2>8, <2>10, <2>12
<1> HIDE DEF r, symtab, w, v
<1>5. LoadInv'
  BY <1>1, <1>2, <1>4 DEF LoadInv, TableRead, Sane, ShortRead
<1>6. WritesInside'
  <2>1. CASE r.tag \in Applied
    <3>1. Sane /\ ~PageGap(file) => DOMAIN [a \in {bias + r.off} |-> w] \subseteq Allocated
      BY <1>1, <1>3, <1>4, <2>1, StoreOne
    <3> QED BY <1>1, <1>3, <2>1, <3>1, StoreInside
  <2>2. CASE r.tag \notin Applied
    BY <1>1, <1>3, <2>2, QuietInside
  <2> QED BY <2>1, <2>2
<1> QED
  BY <1>5, <1>6


LEMMA StepRelaEnds == LoaderInv /\ rela_ends => LoadInv' /\ WritesInside'
<1> SUFFICES ASSUME LoaderInv, rela_ends PROVE LoadInv' /\ WritesInside'
  OBVIOUS
<1>1. /\ pc = "rela" /\ pc' = "jmprel" /\ i = dynamic["DT_RELASZ"] /\ i' = 0
      /\ UNCHANGED <<file, buffer, loadBase, memory, dynamic, outside>> /\ pc \in Working
      /\ DOMAIN dynamic = DynamicTags
  BY DEF rela_ends, reading, loaded, LoaderInv, LoadInv, Working
<1>2. bias' = bias
  BY <1>1 DEF bias
<1>3. ASSUME Sane
      PROVE  /\ TableRead /\ 0 \in 0..Value(file, "DT_PLTRELSZ")
             /\ Patched(file, bias, memory, JmprelsTill(file, 0))
  <2>1. TableRead /\ Patched(file, bias, memory, RelasTill(file, i))
    BY <1>1, <1>3 DEF LoaderInv, LoadInv
  <2>2. Dynamic(file, loadBase)
    BY <1>1, <1>3, <2>1, IsDynamic DEF LoaderInv, CountInv, TableRead, Sane
  <2>3. i = Value(file, "DT_RELASZ") /\ Value(file, "DT_PLTRELSZ") \in Nat
    BY <1>1, <2>1, <2>2, AllSaid DEF TableRead, Dynamic, DynamicFits
  <2>4. RelasTill(file, i) = Relas(file)
    BY <2>3 DEF RelasTill, Relas
  <2>5. JmprelsTill(file, 0) = Relas(file)
    BY DEF JmprelsTill
  <2> QED BY <2>1, <2>3, <2>4, <2>5
<1>4. LoadInv'
  BY <1>1, <1>2, <1>3 DEF LoadInv, TableRead, Sane, ShortRead
<1> QED
  BY <1>1, <1>4, QuietInside

LEMMA StepJmprel == LoaderInv /\ apply_jmprel => LoadInv' /\ WritesInside'
<1> SUFFICES ASSUME LoaderInv, apply_jmprel PROVE LoadInv' /\ WritesInside'
  OBVIOUS
<1> DEFINE r == memory[dynamic["DT_JMPREL"] + i]
           symtab == dynamic["DT_SYMTAB"]
           applies == r.tag = "JUMP_SLOT" /\ symtab # nullptr
           w == Num(ResolveSym(memory, symtab, r.sym, bias) + r.val)
           v == Value(file, "DT_JMPREL") + i
<1>1. /\ pc = "jmprel" /\ pc' = "jmprel" /\ i < dynamic["DT_PLTRELSZ"] /\ i' = i + 1
      /\ UNCHANGED <<file, buffer, loadBase, dynamic>> /\ pc \in Working
      /\ DOMAIN dynamic = DynamicTags
  BY DEF apply_jmprel, reading, loaded, LoaderInv, LoadInv, Working
<1>2. bias' = bias
  BY <1>1 DEF bias
<1>3. IF applies THEN Store([a \in {bias + r.off} |-> w]) ELSE UNCHANGED <<memory, outside>>
  BY DEF apply_jmprel
<1>4. ASSUME Sane
      PROVE  /\ Dynamic(file, loadBase) /\ r \in file.relocs /\ TableRead
             /\ i + 1 \in 0..Value(file, "DT_PLTRELSZ")
             /\ Patched(file, bias, memory', JmprelsTill(file, i + 1))
  <2>1. /\ TableRead /\ i \in 0..Value(file, "DT_PLTRELSZ")
        /\ Patched(file, bias, memory, JmprelsTill(file, i))
    BY <1>1, <1>4 DEF LoaderInv, LoadInv
  <2>2. Dynamic(file, loadBase)
    BY <1>1, <1>4, <2>1, IsDynamic DEF LoaderInv, CountInv, TableRead, Sane
  <2>3. /\ dynamic["DT_PLTRELSZ"] = Value(file, "DT_PLTRELSZ")
        /\ Value(file, "DT_PLTRELSZ") \in Nat
    BY <2>1, <2>2, AllSaid DEF TableRead, Dynamic, DynamicFits
  <2>4. Value(file, "DT_JMPREL") \in Int /\ bias \in Int /\ bias = loadBase - originalBase(file)
    BY <2>2, ValueInt, Extent DEF Dynamic, bias
  <2>5. i + 1 \in 0..Value(file, "DT_PLTRELSZ") /\ i \in 0..(Value(file, "DT_PLTRELSZ") - 1)
    BY <1>1, <2>1, <2>3
  <2>6. v \in Jmprels(file) /\ v \in Entries(file)
    BY <2>5 DEF Jmprels, Entries
  <2>7. Linked(file, v).tag \notin Applied
    BY <2>2, <2>6 DEF Dynamic, RelocationsFit
  <2>8. JmprelsTill(file, i) \in SUBSET Entries(file)
    <3>1. \A j \in 0..(i - 1) : j \in 0..(Value(file, "DT_PLTRELSZ") - 1)
      BY <2>3, <2>5
    <3> QED BY <3>1 DEF JmprelsTill, Jmprels, Entries
  <2>9. JmprelsTill(file, i + 1) = JmprelsTill(file, i) \cup {v}
    <3>1. 0..((i + 1) - 1) = 0..(i - 1) \cup {i}
      BY <2>5
    <3> QED BY <3>1 DEF JmprelsTill
  <2>10. r = memory[bias + v]
    <3>1. dynamic["DT_JMPREL"] = bias + Value(file, "DT_JMPREL")
      <4>1. With(file, "DT_JMPREL") # {}
        BY <2>2, <2>6 DEF Dynamic, DynamicFits
      <4> QED BY <2>1, <2>2, <4>1, AllSaid DEF TableRead
    <3>2. (bias + Value(file, "DT_JMPREL")) + i = bias + (Value(file, "DT_JMPREL") + i)
      BY <2>4, <2>5
    <3> QED BY <3>1, <3>2
  <2> HIDE DEF r, v
  <2>11. /\ r = Linked(file, v) /\ r \in file.relocs /\ r.tag \notin Applied
         /\ v \notin JmprelsTill(file, i) => memory[bias + r.off] = Linked(file, r.off)
         /\ Symbol(file, bias, symtab, memory, r)
    BY <2>1, <2>2, <2>4, <2>6, <2>7, <2>8, <2>10, FindsRelocation DEF TableRead
  <2>12. Patched(file, bias, memory', JmprelsTill(file, i) \cup {v})
    <3>1. CASE v \in JmprelsTill(file, i)
      <4>1. v \in Relas(file)
        <5>1. \A j \in 0..(i - 1) : Value(file, "DT_JMPREL") + j # v
          BY <2>4, <2>5 DEF v
        <5> QED BY <3>1, <5>1 DEF JmprelsTill
      <4>2. r.tag # "JUMP_SLOT"
        BY <2>2, <2>11, <4>1 DEF Dynamic, RelocationsFit
      <4>3. UNCHANGED memory /\ JmprelsTill(file, i) \cup {v} = JmprelsTill(file, i)
        BY <1>3, <3>1, <4>2
      <4> QED BY <2>1, <4>3
    <3>2. ASSUME v \notin JmprelsTill(file, i)
          PROVE  \A x \in Extents(file) : InMemory(file, x) =>
                   memory'[bias + x] = IF x = r.off THEN Image(file, bias, x) ELSE memory[bias + x]
      <4>1. CASE r.tag = "JUMP_SLOT"
        <5>1. r.sym # 0 /\ With(file, "DT_SYMTAB") # {}
          BY <2>2, <2>11, <4>1, RelocationFacts
        <5>2. symtab = bias + file.symtab /\ symtab # nullptr
          BY <2>2, <2>4, <2>11, <5>1, SymtabThere DEF Symbol
        <5>3. ResolveSym(memory, symtab, r.sym, bias)
                = bias + Linked(file, file.symtab + r.sym).val
          BY <2>11, <5>1, <5>2 DEF ResolveSym, Symbol
        <5>4. Image(file, bias, r.off) = w
          BY <2>2, <2>11, <4>1, <5>1, <5>3, ImageAt
        <5>5. Store([a \in {bias + r.off} |-> w])
          BY <1>3, <4>1, <5>2
        <5>6. \A x \in Extents(file) : InMemory(file, x) =>
                memory'[bias + x] = IF x = r.off THEN w ELSE memory[bias + x]
          <6> HIDE DEF w
          <6> QED BY <1>1, <2>2, <2>11, <5>5, StoreOne
        <5> QED BY <5>4, <5>6
      <4>2. CASE r.tag # "JUMP_SLOT"
        <5>1. Image(file, bias, r.off) = Linked(file, r.off)
          BY <2>2, <2>11, <4>2, ImageAt DEF Applied
        <5> QED BY <1>3, <2>11, <3>2, <4>2, <5>1
      <4> QED BY <4>1, <4>2
    <3> QED BY <2>1, <2>11, <3>1, <3>2, OneMorePatched
  <2> QED BY <2>1, <2>2, <2>5, <2>9, <2>11, <2>12
<1> HIDE DEF r, symtab, w, v, applies
<1>5. LoadInv'
  BY <1>1, <1>2, <1>4 DEF LoadInv, TableRead, Sane, ShortRead
<1>6. WritesInside'
  <2>1. CASE applies
    <3>1. Sane /\ ~PageGap(file) => DOMAIN [a \in {bias + r.off} |-> w] \subseteq Allocated
      BY <1>1, <1>3, <1>4, <2>1, StoreOne
    <3> QED BY <1>1, <1>3, <2>1, <3>1, StoreInside
  <2>2. CASE ~applies
    BY <1>1, <1>3, <2>2, QuietInside
  <2> QED BY <2>1, <2>2
<1> QED
  BY <1>5, <1>6


LEMMA StepJmprelEnds == LoaderInv /\ (jmprel_ends \/ load_done) => LoadInv' /\ WritesInside'
<1> SUFFICES ASSUME LoaderInv, jmprel_ends \/ load_done PROVE LoadInv' /\ WritesInside'
  OBVIOUS
<1>1. /\ pc \in Working /\ UNCHANGED <<file, buffer, loadBase, memory, dynamic, outside>>
      /\ DOMAIN dynamic = DynamicTags
  BY DEF jmprel_ends, load_done, reading, loaded, LoaderInv, LoadInv, Working
<1>2. bias' = bias
  BY <1>1 DEF bias
<1>3. CASE jmprel_ends
  <2>1. pc = "jmprel" /\ pc' = "done" /\ i = dynamic["DT_PLTRELSZ"]
    BY <1>3 DEF jmprel_ends
  <2>2. ASSUME Sane PROVE Loaded(file, bias, memory)
    <3>1. TableRead /\ Patched(file, bias, memory, JmprelsTill(file, i))
      BY <2>1, <2>2 DEF LoaderInv, LoadInv, Working
    <3>2. Dynamic(file, loadBase)
      BY <1>1, <2>2, <3>1, IsDynamic DEF LoaderInv, CountInv, TableRead, Sane
    <3>3. i = Value(file, "DT_PLTRELSZ")
      BY <2>1, <3>1, <3>2, AllSaid DEF TableRead
    <3>4. JmprelsTill(file, i) = Entries(file)
      BY <3>3 DEF JmprelsTill, Jmprels, Entries
    <3> QED BY <3>1, <3>2, <3>4, PatchedAll
  <2>3. LoadInv'
    BY <1>1, <1>2, <2>1, <2>2 DEF LoadInv, Sane, ShortRead
  <2> QED BY <1>1, <2>3, QuietInside
<1>4. CASE load_done
  <2>1. /\ pc = "done" /\ pc' = "loaded" /\ entryPoint' = loadBase + file.entry
        /\ kernelBaseSize' = highestEnd(file) - originalBase(file)
    BY <1>4 DEF load_done
  <2>2. Sane => Loaded(file, bias, memory)
    BY <2>1 DEF LoaderInv, LoadInv, Working
  <2>3. LoadInv'
    BY <1>1, <1>2, <2>1, <2>2 DEF LoadInv, Sane, ShortRead
  <2> QED BY <1>1, <2>3, QuietInside
<1> QED
  BY <1>3, <1>4

LEMMA InitLoader == Init => LoaderInv
<1>1. Init => LoadInv /\ WritesInside
  BY DEF Init, LoadInv, WritesInside, Working
<1> QED
  BY <1>1, InitCount DEF LoaderInv

LEMMA StepLoader == LoaderInv /\ [Next]_vars => LoaderInv'
<1> SUFFICES ASSUME LoaderInv, [Next]_vars PROVE LoadInv' /\ WritesInside'
  BY StepCount DEF LoaderInv
<1>1. CASE \/ read_call \/ read_call_fails \/ read_exit \/ load_refuses \/ count_pages
           \/ allocate_pages_fails
  <2>1. /\ UNCHANGED <<file, dynamic, outside>> /\ pc \in {"read", "check"}
        /\ pc' \in {"read", "check", "halted"} /\ outside = {}
        /\ DOMAIN dynamic = DynamicTags /\ \A tag \in DynamicTags : dynamic[tag] = 0
    BY <1>1 DEF read_call, read_call_fails, fails_giving_back, read_exit, load_refuses,
                count_pages, allocate_pages_fails, loaded, LoaderInv, LoadInv, CountInv, Working
  <2> QED BY <2>1 DEF LoadInv, WritesInside, Working
<1>2. CASE allocate_pages
  <2>1. /\ pc = "check" /\ pc' = "copy" /\ i' = 1 /\ UNCHANGED <<file, dynamic, outside>>
        /\ outside = {} /\ file.valid /\ Loads(file) # {} /\ file \in Files
        /\ DOMAIN dynamic = DynamicTags /\ \A tag \in DynamicTags : dynamic[tag] = 0
    BY <1>2 DEF allocate_pages, LoaderInv, LoadInv, CountInv, Working
  <2>2. Len(file.phdr) \in Nat /\ Loads(file) \subseteq 1..Len(file.phdr)
    BY <2>1, SegmentsOf DEF SegmentsFit
  <2>3. 1 \in 1..(Len(file.phdr) + 1) /\ \A n \in Loads(file) : ~(n < 1)
    BY <2>2
  <2>4. \A z, m : Copied(file, z, m, 1)
    BY <2>3 DEF Copied
  <2> QED BY <2>1, <2>3, <2>4 DEF LoadInv, WritesInside, Working
<1>3. CASE Stopped \/ UNCHANGED vars
  <2>1. UNCHANGED <<file, pc, buffer, memory, loadBase, totalPages, entryPoint, kernelBaseSize,
                    i, d, dynamic, outside>>
    BY <1>3 DEF Stopped, vars, reading, loaded
  <2>2. bias' = bias
    BY <2>1 DEF bias
  <2>3. LoadInv'
    BY <2>1, <2>2 DEF LoaderInv, LoadInv, TableRead, Sane, ShortRead
  <2> QED BY <2>1, <2>3, QuietInside
<1> QED
  BY <1>1, <1>2, <1>3, StepCopy, StepFind, StepScan, StepScanEnds, StepRela, StepRelaEnds,
     StepJmprel, StepJmprelEnds DEF Next

\* The loader writes only into the pages it allocated (Loader.c:77-184): it places
\* segments and applies relocations by their distance from the lowest address, and
\* the pages it counted header by header reach as far; unless whole pages between
\* segments were counted for nobody, or the relocations are not the file's.
THEOREM InsidePages == Spec => []WritesInside
<1>1. LoaderInv => WritesInside
  BY DEF LoaderInv
<1> QED
  BY InitLoader, StepLoader, <1>1, PTL DEF Spec

\* A kernel read whole, with its dynamic table in a loaded segment, is in memory as
\* it was linked, each word moved and relocated once, in whatever order its segments
\* and relocations come, with whatever the memory held before (Loader.c:91-184).
THEOREM KernelLoaded == Spec => []KernelAsLinked
<1>1. LoaderInv => KernelAsLinked
  <2> SUFFICES ASSUME LoaderInv, pc = "loaded", Sane
               PROVE  /\ \A v \in originalBase(file)..(highestEnd(file) - 1) :
                           InMemory(file, v) =>
                             /\ memory[bias + v] = Image(file, bias, v)
                             /\ bias + v \in loadBase..(loadBase + kernelBaseSize - 1)
                      /\ originalBase(file) = 0 => entryPoint = bias + file.entry
    BY DEF KernelAsLinked, Sane
  <2>1. /\ Accepted(file, loadBase) /\ Loaded(file, bias, memory)
        /\ kernelBaseSize = highestEnd(file) - originalBase(file)
        /\ entryPoint = loadBase + file.entry
    BY DEF LoaderInv, CountInv, LoadInv, Working
  <2>2. highestEnd(file) \in Int /\ originalBase(file) \in Int /\ loadBase \in Int
    BY <2>1, Extent
  <2>3. ASSUME NEW v \in Extents(file), InMemory(file, v)
        PROVE  /\ memory[bias + v] = Image(file, bias, v)
               /\ bias + v \in loadBase..(loadBase + kernelBaseSize - 1)
    <3>1. v \in Int
      BY <2>2, <2>3 DEF Extents
    <3>2. (loadBase - originalBase(file)) + v
            \in loadBase..(loadBase + (highestEnd(file) - originalBase(file)) - 1)
      BY <2>1, <2>3, <3>1, Inside
    <3> QED BY <2>1, <2>3, <3>2 DEF Loaded, bias
  <2>4. originalBase(file) = 0 => bias = loadBase
    BY <2>2 DEF bias
  <2> QED BY <2>1, <2>3, <2>4 DEF Extents
<1> QED
  BY InitLoader, StepLoader, <1>1, PTL DEF Spec

=============================================================================
