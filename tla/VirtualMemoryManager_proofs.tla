--------------------- MODULE VirtualMemoryManager_proofs ---------------------
(***************************************************************************)
(* Proofs about VirtualMemoryManager, for every geometry, memory map and   *)
(* sequence of calls: the page tables form a tree, what is cached agrees   *)
(* with them, get_phys and unmap_range do what their callers expect, and   *)
(* init maps what it asks for and leaves the kernel, its tables and the    *)
(* pages for more of them where it will look for them.                     *)
(***************************************************************************)
EXTENDS VirtualMemoryManager, SequenceTheorems, WellFoundedInduction, TLAPS

------------------------------------------------------------------------------
(* Geometry.                                                               *)

\* The product of positive numbers is positive.
LEMMA Product == ASSUME NEW a \in Nat \ {0}, NEW b \in Nat \ {0} PROVE a * b \in Nat \ {0}
OBVIOUS

LEMMA Geometry ==
  /\ ENTRIES \in Nat \ {0} /\ PAGE_SIZE \in Nat \ {0} /\ HUGE_SIZE \in Nat \ {0}
  /\ PDPT_SPAN \in Nat \ {0} /\ PML4_SPAN \in Nat \ {0} /\ WORD \in Nat \ {0}
  /\ ENTRIES - 2 \in Idx /\ ENTRIES - 2 > 0
<1>1. ENTRIES \in Nat \ {0} /\ PAGE_SIZE \in Nat \ {0} /\ ENTRIES >= 4
  BY GeometryAssumption
<1>2. HUGE_SIZE \in Nat \ {0}
  BY <1>1, Product DEF HUGE_SIZE
<1>3. PDPT_SPAN \in Nat \ {0}
  BY <1>1, <1>2, Product DEF PDPT_SPAN
<1>4. PML4_SPAN \in Nat \ {0}
  BY <1>1, <1>3, Product DEF PML4_SPAN
<1>5. WORD \in Nat \ {0}
  BY <1>1, <1>4, Product DEF WORD
<1> QED
  BY <1>1, <1>2, <1>3, <1>4, <1>5 DEF Idx

\* What a quotient is.
LEMMA Quotient ==
  ASSUME NEW a \in Int, NEW b \in Nat \ {0}
  PROVE  /\ a \div b \in Int /\ a % b \in 0..(b - 1)
         /\ a = b * (a \div b) + (a % b)
         /\ b * (a \div b) <= a /\ a < b * (a \div b) + b
         /\ a >= 0 => a \div b >= 0
OBVIOUS

\* The quotient is the only number that does.
LEMMA QuotientIs ==
  ASSUME NEW a \in Int, NEW b \in Nat \ {0}, NEW q \in Int, b * q <= a, a < b * q + b
  PROVE  a \div b = q
<1> DEFINE d == a \div b
<1>1. d \in Int /\ b * d <= a /\ a < b * d + b
  BY Quotient
<1> HIDE DEF d
<1>2. ~(d >= q + 1)
  <2>1. d >= q + 1 => b * d >= b * (q + 1)
    BY <1>1
  <2> QED BY <1>1, <2>1
<1>3. ~(d <= q - 1)
  <2>1. d <= q - 1 => b * d <= b * (q - 1)
    BY <1>1
  <2> QED BY <1>1, <2>1
<1> QED
  BY <1>1, <1>2, <1>3 DEF d

\* Dividing by a product is dividing twice.
LEMMA DivideTwice ==
  ASSUME NEW a \in Int, NEW b \in Nat \ {0}, NEW c \in Nat \ {0}
  PROVE  a \div (b * c) = (a \div b) \div c
<1> DEFINE d == a \div b
           e == d \div c
<1>1. d \in Int /\ b * d <= a /\ a < b * d + b
  BY Quotient
<1>2. e \in Int /\ c * e <= d /\ d < c * e + c
  BY <1>1, Quotient
<1> HIDE DEF d, e
<1>3. b * (c * e) <= b * d
  BY <1>1, <1>2
<1>4. b * (d + 1) <= b * (c * e + c)
  <2>1. d + 1 <= c * e + c /\ c * e + c \in Int
    BY <1>1, <1>2
  <2> QED BY <1>1, <2>1
<1>5. /\ b * (c * e) = (b * c) * e /\ b * (d + 1) = b * d + b
      /\ b * (c * e + c) = (b * c) * e + b * c
  BY <1>1, <1>2
<1>6. b * c \in Nat \ {0}
  BY Product
<1>7. (b * c) * e <= a /\ a < (b * c) * e + b * c
  <2>1. b * d \in Int /\ (b * c) * e \in Int
    BY <1>1, <1>2, <1>6
  <2> QED BY <1>1, <1>3, <1>4, <1>5, <1>6, <2>1
<1> QED
  BY <1>2, <1>6, <1>7, QuotientIs DEF e, d

------------------------------------------------------------------------------
(* The tables form a tree.                                                 *)

PageTableEntries == [to : Nat, flags : SUBSET PageFlags]
PageTableAt == [Idx -> PageTableEntries]
Memories == UNION {[D -> PageTableAt] : D \in SUBSET (Nat \ {nullptr})}

\* Entry i of table t, at a level above the last, holds the address of a table.
Link(m, root, lev, t, i) ==
  /\ lev[t] >= 2 /\ ~(t = root /\ i = ENTRIES - 2)
  /\ Present(m[t][i]) /\ "PS" \notin m[t][i].flags

\* Each table has a level, the root level 4, and each link goes one level down, to a
\* table no other link goes to.  Huge pages stand at level 2, and pages begin at a
\* multiple of their size.
TreeOf(m, root, lev) ==
  /\ m \in Memories
  /\ root \in DOMAIN m
  /\ lev \in [DOMAIN m -> 1..4]
  /\ \A t \in DOMAIN m : lev[t] = 4 <=> t = root
  /\ m[root][ENTRIES - 2] = Entry(root, {"P", "RW"})
  /\ \A t \in DOMAIN m, i \in Idx : "PS" \in m[t][i].flags => lev[t] <= 2
  /\ \A t \in DOMAIN m, i \in Idx : lev[t] = 1 => m[t][i].to % PAGE_SIZE = 0
  /\ \A t \in DOMAIN m, i \in Idx :
       Link(m, root, lev, t, i) => m[t][i].to \in DOMAIN m /\ lev[m[t][i].to] = lev[t] - 1
  /\ \A t, u \in DOMAIN m, i, j \in Idx :
       Link(m, root, lev, t, i) /\ Link(m, root, lev, u, j) /\ m[t][i].to = m[u][j].to
         => t = u /\ i = j

Tree == \E lev : TreeOf(mem, g_pml4_p, lev)

LEMMA MemoryType ==
  ASSUME NEW m \in Memories
  PROVE  /\ DOMAIN m \subseteq Nat \ {0} /\ m \in [DOMAIN m -> PageTableAt]
         /\ \A t \in DOMAIN m : DOMAIN m[t] = Idx
         /\ \A t \in DOMAIN m, i \in Idx : m[t][i] \in PageTableEntries
<1>1. PICK D \in SUBSET (Nat \ {nullptr}) : m \in [D -> PageTableAt]
  BY DEF Memories
<1> QED
  BY <1>1 DEF PageTableAt, nullptr

\* Writing one entry of one table.
LEMMA Written ==
  ASSUME NEW m \in Memories, NEW t \in DOMAIN m, NEW i \in Idx, NEW e \in PageTableEntries
  PROVE  LET w == [m EXCEPT ![t][i] = e] IN
         /\ w \in Memories /\ DOMAIN w = DOMAIN m
         /\ \A u \in DOMAIN m, j \in Idx : w[u][j] = IF u = t /\ j = i THEN e ELSE m[u][j]
         /\ \A u \in DOMAIN m : u # t => w[u] = m[u]
<1> DEFINE w == [m EXCEPT ![t][i] = e]
<1>1. m \in [DOMAIN m -> PageTableAt] /\ DOMAIN m \in SUBSET (Nat \ {nullptr})
  BY MemoryType DEF nullptr
<1>2. DOMAIN w = DOMAIN m
  OBVIOUS
<1>3. \A u \in DOMAIN m : w[u] = IF u = t THEN [m[t] EXCEPT ![i] = e] ELSE m[u]
  OBVIOUS
<1>4. m[t] \in PageTableAt
  BY <1>1
<1>5. [m[t] EXCEPT ![i] = e] \in PageTableAt
  BY <1>4 DEF PageTableAt
<1>6. \A j \in Idx : [m[t] EXCEPT ![i] = e][j] = IF j = i THEN e ELSE m[t][j]
  BY <1>4 DEF PageTableAt
<1>7. w \in [DOMAIN m -> PageTableAt]
  BY <1>1, <1>2, <1>3, <1>5
<1>8. w \in Memories
  BY <1>1, <1>7 DEF Memories
<1> QED
  BY <1>2, <1>3, <1>6, <1>8

\* Entries at the last two levels that hold a page, and entries that are cleared, leave
\* the tree as it is.
LEMMA WriteKeepsTree ==
  ASSUME NEW m, NEW root, NEW lev, TreeOf(m, root, lev),
         NEW t \in DOMAIN m, NEW i \in Idx, NEW e \in PageTableEntries,
         t # root,
         \/ lev[t] = 1 /\ e.to % PAGE_SIZE = 0
         \/ lev[t] = 2 /\ "PS" \in e.flags
         \/ e = NoEntry
  PROVE  TreeOf([m EXCEPT ![t][i] = e], root, lev)
<1> DEFINE w == [m EXCEPT ![t][i] = e]
<1>1. m \in Memories /\ lev \in [DOMAIN m -> 1..4]
  BY DEF TreeOf
<1>2. /\ w \in Memories /\ DOMAIN w = DOMAIN m
      /\ \A u \in DOMAIN m, j \in Idx : w[u][j] = IF u = t /\ j = i THEN e ELSE m[u][j]
      /\ \A u \in DOMAIN m : u # t => w[u] = m[u]
  BY <1>1, Written
<1> HIDE DEF w
<1>3. \A u \in DOMAIN m, j \in Idx :
        Link(w, root, lev, u, j) => Link(m, root, lev, u, j) /\ w[u][j] = m[u][j]
  <2> SUFFICES ASSUME NEW u \in DOMAIN m, NEW j \in Idx, Link(w, root, lev, u, j)
               PROVE  Link(m, root, lev, u, j) /\ w[u][j] = m[u][j]
    OBVIOUS
  <2>1. ~(u = t /\ j = i)
    <3>1. SUFFICES ASSUME u = t, j = i PROVE FALSE
      OBVIOUS
    <3>2. w[u][j] = e
      BY <1>2, <3>1
    <3>3. lev[t] >= 2 /\ "P" \in e.flags /\ "PS" \notin e.flags
      BY <3>1, <3>2 DEF Link, Present
    <3> QED BY <3>3 DEF NoEntry, Entry
  <2>2. w[u][j] = m[u][j]
    BY <1>2, <2>1
  <2> QED BY <2>2 DEF Link
<1>4. NoEntry.to = 0 /\ NoEntry.flags = {}
  BY DEF NoEntry, Entry
<1>5. \A u \in DOMAIN m, j \in Idx : "PS" \in w[u][j].flags => lev[u] <= 2
  BY <1>1, <1>2, <1>4 DEF TreeOf
<1>6. 0 % PAGE_SIZE = 0
  BY Geometry
<1>7. \A u \in DOMAIN m, j \in Idx : lev[u] = 1 => w[u][j].to % PAGE_SIZE = 0
  <2> SUFFICES ASSUME NEW u \in DOMAIN m, NEW j \in Idx, lev[u] = 1
               PROVE  w[u][j].to % PAGE_SIZE = 0
    OBVIOUS
  <2>1. CASE u = t /\ j = i
    BY <2>1, <1>2, <1>4, <1>6
  <2>2. CASE ~(u = t /\ j = i)
    BY <2>2, <1>2 DEF TreeOf
  <2> QED BY <2>1, <2>2
<1>8. root \in DOMAIN m /\ w[root] = m[root]
  BY <1>2 DEF TreeOf
<1>9. \A u \in DOMAIN w, j \in Idx :
        Link(w, root, lev, u, j) => w[u][j].to \in DOMAIN w /\ lev[w[u][j].to] = lev[u] - 1
  BY <1>2, <1>3 DEF TreeOf
<1>10. \A u, x \in DOMAIN w, j, k \in Idx :
         Link(w, root, lev, u, j) /\ Link(w, root, lev, x, k) /\ w[u][j].to = w[x][k].to
           => u = x /\ j = k
  BY <1>2, <1>3 DEF TreeOf
<1>11. TreeOf(w, root, lev)
  BY <1>2, <1>5, <1>7, <1>8, <1>9, <1>10 DEF TreeOf
<1> QED
  BY <1>11 DEF w

\* Table p, empty, linked from entry i of table t.
Linked(m, t, i, p) ==
  LET linked == [m EXCEPT ![t][i] = Entry(p, {"P", "RW"})]
  IN [x \in DOMAIN linked \cup {p} |-> IF x = p THEN EmptyTable ELSE linked[x]]

\* w is m but for table p, which is empty, and entry i of t, which leads to it.
IsLinked(w, m, t, i, p) ==
  /\ w \in Memories /\ DOMAIN w = DOMAIN m \cup {p}
  /\ \A u \in DOMAIN m, j \in Idx :
       w[u][j] = IF u = t /\ j = i THEN Entry(p, {"P", "RW"}) ELSE m[u][j]
  /\ \A j \in Idx : w[p][j] = NoEntry
  /\ \A u \in DOMAIN m : u # t => w[u] = m[u]

LEMMA LinkedMemory ==
  ASSUME NEW m \in Memories, NEW t \in DOMAIN m, NEW i \in Idx, NEW p \in Nat \ {0},
         p \notin DOMAIN m
  PROVE  IsLinked(Linked(m, t, i, p), m, t, i, p)
<1> DEFINE l == [m EXCEPT ![t][i] = Entry(p, {"P", "RW"})]
           w == [x \in DOMAIN l \cup {p} |-> IF x = p THEN EmptyTable ELSE l[x]]
<1>1. Entry(p, {"P", "RW"}) \in PageTableEntries
  BY DEF Entry, PageTableEntries, PageFlags
<1>2. /\ l \in Memories /\ DOMAIN l = DOMAIN m
      /\ \A u \in DOMAIN m, j \in Idx :
           l[u][j] = IF u = t /\ j = i THEN Entry(p, {"P", "RW"}) ELSE m[u][j]
      /\ \A u \in DOMAIN m : u # t => l[u] = m[u]
  BY <1>1, Written
<1>3. l \in [DOMAIN m -> PageTableAt] /\ DOMAIN m \subseteq Nat \ {0}
  BY <1>2, MemoryType
<1>4. EmptyTable \in PageTableAt /\ \A j \in Idx : EmptyTable[j] = NoEntry
  BY DEF EmptyTable, NoEntry, Entry, PageTableAt, PageTableEntries
<1> HIDE DEF l
<1>5. w \in [DOMAIN m \cup {p} -> PageTableAt]
  BY <1>2, <1>3, <1>4
<1>6. DOMAIN m \cup {p} \in SUBSET (Nat \ {nullptr})
  BY <1>3 DEF nullptr
<1>7. w \in Memories
  BY <1>5, <1>6 DEF Memories
<1> QED
  BY <1>2, <1>4, <1>5, <1>7 DEF Linked, IsLinked, l

\* A new table takes the next level below the one it is linked from.
NextLevel(lev, m, t, p) == [x \in DOMAIN m \cup {p} |-> IF x = p THEN lev[t] - 1 ELSE lev[x]]

LEMMA LinkKeepsTree ==
  ASSUME NEW m, NEW root, NEW lev, TreeOf(m, root, lev),
         NEW t \in DOMAIN m, NEW i \in Idx, NEW p \in Nat \ {0}, p \notin DOMAIN m,
         lev[t] >= 2, ~(t = root /\ i = ENTRIES - 2), ~Present(m[t][i])
  PROVE  TreeOf(Linked(m, t, i, p), root, NextLevel(lev, m, t, p))
<1> DEFINE w == Linked(m, t, i, p)
           l == [x \in DOMAIN m \cup {p} |-> IF x = p THEN lev[t] - 1 ELSE lev[x]]
           e == Entry(p, {"P", "RW"})
<1>1. m \in Memories /\ lev \in [DOMAIN m -> 1..4] /\ root \in DOMAIN m
  BY DEF TreeOf
<1>2. /\ w \in Memories /\ DOMAIN w = DOMAIN m \cup {p}
      /\ \A u \in DOMAIN m, j \in Idx : w[u][j] = IF u = t /\ j = i THEN e ELSE m[u][j]
      /\ \A j \in Idx : w[p][j] = NoEntry
      /\ \A u \in DOMAIN m : u # t => w[u] = m[u]
  <2>1. IsLinked(Linked(m, t, i, p), m, t, i, p)
    BY <1>1, LinkedMemory
  <2> QED BY <2>1 DEF IsLinked
<1>3. /\ l \in [DOMAIN m \cup {p} -> 1..4] /\ l[p] = lev[t] - 1
      /\ \A u \in DOMAIN m : l[u] = lev[u]
  BY <1>1
<1>4. e.to = p /\ e.flags = {"P", "RW"} /\ NoEntry.to = 0 /\ NoEntry.flags = {}
  BY DEF NoEntry, Entry
<1> HIDE DEF w, l, e
<1>5. \A u \in DOMAIN w : l[u] = 4 <=> u = root
  BY <1>1, <1>2, <1>3 DEF TreeOf
<1>6. w[root][ENTRIES - 2] = Entry(root, {"P", "RW"})
  BY <1>1, <1>2, Geometry DEF TreeOf
<1>7. \A u \in DOMAIN w, j \in Idx : "PS" \in w[u][j].flags => l[u] <= 2
  BY <1>2, <1>3, <1>4 DEF TreeOf
<1>8. 0 % PAGE_SIZE = 0
  BY Geometry
<1>9. \A u \in DOMAIN w, j \in Idx : l[u] = 1 => w[u][j].to % PAGE_SIZE = 0
  <2> SUFFICES ASSUME NEW u \in DOMAIN w, NEW j \in Idx, l[u] = 1
               PROVE  w[u][j].to % PAGE_SIZE = 0
    OBVIOUS
  <2>1. CASE u = p
    BY <2>1, <1>2, <1>4, <1>8
  <2>2. CASE u # p
    <3>1. u \in DOMAIN m /\ lev[u] = 1 /\ u # t
      BY <2>2, <1>1, <1>2, <1>3
    <3>2. w[u][j] = m[u][j]
      BY <3>1, <1>2
    <3> QED BY <3>1, <3>2 DEF TreeOf
  <2> QED BY <2>1, <2>2
<1>10. \A u \in DOMAIN w, j \in Idx :
         Link(w, root, l, u, j) =>
           /\ u \in DOMAIN m
           /\ (u = t /\ j = i) \/ (Link(m, root, lev, u, j) /\ w[u][j] = m[u][j])
  BY <1>2, <1>3, <1>4 DEF Link, Present
<1>11. w[t][i].to = p
  BY <1>2, <1>4
<1>12. \A u \in DOMAIN m, j \in Idx : Link(m, root, lev, u, j) => m[u][j].to \in DOMAIN m
  BY DEF TreeOf
<1>13. \A u \in DOMAIN w, j \in Idx :
         Link(w, root, l, u, j) => w[u][j].to \in DOMAIN w /\ l[w[u][j].to] = l[u] - 1
  <2> SUFFICES ASSUME NEW u \in DOMAIN w, NEW j \in Idx, Link(w, root, l, u, j)
               PROVE  w[u][j].to \in DOMAIN w /\ l[w[u][j].to] = l[u] - 1
    OBVIOUS
  <2>1. CASE u = t /\ j = i
    BY <2>1, <1>2, <1>3, <1>11
  <2>2. CASE u \in DOMAIN m /\ Link(m, root, lev, u, j) /\ w[u][j] = m[u][j]
    BY <2>2, <1>2, <1>3 DEF TreeOf
  <2> QED BY <2>1, <2>2, <1>10
<1>14. \A u, x \in DOMAIN w, j, k \in Idx :
         Link(w, root, l, u, j) /\ Link(w, root, l, x, k) /\ w[u][j].to = w[x][k].to
           => u = x /\ j = k
  <2> SUFFICES ASSUME NEW u \in DOMAIN w, NEW x \in DOMAIN w, NEW j \in Idx, NEW k \in Idx,
                      Link(w, root, l, u, j), Link(w, root, l, x, k),
                      w[u][j].to = w[x][k].to
               PROVE  u = x /\ j = k
    OBVIOUS
  <2>1. CASE (u = t /\ j = i) /\ (x = t /\ k = i)
    BY <2>1
  <2>2. CASE (u = t /\ j = i) /\ ~(x = t /\ k = i)
    BY <2>2, <1>10, <1>11, <1>12
  <2>3. CASE ~(u = t /\ j = i) /\ (x = t /\ k = i)
    BY <2>3, <1>10, <1>11, <1>12
  <2>4. CASE ~(u = t /\ j = i) /\ ~(x = t /\ k = i)
    BY <2>4, <1>10 DEF TreeOf
  <2> QED BY <2>1, <2>2, <2>3, <2>4
<1>15. TreeOf(w, root, l)
  BY <1>1, <1>2, <1>3, <1>5, <1>6, <1>7, <1>9, <1>13, <1>14 DEF TreeOf
<1> QED
  BY <1>15 DEF w, l, NextLevel

------------------------------------------------------------------------------
(* The way from an address through the tables.                             *)

Address == {a \in 0..(WORD - 1) : Usable(a)}

Goes(m, t, i, u) == Present(m[t][i]) /\ "PS" \notin m[t][i].flags /\ m[t][i].to = u

\* The table of level l on the way from v is t.
Leads(m, root, v, l, t) ==
  \/ l = 4 /\ t = root
  \/ l = 3 /\ Goes(m, root, PML4_IDX(v), t)
  \/ l = 2 /\ \E t3 \in DOMAIN m :
       Goes(m, root, PML4_IDX(v), t3) /\ Goes(m, t3, PDPT_IDX(v), t)
  \/ l = 1 /\ \E t3, t2 \in DOMAIN m :
       /\ Goes(m, root, PML4_IDX(v), t3) /\ Goes(m, t3, PDPT_IDX(v), t2)
       /\ Goes(m, t2, PD_IDX(v), t)

LEMMA Indexes ==
  ASSUME NEW v \in Address
  PROVE  /\ v \in Nat /\ v < WORD
         /\ PML4_IDX(v) \in Idx \ {ENTRIES - 2} /\ PDPT_IDX(v) \in Idx
         /\ PD_IDX(v) \in Idx /\ PT_IDX(v) \in Idx
<1>1. v \in Nat /\ v < WORD /\ PML4_IDX(v) # ENTRIES - 2
  BY Geometry DEF Address, Usable
<1>2. /\ v \div PML4_SPAN \in Int /\ v \div PDPT_SPAN \in Int
      /\ v \div HUGE_SIZE \in Int /\ v \div PAGE_SIZE \in Int
  BY <1>1, Geometry, Quotient
<1>3. ASSUME NEW q \in Int PROVE q % ENTRIES \in Idx
  BY Geometry, Quotient DEF Idx
<1> QED
  BY <1>1, <1>2, <1>3 DEF PML4_IDX, PDPT_IDX, PD_IDX, PT_IDX

\* A present entry leads one level down.
LEMMA RootLink ==
  ASSUME NEW m, NEW root, NEW lev, TreeOf(m, root, lev), NEW v \in Address,
         Present(m[root][PML4_IDX(v)])
  PROVE  LET t == m[root][PML4_IDX(v)].to IN
         /\ Goes(m, root, PML4_IDX(v), t) /\ Link(m, root, lev, root, PML4_IDX(v))
         /\ t \in DOMAIN m /\ lev[t] = 3 /\ t # root
<1>1. root \in DOMAIN m /\ lev[root] = 4 /\ PML4_IDX(v) \in Idx \ {ENTRIES - 2}
  BY Indexes DEF TreeOf
<1>2. "PS" \notin m[root][PML4_IDX(v)].flags
  BY <1>1 DEF TreeOf
<1>3. Link(m, root, lev, root, PML4_IDX(v))
  BY <1>1, <1>2 DEF Link
<1> QED
  BY <1>1, <1>2, <1>3 DEF TreeOf, Goes

LEMMA InnerLink ==
  ASSUME NEW m, NEW root, NEW lev, TreeOf(m, root, lev), NEW t \in DOMAIN m, NEW i \in Idx,
         lev[t] \in {2, 3}, Present(m[t][i]), lev[t] = 2 => "PS" \notin m[t][i].flags
  PROVE  LET u == m[t][i].to IN
         /\ Goes(m, t, i, u) /\ Link(m, root, lev, t, i)
         /\ u \in DOMAIN m /\ lev[u] = lev[t] - 1 /\ u # root
<1>1. t # root /\ root \in DOMAIN m /\ lev[root] = 4
  BY DEF TreeOf
<1>2. "PS" \notin m[t][i].flags
  BY DEF TreeOf
<1>3. Link(m, root, lev, t, i)
  BY <1>1, <1>2 DEF Link
<1> QED
  BY <1>1, <1>2, <1>3 DEF TreeOf, Goes

\* The tables on the way have their levels.
LEMMA Way ==
  ASSUME NEW m, NEW root, NEW lev, TreeOf(m, root, lev), NEW v \in Address
  PROVE  /\ \A t : Goes(m, root, PML4_IDX(v), t) => t \in DOMAIN m /\ lev[t] = 3
         /\ \A t3 \in DOMAIN m : \A t : lev[t3] = 3 /\ Goes(m, t3, PDPT_IDX(v), t)
              => t \in DOMAIN m /\ lev[t] = 2
         /\ \A t2 \in DOMAIN m : \A t : lev[t2] = 2 /\ Goes(m, t2, PD_IDX(v), t)
              => t \in DOMAIN m /\ lev[t] = 1
<1>1. PDPT_IDX(v) \in Idx /\ PD_IDX(v) \in Idx
  BY Indexes
<1>2. \A t : Goes(m, root, PML4_IDX(v), t) => t \in DOMAIN m /\ lev[t] = 3
  BY RootLink DEF Goes
<1>3. \A t3 \in DOMAIN m : \A t : lev[t3] = 3 /\ Goes(m, t3, PDPT_IDX(v), t)
        => t \in DOMAIN m /\ lev[t] = 2
  BY <1>1, InnerLink DEF Goes
<1>4. \A t2 \in DOMAIN m : \A t : lev[t2] = 2 /\ Goes(m, t2, PD_IDX(v), t)
        => t \in DOMAIN m /\ lev[t] = 1
  BY <1>1, InnerLink DEF Goes
<1> QED
  BY <1>2, <1>3, <1>4

\* Two addresses that lead to the same table have the same indexes on the way.
LEMMA OneWay ==
  ASSUME NEW m, NEW root, NEW lev, TreeOf(m, root, lev), NEW u \in Address, NEW v \in Address,
         NEW t
  PROVE  /\ Leads(m, root, u, 3, t) /\ Leads(m, root, v, 3, t) => PML4_IDX(u) = PML4_IDX(v)
         /\ Leads(m, root, u, 2, t) /\ Leads(m, root, v, 2, t)
              => PML4_IDX(u) = PML4_IDX(v) /\ PDPT_IDX(u) = PDPT_IDX(v)
         /\ Leads(m, root, u, 1, t) /\ Leads(m, root, v, 1, t)
              => /\ PML4_IDX(u) = PML4_IDX(v) /\ PDPT_IDX(u) = PDPT_IDX(v)
                 /\ PD_IDX(u) = PD_IDX(v)
<1>1. /\ PML4_IDX(u) \in Idx \ {ENTRIES - 2} /\ PDPT_IDX(u) \in Idx /\ PD_IDX(u) \in Idx
      /\ PML4_IDX(v) \in Idx \ {ENTRIES - 2} /\ PDPT_IDX(v) \in Idx /\ PD_IDX(v) \in Idx
  BY Indexes
<1>2. /\ root \in DOMAIN m /\ lev[root] = 4
      /\ \A x \in DOMAIN m : lev[x] \in 1..4 /\ (lev[x] = 4 => x = root)
  BY DEF TreeOf
<1>3. ASSUME NEW x \in DOMAIN m, NEW y \in DOMAIN m, NEW i \in Idx, NEW j \in Idx, NEW z,
             lev[x] >= 2, lev[y] >= 2, Goes(m, x, i, z), Goes(m, y, j, z),
             x = root => i # ENTRIES - 2, y = root => j # ENTRIES - 2
      PROVE  x = y /\ i = j
  <2>1. Link(m, root, lev, x, i) /\ Link(m, root, lev, y, j) /\ m[x][i].to = m[y][j].to
    BY <1>3 DEF Link, Goes
  <2> QED BY <2>1 DEF TreeOf
<1>4. ASSUME NEW z, Goes(m, root, PML4_IDX(u), z), Goes(m, root, PML4_IDX(v), z)
      PROVE  PML4_IDX(u) = PML4_IDX(v)
  BY <1>1, <1>2, <1>3, <1>4
<1>5. ASSUME NEW x \in DOMAIN m, NEW y \in DOMAIN m, NEW z,
             Goes(m, root, PML4_IDX(u), x), Goes(m, root, PML4_IDX(v), y),
             Goes(m, x, PDPT_IDX(u), z), Goes(m, y, PDPT_IDX(v), z)
      PROVE  PML4_IDX(u) = PML4_IDX(v) /\ PDPT_IDX(u) = PDPT_IDX(v) /\ x = y
  <2>1. lev[x] = 3 /\ lev[y] = 3
    BY <1>5, Way
  <2>2. x = y /\ PDPT_IDX(u) = PDPT_IDX(v)
    BY <1>1, <1>2, <1>3, <1>5, <2>1
  <2> QED BY <1>4, <1>5, <2>2
<1>6. ASSUME NEW x \in DOMAIN m, NEW y \in DOMAIN m, NEW x2 \in DOMAIN m, NEW y2 \in DOMAIN m,
             Goes(m, root, PML4_IDX(u), x), Goes(m, root, PML4_IDX(v), y),
             Goes(m, x, PDPT_IDX(u), x2), Goes(m, y, PDPT_IDX(v), y2),
             Goes(m, x2, PD_IDX(u), t), Goes(m, y2, PD_IDX(v), t)
      PROVE  PML4_IDX(u) = PML4_IDX(v) /\ PDPT_IDX(u) = PDPT_IDX(v) /\ PD_IDX(u) = PD_IDX(v)
  <2>1. lev[x] = 3 /\ lev[y] = 3
    BY <1>6, Way
  <2>2. lev[x2] = 2 /\ lev[y2] = 2
    BY <1>6, <2>1, Way
  <2>3. x2 = y2 /\ PD_IDX(u) = PD_IDX(v)
    BY <1>1, <1>2, <1>3, <1>6, <2>2
  <2> QED BY <1>5, <1>6, <2>3
<1> QED
  BY <1>4, <1>5, <1>6 DEF Leads

\* The entries on the way from v, and what they make of it.
E4(m, root, v) == m[root][PML4_IDX(v)]
E3(m, root, v) == m[E4(m, root, v).to][PDPT_IDX(v)]
E2(m, root, v) == m[E3(m, root, v).to][PD_IDX(v)]
E1(m, root, v) == m[E2(m, root, v).to][PT_IDX(v)]

Upper(m, root, v) ==
  /\ Present(E4(m, root, v)) /\ Present(E3(m, root, v)) /\ Present(E2(m, root, v))
HugePage(m, root, v) == Upper(m, root, v) /\ "PS" \in E2(m, root, v).flags
SmallPage(m, root, v) ==
  Upper(m, root, v) /\ "PS" \notin E2(m, root, v).flags /\ Present(E1(m, root, v))

LEMMA Translation ==
  ASSUME NEW m, NEW root, NEW v
  PROVE  /\ HugePage(m, root, v) =>
              Translate(m, root, v) =
                [phys |-> AlignDown(E2(m, root, v).to, HUGE_SIZE) + (v % HUGE_SIZE),
                 flags |-> E2(m, root, v).flags \ {"PS"}, size |-> HUGE_SIZE]
         /\ SmallPage(m, root, v) =>
              Translate(m, root, v) =
                [phys |-> E1(m, root, v).to + (v % PAGE_SIZE),
                 flags |-> E1(m, root, v).flags, size |-> PAGE_SIZE]
         /\ ~HugePage(m, root, v) /\ ~SmallPage(m, root, v) => Translate(m, root, v) = NoPage
BY DEF Translate, HugePage, SmallPage, Upper, E4, E3, E2, E1

\* Equal entries give equal translations.
LEMMA SameTranslation ==
  ASSUME NEW m, NEW w, NEW root, NEW v,
         E4(w, root, v) = E4(m, root, v),
         Present(E4(m, root, v)) => E3(w, root, v) = E3(m, root, v),
         Present(E4(m, root, v)) /\ Present(E3(m, root, v)) =>
           E2(w, root, v) = E2(m, root, v),
         Upper(m, root, v) /\ "PS" \notin E2(m, root, v).flags =>
           E1(w, root, v) = E1(m, root, v)
  PROVE  Translate(w, root, v) = Translate(m, root, v)
<1>1. Upper(w, root, v) = Upper(m, root, v)
  BY DEF Upper
<1>2. HugePage(w, root, v) = HugePage(m, root, v)
  BY <1>1 DEF HugePage, Upper
<1>3. SmallPage(w, root, v) = SmallPage(m, root, v)
  BY <1>1 DEF SmallPage, Upper
<1>4. CASE HugePage(m, root, v)
  <2>1. E2(w, root, v) = E2(m, root, v)
    BY <1>4 DEF HugePage, Upper
  <2> QED BY <1>2, <1>4, <2>1, Translation, ZenonT(60)
<1>5. CASE SmallPage(m, root, v)
  <2>1. E1(w, root, v) = E1(m, root, v)
    BY <1>5 DEF SmallPage
  <2> QED BY <1>3, <1>5, <2>1, Translation, ZenonT(60)
<1>6. CASE ~HugePage(m, root, v) /\ ~SmallPage(m, root, v)
  BY <1>2, <1>3, <1>6, Translation
<1> QED
  BY <1>4, <1>5, <1>6

\* The way down the tree.
LEMMA Descent ==
  ASSUME NEW m, NEW root, NEW lev, TreeOf(m, root, lev), NEW v \in Address
  PROVE  /\ root \in DOMAIN m /\ lev[root] = 4 /\ Leads(m, root, v, 4, root)
         /\ Present(E4(m, root, v)) =>
              /\ E4(m, root, v).to \in DOMAIN m /\ lev[E4(m, root, v).to] = 3
              /\ Leads(m, root, v, 3, E4(m, root, v).to)
         /\ Present(E4(m, root, v)) /\ Present(E3(m, root, v)) =>
              /\ E3(m, root, v).to \in DOMAIN m /\ lev[E3(m, root, v).to] = 2
              /\ Leads(m, root, v, 2, E3(m, root, v).to)
         /\ Upper(m, root, v) /\ "PS" \notin E2(m, root, v).flags =>
              /\ E2(m, root, v).to \in DOMAIN m /\ lev[E2(m, root, v).to] = 1
              /\ Leads(m, root, v, 1, E2(m, root, v).to)
<1>1. root \in DOMAIN m /\ lev[root] = 4 /\ Leads(m, root, v, 4, root)
  BY DEF TreeOf, Leads
<1>2. ASSUME Present(E4(m, root, v))
      PROVE  /\ E4(m, root, v).to \in DOMAIN m /\ lev[E4(m, root, v).to] = 3
             /\ Goes(m, root, PML4_IDX(v), E4(m, root, v).to)
  BY <1>2, RootLink DEF E4
<1>3. ASSUME Present(E4(m, root, v)), Present(E3(m, root, v))
      PROVE  /\ E3(m, root, v).to \in DOMAIN m /\ lev[E3(m, root, v).to] = 2
             /\ Goes(m, E4(m, root, v).to, PDPT_IDX(v), E3(m, root, v).to)
  <2>1. PDPT_IDX(v) \in Idx
    BY Indexes
  <2>2. E4(m, root, v).to \in DOMAIN m /\ lev[E4(m, root, v).to] = 3
    BY <1>2, <1>3
  <2> QED BY <1>3, <2>1, <2>2, InnerLink DEF E3
<1>4. ASSUME Upper(m, root, v), "PS" \notin E2(m, root, v).flags
      PROVE  /\ E2(m, root, v).to \in DOMAIN m /\ lev[E2(m, root, v).to] = 1
             /\ Goes(m, E3(m, root, v).to, PD_IDX(v), E2(m, root, v).to)
  <2>1. PD_IDX(v) \in Idx
    BY Indexes
  <2>2. E3(m, root, v).to \in DOMAIN m /\ lev[E3(m, root, v).to] = 2
    BY <1>3, <1>4 DEF Upper
  <2>3. Present(E2(m, root, v))
    BY <1>4 DEF Upper
  <2> QED BY <1>4, <2>1, <2>2, <2>3, InnerLink DEF E2
<1>5. Present(E4(m, root, v)) => Leads(m, root, v, 3, E4(m, root, v).to)
  BY <1>2 DEF Leads
<1>6. Present(E4(m, root, v)) /\ Present(E3(m, root, v)) =>
        Leads(m, root, v, 2, E3(m, root, v).to)
  BY <1>2, <1>3 DEF Leads
<1>7. Upper(m, root, v) /\ "PS" \notin E2(m, root, v).flags =>
        Leads(m, root, v, 1, E2(m, root, v).to)
  BY <1>2, <1>3, <1>4 DEF Leads, Upper
<1> QED
  BY <1>1, <1>2, <1>3, <1>4, <1>5, <1>6, <1>7

\* A new table changes no translation: the entry it is linked from was absent.
LEMMA LinkKeepsTranslation ==
  ASSUME NEW m, NEW root, NEW lev, TreeOf(m, root, lev),
         NEW t \in DOMAIN m, NEW i \in Idx, NEW p \in Nat \ {0}, p \notin DOMAIN m,
         lev[t] >= 2, ~(t = root /\ i = ENTRIES - 2), ~Present(m[t][i]),
         NEW v \in Address
  PROVE  Translate(Linked(m, t, i, p), root, v) = Translate(m, root, v)
<1> DEFINE w == Linked(m, t, i, p)
           e == Entry(p, {"P", "RW"})
<1>1. m \in Memories /\ root \in DOMAIN m /\ lev \in [DOMAIN m -> 1..4]
  BY DEF TreeOf
<1>2. /\ w \in Memories /\ DOMAIN w = DOMAIN m \cup {p}
      /\ \A u \in DOMAIN m, j \in Idx : w[u][j] = IF u = t /\ j = i THEN e ELSE m[u][j]
      /\ \A j \in Idx : w[p][j] = NoEntry
      /\ \A u \in DOMAIN m : u # t => w[u] = m[u]
  <2>1. IsLinked(Linked(m, t, i, p), m, t, i, p)
    BY <1>1, LinkedMemory
  <2> QED BY <2>1 DEF IsLinked
<1>3. e.to = p /\ e.flags = {"P", "RW"} /\ ~Present(NoEntry)
  BY DEF NoEntry, Entry, Present
<1>4. /\ PML4_IDX(v) \in Idx /\ PDPT_IDX(v) \in Idx /\ PD_IDX(v) \in Idx /\ PT_IDX(v) \in Idx
  BY Indexes
<1> HIDE DEF w, e
<1>5. \A x \in DOMAIN m, j \in Idx :
        /\ Present(m[x][j]) => w[x][j] = m[x][j]
        /\ ~Present(m[x][j]) => w[x][j] = m[x][j] \/ w[x][j] = e
  BY <1>2
<1>6. ASSUME Present(E4(m, root, v)) PROVE E4(w, root, v) = E4(m, root, v)
  BY <1>1, <1>4, <1>5, <1>6 DEF E4
<1>7. ASSUME Present(E4(m, root, v)), Present(E3(m, root, v))
      PROVE  E3(w, root, v) = E3(m, root, v)
  <2>1. E4(m, root, v).to \in DOMAIN m
    BY <1>7, Descent
  <2> QED BY <1>4, <1>5, <1>6, <1>7, <2>1 DEF E3
<1>8. ASSUME Upper(m, root, v) PROVE E2(w, root, v) = E2(m, root, v)
  <2>1. E3(m, root, v).to \in DOMAIN m /\ E3(w, root, v) = E3(m, root, v)
    BY <1>7, <1>8, Descent DEF Upper
  <2>2. Present(E2(m, root, v))
    BY <1>8 DEF Upper
  <2> QED BY <1>4, <1>5, <2>1, <2>2 DEF E2
<1>9. CASE Upper(m, root, v)
  <2>1. ASSUME "PS" \notin E2(m, root, v).flags PROVE E1(w, root, v) = E1(m, root, v)
    <3>1. E2(m, root, v).to \in DOMAIN m /\ lev[E2(m, root, v).to] = 1
      BY <1>9, <2>1, Descent
    <3>2. E2(m, root, v).to # t
      BY <3>1
    <3> QED BY <1>2, <1>8, <1>9, <3>1, <3>2 DEF E1
  <2> QED BY <1>6, <1>7, <1>8, <1>9, <2>1, SameTranslation DEF Upper, w
<1>10. CASE ~Upper(m, root, v)
  <2>1. Translate(m, root, v) = NoPage
    BY <1>10, Translation DEF HugePage, SmallPage
  <2>2. ~Upper(w, root, v) \/ ("PS" \notin E2(w, root, v).flags /\ ~Present(E1(w, root, v)))
    <3>1. CASE ~Present(E4(m, root, v))
      <4>1. CASE E4(w, root, v) = E4(m, root, v)
        BY <3>1, <4>1 DEF Upper
      <4>2. CASE E4(w, root, v) = e
        <5>1. E3(w, root, v) = NoEntry
          BY <1>2, <1>3, <1>4, <4>2 DEF E3
        <5> QED BY <1>3, <5>1 DEF Upper
      <4> QED BY <1>1, <1>4, <1>5, <3>1, <4>1, <4>2 DEF E4
    <3>2. CASE Present(E4(m, root, v)) /\ ~Present(E3(m, root, v))
      <4>1. E4(w, root, v) = E4(m, root, v) /\ E4(m, root, v).to \in DOMAIN m
        BY <1>6, <3>2, Descent
      <4>2. CASE E3(w, root, v) = E3(m, root, v)
        BY <3>2, <4>2 DEF Upper
      <4>3. CASE E3(w, root, v) = e
        <5>1. E2(w, root, v) = NoEntry
          BY <1>2, <1>3, <1>4, <4>3 DEF E2
        <5> QED BY <1>3, <5>1 DEF Upper
      <4>4. ~Present(m[E4(m, root, v).to][PDPT_IDX(v)])
        BY <3>2 DEF E3
      <4> QED BY <1>4, <1>5, <4>1, <4>2, <4>3, <4>4 DEF E3
    <3>3. CASE Present(E4(m, root, v)) /\ Present(E3(m, root, v)) /\ ~Present(E2(m, root, v))
      <4>1. E3(w, root, v) = E3(m, root, v) /\ E3(m, root, v).to \in DOMAIN m
        BY <1>7, <3>3, Descent
      <4>2. CASE E2(w, root, v) = E2(m, root, v)
        BY <3>3, <4>2 DEF Upper
      <4>3. CASE E2(w, root, v) = e
        <5>1. E1(w, root, v) = NoEntry
          BY <1>2, <1>3, <1>4, <4>3 DEF E1
        <5> QED BY <1>3, <4>3, <5>1
      <4>4. ~Present(m[E3(m, root, v).to][PD_IDX(v)])
        BY <3>3 DEF E2
      <4> QED BY <1>4, <1>5, <4>1, <4>2, <4>3, <4>4 DEF E2
    <3> QED BY <1>10, <3>1, <3>2, <3>3 DEF Upper
  <2>3. Translate(w, root, v) = NoPage
    BY <2>2, Translation DEF HugePage, SmallPage
  <2> QED BY <2>1, <2>3 DEF w
<1> QED
  BY <1>9, <1>10

\* Writing an entry of a page table changes no translation but those through it.
LEMMA LeafFrame ==
  ASSUME NEW m, NEW root, NEW lev, TreeOf(m, root, lev),
         NEW t \in DOMAIN m, NEW i \in Idx, NEW e \in PageTableEntries, lev[t] = 1,
         NEW u \in Address, ~(Leads(m, root, u, 1, t) /\ PT_IDX(u) = i)
  PROVE  Translate([m EXCEPT ![t][i] = e], root, u) = Translate(m, root, u)
<1> DEFINE w == [m EXCEPT ![t][i] = e]
<1>1. m \in Memories
  BY DEF TreeOf
<1>2. /\ w \in Memories /\ DOMAIN w = DOMAIN m
      /\ \A x \in DOMAIN m, j \in Idx : w[x][j] = IF x = t /\ j = i THEN e ELSE m[x][j]
      /\ \A x \in DOMAIN m : x # t => w[x] = m[x]
  BY <1>1, Written
<1>3. PT_IDX(u) \in Idx
  BY Indexes
<1> HIDE DEF w
<1>4. E4(w, root, u) = E4(m, root, u)
  <2>1. root \in DOMAIN m /\ root # t
    BY Descent
  <2> QED BY <1>2, <2>1 DEF E4
<1>5. ASSUME Present(E4(m, root, u)) PROVE E3(w, root, u) = E3(m, root, u)
  <2>1. E4(m, root, u).to \in DOMAIN m /\ E4(m, root, u).to # t
    BY <1>5, Descent
  <2> QED BY <1>2, <1>4, <2>1 DEF E3
<1>6. ASSUME Present(E4(m, root, u)), Present(E3(m, root, u))
      PROVE  E2(w, root, u) = E2(m, root, u)
  <2>1. E3(m, root, u).to \in DOMAIN m /\ E3(m, root, u).to # t
    BY <1>6, Descent
  <2> QED BY <1>2, <1>5, <1>6, <2>1 DEF E2
<1>7. ASSUME Upper(m, root, u), "PS" \notin E2(m, root, u).flags
      PROVE  E1(w, root, u) = E1(m, root, u)
  <2>1. E2(m, root, u).to \in DOMAIN m /\ Leads(m, root, u, 1, E2(m, root, u).to)
    BY <1>7, Descent
  <2>2. ~(E2(m, root, u).to = t /\ PT_IDX(u) = i)
    BY <2>1
  <2>3. E2(w, root, u) = E2(m, root, u)
    BY <1>6, <1>7 DEF Upper
  <2> QED BY <1>2, <1>3, <2>1, <2>2, <2>3 DEF E1
<1> QED
  BY <1>4, <1>5, <1>6, <1>7, SameTranslation DEF w

\* The same of an entry of a page directory.
LEMMA DirectoryFrame ==
  ASSUME NEW m, NEW root, NEW lev, TreeOf(m, root, lev),
         NEW t \in DOMAIN m, NEW i \in Idx, NEW e \in PageTableEntries, lev[t] = 2,
         NEW u \in Address, ~(Leads(m, root, u, 2, t) /\ PD_IDX(u) = i)
  PROVE  Translate([m EXCEPT ![t][i] = e], root, u) = Translate(m, root, u)
<1> DEFINE w == [m EXCEPT ![t][i] = e]
<1>1. m \in Memories
  BY DEF TreeOf
<1>2. /\ w \in Memories /\ DOMAIN w = DOMAIN m
      /\ \A x \in DOMAIN m, j \in Idx : w[x][j] = IF x = t /\ j = i THEN e ELSE m[x][j]
      /\ \A x \in DOMAIN m : x # t => w[x] = m[x]
  BY <1>1, Written
<1>3. PD_IDX(u) \in Idx
  BY Indexes
<1> HIDE DEF w
<1>4. E4(w, root, u) = E4(m, root, u)
  <2>1. root \in DOMAIN m /\ root # t
    BY Descent
  <2> QED BY <1>2, <2>1 DEF E4
<1>5. ASSUME Present(E4(m, root, u)) PROVE E3(w, root, u) = E3(m, root, u)
  <2>1. E4(m, root, u).to \in DOMAIN m /\ E4(m, root, u).to # t
    BY <1>5, Descent
  <2> QED BY <1>2, <1>4, <2>1 DEF E3
<1>6. ASSUME Present(E4(m, root, u)), Present(E3(m, root, u))
      PROVE  E2(w, root, u) = E2(m, root, u)
  <2>1. E3(m, root, u).to \in DOMAIN m /\ Leads(m, root, u, 2, E3(m, root, u).to)
    BY <1>6, Descent
  <2>2. ~(E3(m, root, u).to = t /\ PD_IDX(u) = i)
    BY <2>1
  <2> QED BY <1>2, <1>3, <1>5, <1>6, <2>1, <2>2 DEF E2
<1>7. ASSUME Upper(m, root, u), "PS" \notin E2(m, root, u).flags
      PROVE  E1(w, root, u) = E1(m, root, u)
  <2>1. E2(m, root, u).to \in DOMAIN m /\ E2(m, root, u).to # t
    BY <1>7, Descent
  <2>2. E2(w, root, u) = E2(m, root, u)
    BY <1>6, <1>7 DEF Upper
  <2> QED BY <1>2, <2>1, <2>2 DEF E1
<1> QED
  BY <1>4, <1>5, <1>6, <1>7, SameTranslation DEF w

------------------------------------------------------------------------------
(* Blocks: the addresses one entry translates.                             *)

LEMMA Order ==
  ASSUME NEW b \in Nat \ {0}, NEW x \in Int, NEW y \in Int, b * x < b * y
  PROVE  x < y
<1>1. x >= y => b * x >= b * y
  OBVIOUS
<1> QED
  BY <1>1

\* A canonical address: which half of the PML4 its quotient lies in.
LEMMA Halves ==
  ASSUME NEW v \in Address
  PROVE  LET h == ENTRIES \div 2
             q == v \div PML4_SPAN
         IN /\ h \in Nat /\ ENTRIES = 2 * h /\ q \in Nat
            /\ q < h \/ (q >= 3 * h /\ q < 4 * h)
<1> DEFINE h == ENTRIES \div 2
           P == PML4_SPAN
           q == v \div P
<1>1. h \in Nat /\ ENTRIES = 2 * h
  BY GeometryAssumption
<1>2. P \in Nat \ {0} /\ v \in Nat /\ v \in Int /\ v < WORD
  BY Geometry, Indexes
<1>3. WORD = 2 * P * ENTRIES /\ (v < P * h \/ v >= WORD - P * h)
  BY DEF Address, Usable, Canonical, WORD, HIGHER_HALF_OFFSET
<1> HIDE DEF h, P
<1>4. q \in Int /\ P * q <= v /\ v < P * q + P /\ q >= 0
  <2>1. /\ v \div P \in Int /\ v % P \in 0..(P - 1)
        /\ v = P * (v \div P) + (v % P)
        /\ P * (v \div P) <= v /\ v < P * (v \div P) + P
        /\ v >= 0 => v \div P >= 0
    BY <1>2, Quotient
  <2> QED BY <1>2, <2>1
<1> HIDE DEF q
<1>5. WORD = P * (4 * h)
  BY <1>1, <1>2, <1>3
<1>6. P * q + P = P * (q + 1)
  BY <1>2, <1>4
<1>7. q < 4 * h
  <2>1. P * q < P * (4 * h)
    <3>1. P * q \in Int /\ P * (4 * h) \in Int
      BY <1>1, <1>2, <1>4
    <3> QED BY <1>2, <1>4, <1>5, <3>1
  <2> QED BY <1>1, <1>2, <1>4, <2>1, Order
<1>8. CASE v < P * h
  <2>1. P * q < P * h
    <3>1. P * q \in Int /\ P * h \in Int
      BY <1>1, <1>2, <1>4
    <3> QED BY <1>2, <1>4, <1>8, <3>1
  <2>2. q < h
    BY <1>1, <1>2, <1>4, <2>1, Order
  <2> QED BY <1>1, <1>4, <2>2 DEF h, q, P
<1>9. CASE v >= WORD - P * h
  <2>1. WORD - P * h = P * (3 * h)
    BY <1>1, <1>2, <1>5
  <2>2. P * (3 * h) < P * (q + 1)
    <3>1. P * (3 * h) \in Int /\ P * (q + 1) \in Int
      BY <1>1, <1>2, <1>4
    <3> QED BY <1>2, <1>4, <1>6, <1>9, <2>1, <3>1
  <2>3. 3 * h < q + 1
    <3>1. 3 * h \in Int /\ q + 1 \in Int
      BY <1>1, <1>4
    <3> QED BY <1>2, <2>2, <3>1, Order
  <2> QED BY <1>1, <1>4, <1>7, <2>3 DEF h, q, P
<1> QED
  BY <1>3, <1>8, <1>9

\* The indexes of an address are the digits of its quotients.
LEMMA Digits ==
  ASSUME NEW v \in Address
  PROVE  /\ v \div PDPT_SPAN = ENTRIES * (v \div PML4_SPAN) + PDPT_IDX(v)
         /\ v \div HUGE_SIZE = ENTRIES * (v \div PDPT_SPAN) + PD_IDX(v)
         /\ v \div PAGE_SIZE = ENTRIES * (v \div HUGE_SIZE) + PT_IDX(v)
<1>1. v \in Int /\ ENTRIES \in Nat \ {0}
  BY Geometry, Indexes
<1>2. ASSUME NEW b \in Nat \ {0}
      PROVE  v \div b = ENTRIES * (v \div (b * ENTRIES)) + ((v \div b) % ENTRIES)
  <2>1. v \div b \in Int
    BY <1>1, Quotient
  <2>2. v \div (b * ENTRIES) = (v \div b) \div ENTRIES
    BY <1>1, DivideTwice
  <2> QED BY <1>1, <2>1, <2>2, Quotient
<1>3. PDPT_SPAN \in Nat \ {0} /\ HUGE_SIZE \in Nat \ {0} /\ PAGE_SIZE \in Nat \ {0}
  BY Geometry
<1>4. v \div PDPT_SPAN = ENTRIES * (v \div PML4_SPAN) + PDPT_IDX(v)
  BY <1>2, <1>3 DEF PML4_SPAN, PDPT_IDX
<1>5. v \div HUGE_SIZE = ENTRIES * (v \div PDPT_SPAN) + PD_IDX(v)
  BY <1>2, <1>3 DEF PDPT_SPAN, PD_IDX
<1>6. v \div PAGE_SIZE = ENTRIES * (v \div HUGE_SIZE) + PT_IDX(v)
  BY <1>2, <1>3 DEF HUGE_SIZE, PT_IDX
<1> QED
  BY <1>4, <1>5, <1>6

\* Equal indexes: the same block, as far as they go.
LEMMA SameIndexes ==
  ASSUME NEW u \in Address, NEW v \in Address
  PROVE  /\ PML4_IDX(u) = PML4_IDX(v) => u \div PML4_SPAN = v \div PML4_SPAN
         /\ u \div PML4_SPAN = v \div PML4_SPAN /\ PDPT_IDX(u) = PDPT_IDX(v)
              => u \div PDPT_SPAN = v \div PDPT_SPAN
         /\ u \div PDPT_SPAN = v \div PDPT_SPAN /\ PD_IDX(u) = PD_IDX(v)
              => u \div HUGE_SIZE = v \div HUGE_SIZE
         /\ u \div HUGE_SIZE = v \div HUGE_SIZE /\ PT_IDX(u) = PT_IDX(v)
              => u \div PAGE_SIZE = v \div PAGE_SIZE
<1>1. PML4_IDX(u) = PML4_IDX(v) => u \div PML4_SPAN = v \div PML4_SPAN
  <2> DEFINE h == ENTRIES \div 2
             x == u \div PML4_SPAN
             y == v \div PML4_SPAN
  <2>1. /\ h \in Nat /\ ENTRIES = 2 * h /\ x \in Nat /\ y \in Nat
        /\ x < h \/ (x >= 3 * h /\ x < 4 * h)
        /\ y < h \/ (y >= 3 * h /\ y < 4 * h)
    BY Halves
  <2> HIDE DEF h, x, y
  <2>2. ASSUME NEW z \in Nat, z < h \/ (z >= 3 * h /\ z < 4 * h)
        PROVE  z % ENTRIES = IF z < h THEN z ELSE z - ENTRIES
    <3> DEFINE E == ENTRIES
    <3>1. E \in Nat \ {0} /\ E = 2 * h /\ z \in Int
      BY <2>1, Geometry
    <3> HIDE DEF E
    <3>2. CASE z < h
      <4>1. z \div E = 0
        BY <2>1, <3>1, <3>2, QuotientIs
      <4>2. /\ z \div E \in Int /\ z % E \in 0..(E - 1)
            /\ z = E * (z \div E) + (z % E)
            /\ E * (z \div E) <= z /\ z < E * (z \div E) + E
            /\ z >= 0 => z \div E >= 0
        BY <3>1, Quotient
      <4> QED BY <3>1, <3>2, <4>1, <4>2 DEF E
    <3>3. CASE ~(z < h)
      <4>1. z \div E = 1
        BY <2>1, <2>2, <3>1, <3>3, QuotientIs
      <4>2. /\ z \div E \in Int /\ z % E \in 0..(E - 1)
            /\ z = E * (z \div E) + (z % E)
            /\ E * (z \div E) <= z /\ z < E * (z \div E) + E
            /\ z >= 0 => z \div E >= 0
        BY <3>1, Quotient
      <4> QED BY <3>1, <3>3, <4>1, <4>2 DEF E
    <3> QED BY <3>2, <3>3
  <2>3. x % ENTRIES = y % ENTRIES => x = y
    <3>1. x % ENTRIES = IF x < h THEN x ELSE x - ENTRIES
      BY <2>1, <2>2
    <3>2. y % ENTRIES = IF y < h THEN y ELSE y - ENTRIES
      BY <2>1, <2>2
    <3> QED BY <2>1, <3>1, <3>2
  <2> QED BY <2>3 DEF PML4_IDX, x, y
<1> QED
  BY <1>1, Digits

\* And the same block: equal indexes.
LEMMA SameBlock ==
  ASSUME NEW u \in Address, NEW v \in Address
  PROVE  /\ u \div PAGE_SIZE = v \div PAGE_SIZE => u \div HUGE_SIZE = v \div HUGE_SIZE
         /\ u \div HUGE_SIZE = v \div HUGE_SIZE => u \div PDPT_SPAN = v \div PDPT_SPAN
         /\ u \div PDPT_SPAN = v \div PDPT_SPAN => u \div PML4_SPAN = v \div PML4_SPAN
         /\ u \div PML4_SPAN = v \div PML4_SPAN => PML4_IDX(u) = PML4_IDX(v)
         /\ u \div PDPT_SPAN = v \div PDPT_SPAN => PDPT_IDX(u) = PDPT_IDX(v)
         /\ u \div HUGE_SIZE = v \div HUGE_SIZE => PD_IDX(u) = PD_IDX(v)
         /\ u \div PAGE_SIZE = v \div PAGE_SIZE => PT_IDX(u) = PT_IDX(v)
<1>1. /\ u \in Int /\ v \in Int /\ ENTRIES \in Nat \ {0} /\ PDPT_SPAN \in Nat \ {0}
      /\ HUGE_SIZE \in Nat \ {0} /\ PAGE_SIZE \in Nat \ {0}
  BY Geometry, Indexes
<1>2. ASSUME NEW b \in Nat \ {0}, u \div b = v \div b
      PROVE  u \div (b * ENTRIES) = v \div (b * ENTRIES)
  <2>1. u \div (b * ENTRIES) = (u \div b) \div ENTRIES
    BY <1>1, DivideTwice
  <2>2. v \div (b * ENTRIES) = (v \div b) \div ENTRIES
    BY <1>1, DivideTwice
  <2> QED BY <1>2, <2>1, <2>2
<1>3. u \div PAGE_SIZE = v \div PAGE_SIZE => u \div HUGE_SIZE = v \div HUGE_SIZE
  BY <1>1, <1>2 DEF HUGE_SIZE
<1>4. u \div HUGE_SIZE = v \div HUGE_SIZE => u \div PDPT_SPAN = v \div PDPT_SPAN
  BY <1>1, <1>2 DEF PDPT_SPAN
<1>5. u \div PDPT_SPAN = v \div PDPT_SPAN => u \div PML4_SPAN = v \div PML4_SPAN
  BY <1>1, <1>2 DEF PML4_SPAN
<1> QED
  BY <1>3, <1>4, <1>5 DEF PML4_IDX, PDPT_IDX, PD_IDX, PT_IDX

------------------------------------------------------------------------------
(* Extending the tables.                                                   *)

LEMMA LowestIsIn ==
  ASSUME NEW S \in SUBSET Nat, S # {}
  PROVE  Lowest(S) \in S
<1>1. PICK x \in S : \A y \in S : <<y, x>> \notin OpToRel(<, Nat)
  BY NatLessThanWellFounded, WFMin
<1>2. \A y \in S : x <= y
  <2>1. ASSUME NEW y \in S, y < x PROVE FALSE
    <3>1. <<y, x>> \in OpToRel(<, Nat)
      BY <2>1 DEF OpToRel
    <3> QED BY <1>1, <3>1
  <2> QED BY <2>1
<1> QED
  BY <1>2 DEF Lowest

Walks == [mem : Memories, free : SUBSET (Nat \ {nullptr}), at : Nat,
          huge : BOOLEAN, fault : BOOLEAN, missed : Nat]

LEMMA HigherHalfType ==
  ASSUME NEW a \in Nat
  PROVE  HH(a) \in Nat
<1>1. WORD \in Nat \ {0} /\ HIGHER_HALF_OFFSET \in Int
  <2> DEFINE h == ENTRIES \div 2
  <2>1. h \in Int /\ PML4_SPAN \in Nat /\ WORD \in Nat \ {0}
    BY GeometryAssumption, Geometry
  <2> HIDE DEF h
  <2>2. WORD - PML4_SPAN * h \in Int
    BY <2>1
  <2> QED BY <2>1, <2>2 DEF HIGHER_HALF_OFFSET, h
<1>2. HIGHER_HALF_OFFSET + a \in Int
  BY <1>1
<1>3. (HIGHER_HALF_OFFSET + a) % WORD \in 0..(WORD - 1)
  BY <1>1, <1>2, Quotient
<1> QED
  BY <1>1, <1>3 DEF HH, Plus

\* A walk that misses a page stays a walk, and has changed nothing.
LEMMA MissingWalk ==
  ASSUME NEW s \in Walks, NEW virt \in Nat
  PROVE  LET n == Misses(s, virt) IN
         /\ n \in Walks /\ n.mem = s.mem /\ n.free = s.free /\ n.at = s.at
         /\ n.huge = s.huge /\ n.fault /\ n.missed = virt
BY DEF Walks, Misses

\* What a step may do to the tables on the way to its entry: they stay a tree, what is
\* free is no table, and no translation changes.
Sound(s, lev) ==
  /\ s \in Walks
  /\ TreeOf(s.mem, g_pml4_p, lev)
  /\ s.free \cap DOMAIN s.mem = {}
  /\ \A u \in Address : Translate(s.mem, g_pml4_p, u) = Lookup(u)

\* The walk for v has come to level l.
Arrived(s, lev, v, l) ==
  s.at # nullptr /\ ~s.fault /\ ~s.huge =>
    s.at \in DOMAIN s.mem /\ lev[s.at] = l /\ Leads(s.mem, g_pml4_p, v, l, s.at)

Index(v, l) ==
  IF l = 4 THEN PML4_IDX(v) ELSE IF l = 3 THEN PDPT_IDX(v) ELSE PD_IDX(v)

\* One entry further on the way of v.
LEMMA OneDown ==
  ASSUME NEW m, NEW root, NEW v, NEW l \in {2, 3, 4}, NEW t \in DOMAIN m, NEW u,
         Leads(m, root, v, l, t), Goes(m, t, Index(v, l), u)
  PROVE  Leads(m, root, v, l - 1, u)
<1>1. CASE l = 4
  BY <1>1 DEF Leads, Index
<1>2. CASE l = 3
  <2>1. Goes(m, root, PML4_IDX(v), t) /\ Goes(m, t, PDPT_IDX(v), u)
    BY <1>2 DEF Leads, Index
  <2> QED BY <1>2, <2>1 DEF Leads
<1>3. CASE l = 2
  <2>1. PICK t3 \in DOMAIN m : Goes(m, root, PML4_IDX(v), t3) /\ Goes(m, t3, PDPT_IDX(v), t)
    BY <1>3 DEF Leads
  <2>2. Goes(m, t, PD_IDX(v), u)
    BY <1>3 DEF Index
  <2> QED BY <1>3, <2>1, <2>2 DEF Leads
<1> QED
  BY <1>1, <1>2, <1>3

\* The way stays when an absent entry is filled.
LEMMA LinkKeepsWay ==
  ASSUME NEW m, NEW root, NEW lev, TreeOf(m, root, lev), NEW v \in Address, NEW l \in {2, 3, 4},
         NEW t \in DOMAIN m, NEW i \in Idx, NEW p \in Nat \ {0}, p \notin DOMAIN m,
         ~Present(m[t][i]), Leads(m, root, v, l, t)
  PROVE  Leads(Linked(m, t, i, p), root, v, l, t)
<1> DEFINE w == Linked(m, t, i, p)
<1>1. m \in Memories /\ root \in DOMAIN m
  BY DEF TreeOf
<1>2. IsLinked(w, m, t, i, p)
  BY <1>1, LinkedMemory
<1>3. PML4_IDX(v) \in Idx /\ PDPT_IDX(v) \in Idx /\ PD_IDX(v) \in Idx
  BY Indexes
<1> HIDE DEF w
<1>4. ASSUME NEW x \in DOMAIN m, NEW j \in Idx, NEW y, Goes(m, x, j, y)
      PROVE  Goes(w, x, j, y) /\ x \in DOMAIN w
  <2>1. w[x][j] = m[x][j] /\ x \in DOMAIN w
    BY <1>2, <1>4 DEF IsLinked, Goes
  <2> QED BY <1>4, <2>1 DEF Goes
<1>5. CASE l = 4
  BY <1>5 DEF Leads, w
<1>6. CASE l = 3
  <2>1. Goes(m, root, PML4_IDX(v), t)
    BY <1>6 DEF Leads
  <2>2. Goes(w, root, PML4_IDX(v), t)
    BY <1>1, <1>3, <1>4, <2>1
  <2> QED BY <1>6, <2>2 DEF Leads, w
<1>7. CASE l = 2
  <2>1. PICK t3 \in DOMAIN m : Goes(m, root, PML4_IDX(v), t3) /\ Goes(m, t3, PDPT_IDX(v), t)
    BY <1>7 DEF Leads
  <2>2. Goes(w, root, PML4_IDX(v), t3) /\ Goes(w, t3, PDPT_IDX(v), t) /\ t3 \in DOMAIN w
    BY <1>1, <1>3, <1>4, <2>1
  <2> QED BY <1>7, <2>2 DEF Leads, w
<1> QED
  BY <1>5, <1>6, <1>7

\* ensure_table goes one level down, over a table it may make.
LEMMA EnsureTable ==
  ASSUME NEW s, NEW lev, NEW v \in Address, NEW l \in {2, 3, 4},
         Sound(s, lev), Arrived(s, lev, v, l), ~s.huge
  PROVE  \E k : /\ Sound(ensure_table(s, Index(v, l)), k)
                /\ Arrived(ensure_table(s, Index(v, l)), k, v, l - 1)
                /\ l > 2 => ~ensure_table(s, Index(v, l)).huge
<1> DEFINE i == Index(v, l)
           e == s.mem[s.at][i]
           n == ensure_table(s, i)
<1>1. /\ s \in Walks /\ TreeOf(s.mem, g_pml4_p, lev) /\ s.mem \in Memories
      /\ s.free \in SUBSET (Nat \ {0})
  BY DEF Sound, TreeOf, Walks, nullptr
<1>2. i \in Idx /\ (l = 4 => i # ENTRIES - 2)
  BY Indexes DEF Index
<1> HIDE DEF i
<1>3. CASE s.at = nullptr \/ s.fault
  <2>1. n = s
    BY <1>3 DEF ensure_table
  <2>2. Arrived(s, lev, v, l - 1)
    BY <1>3 DEF Arrived
  <2> QED BY <2>1, <2>2 DEF i
<1>4. CASE s.at # nullptr /\ ~s.fault /\ ~Accessible(s, s.at)
  <2>1. n = Misses(s, HH(s.at))
    BY <1>4 DEF ensure_table
  <2>a. HH(s.at) \in Nat
    BY <1>1, HigherHalfType DEF Walks
  <2> HIDE DEF n
  <2>2. n \in Walks /\ n.mem = s.mem /\ n.free = s.free /\ n.fault /\ n.huge = s.huge
    BY <1>1, <2>1, <2>a, MissingWalk
  <2>3. Sound(n, lev) /\ Arrived(n, lev, v, l - 1) /\ ~n.huge
    BY <2>2 DEF Sound, Arrived
  <2> QED BY <2>3 DEF n, i
<1>5. CASE s.at # nullptr /\ ~s.fault /\ Accessible(s, s.at)
  <2>1. s.at \in DOMAIN s.mem /\ lev[s.at] = l /\ Leads(s.mem, g_pml4_p, v, l, s.at)
    BY <1>5 DEF Arrived
  <2>2. ~(s.at = g_pml4_p /\ i = ENTRIES - 2)
    <3>1. s.at = g_pml4_p => l = 4
      BY <1>1, <2>1 DEF TreeOf
    <3> QED BY <1>2, <3>1
  <2>3. e \in PageTableEntries
    BY <1>1, <1>2, <2>1, MemoryType
  <2>4. CASE Present(e)
    <3>1. n = [s EXCEPT !.at = e.to, !.huge = "PS" \in e.flags]
      BY <1>5, <2>4 DEF ensure_table
    <3> DEFINE b == "PS" \in e.flags
    <3>a. b \in BOOLEAN /\ e.to \in Nat
      BY <2>3 DEF PageTableEntries
    <3> HIDE DEF n, b, e
    <3>b. n = [s EXCEPT !.at = e.to, !.huge = b]
      BY <3>1 DEF b
    <3>2. n \in Walks /\ n.mem = s.mem /\ n.free = s.free /\ n.at = e.to /\ n.huge = b
      BY <1>1, <3>a, <3>b DEF Walks
    <3>3. "PS" \in e.flags => l = 2
      BY <1>1, <1>2, <2>1 DEF TreeOf, e
    <3>4. Sound(n, lev)
      BY <3>2 DEF Sound
    <3>5. ASSUME ~n.huge
          PROVE  /\ e.to \in DOMAIN s.mem /\ lev[e.to] = l - 1
                 /\ Leads(s.mem, g_pml4_p, v, l - 1, e.to)
      <4>1. Goes(s.mem, s.at, i, e.to) /\ Link(s.mem, g_pml4_p, lev, s.at, i)
        <5>1. "PS" \notin e.flags
          BY <3>2, <3>5 DEF b
        <5> QED BY <2>1, <2>2, <2>4, <5>1 DEF Goes, Link, e
      <4>2. e.to \in DOMAIN s.mem /\ lev[e.to] = lev[s.at] - 1
        BY <1>1, <1>2, <2>1, <4>1 DEF TreeOf, e
      <4>3. Leads(s.mem, g_pml4_p, v, l - 1, e.to)
        BY <2>1, <4>1, OneDown DEF i
      <4> QED BY <2>1, <4>2, <4>3
    <3>6. Arrived(n, lev, v, l - 1)
      BY <3>2, <3>5 DEF Arrived
    <3>7. l > 2 => ~n.huge
      <4>1. l > 2 => ~(l = 2)
        OBVIOUS
      <4>2. n.huge => l = 2
        BY <3>2, <3>3 DEF b
      <4> QED BY <4>1, <4>2
    <3> QED BY <3>4, <3>6, <3>7 DEF n, i
  <2>5. CASE ~Present(e) /\ s.free = {}
    <3>1. n = [s EXCEPT !.at = nullptr]
      BY <1>5, <2>5 DEF ensure_table
    <3> HIDE DEF n
    <3>2. n \in Walks /\ n.mem = s.mem /\ n.free = s.free /\ n.at = nullptr /\ n.huge = s.huge
      BY <1>1, <3>1 DEF Walks, nullptr
    <3>3. Sound(n, lev) /\ Arrived(n, lev, v, l - 1) /\ ~n.huge
      BY <3>2 DEF Sound, Arrived
    <3> QED BY <3>3 DEF n, i
  <2>6. CASE ~Present(e) /\ s.free # {} /\ Reaches(s.mem, Lowest(s.free), Lowest(s.free))
    <3> DEFINE p == Lowest(s.free)
               w == Linked(s.mem, s.at, i, p)
               k == NextLevel(lev, s.mem, s.at, p)
    <3>1. p \in s.free /\ p \in Nat \ {0} /\ p \notin DOMAIN s.mem
      <4>1. p \in s.free
        BY <1>1, <2>6, LowestIsIn
      <4> QED BY <1>1, <4>1 DEF Sound
    <3>2. n = [s EXCEPT !.mem = w, !.free = s.free \ {p}, !.at = p]
      <4>1. n = NewTable(s, i)
        BY <1>5, <2>6 DEF ensure_table
      <4>2. NewTable(s, i) = new_table(s, i, s.free \ {p})
        BY DEF NewTable
      <4>3. new_table(s, i, s.free \ {p}) =
              [s EXCEPT !.mem = w, !.free = s.free \ {p}, !.at = p]
        BY <2>6 DEF new_table, Linked
      <4> QED BY <4>1, <4>2, <4>3
    <3> HIDE DEF n, p
    <3>3. IsLinked(w, s.mem, s.at, i, p)
      BY <1>1, <1>2, <2>1, <3>1, LinkedMemory
    <3>4. TreeOf(w, g_pml4_p, k)
      BY <1>1, <1>2, <2>1, <2>2, <2>6, <3>1, LinkKeepsTree
    <3>5. \A u \in Address : Translate(w, g_pml4_p, u) = Translate(s.mem, g_pml4_p, u)
      BY <1>1, <1>2, <2>1, <2>2, <2>6, <3>1, LinkKeepsTranslation
    <3>6. Leads(w, g_pml4_p, v, l, s.at)
      BY <1>1, <1>2, <2>1, <2>6, <3>1, LinkKeepsWay
    <3>7. k[p] = l - 1
      BY <2>1 DEF NextLevel
    <3> HIDE DEF w, k
    <3>8. w \in Memories /\ DOMAIN w = DOMAIN s.mem \cup {p}
      BY <3>3 DEF IsLinked
    <3>9. w[s.at][i] = Entry(p, {"P", "RW"})
      BY <1>2, <2>1, <3>3 DEF IsLinked
    <3>10. Goes(w, s.at, i, p)
      BY <3>9 DEF Goes, Present, Entry
    <3>11. Leads(w, g_pml4_p, v, l - 1, p)
      BY <2>1, <3>6, <3>8, <3>10, OneDown DEF i
    <3>13. /\ n \in Walks /\ n.mem = w /\ n.free = s.free \ {p} /\ n.at = p
           /\ n.huge = s.huge
      BY <1>1, <3>1, <3>2, <3>8 DEF Walks
    <3>14. Sound(n, k)
      <4>1. n.free \cap DOMAIN n.mem = {}
        BY <3>8, <3>13 DEF Sound
      <4>2. \A u \in Address : Translate(n.mem, g_pml4_p, u) = Lookup(u)
        BY <3>5, <3>13 DEF Sound
      <4> QED BY <3>4, <3>13, <4>1, <4>2 DEF Sound
    <3>15. Arrived(n, k, v, l - 1)
      BY <3>7, <3>8, <3>11, <3>13 DEF Arrived
    <3> QED BY <3>13, <3>14, <3>15 DEF n, i
  <2>7. CASE ~Present(e) /\ s.free # {} /\ ~Reaches(s.mem, Lowest(s.free), Lowest(s.free))
    <3> DEFINE p == Lowest(s.free)
               q == [s EXCEPT !.free = s.free \ {p}]
    <3>1. p \in Nat
      <4>1. p \in s.free
        BY <1>1, <2>7, LowestIsIn
      <4> QED BY <1>1, <4>1
    <3>2. n = Misses(q, p)
      <4>1. n = NewTable(s, i)
        BY <1>5, <2>7 DEF ensure_table
      <4>2. NewTable(s, i) = new_table(s, i, s.free \ {p})
        BY DEF NewTable
      <4>3. new_table(s, i, s.free \ {p}) = Misses(q, p)
        BY <2>7 DEF new_table
      <4> QED BY <4>1, <4>2, <4>3
    <3> HIDE DEF n, p
    <3>3. q \in Walks /\ q.mem = s.mem /\ q.free = s.free \ {p} /\ q.huge = s.huge
      BY <1>1 DEF Walks
    <3> HIDE DEF q
    <3>4. n \in Walks /\ n.mem = s.mem /\ n.free = s.free \ {p} /\ n.fault /\ n.huge = s.huge
      BY <3>1, <3>2, <3>3, MissingWalk
    <3>5. n.free \cap DOMAIN n.mem = {}
      BY <3>4 DEF Sound
    <3>6. Sound(n, lev) /\ Arrived(n, lev, v, l - 1) /\ ~n.huge
      BY <3>4, <3>5 DEF Sound, Arrived
    <3> QED BY <3>6 DEF n, i
  <2> QED BY <2>4, <2>5, <2>6, <2>7
<1> QED
  BY <1>3, <1>4, <1>5

\* What is left of the tables when n bytes were mapped at v.
Maps(s, v, n) ==
  /\ s.free \in SUBSET (Nat \ {nullptr}) /\ s.free \cap DOMAIN s.mem = {}
  /\ \E k : TreeOf(s.mem, g_pml4_p, k)
  /\ \A u \in Address : u \div n # v \div n \/ s.huge \/ s.at = nullptr =>
       Translate(s.mem, g_pml4_p, u) = Lookup(u)

LEMMA SoundMaps ==
  ASSUME NEW s, NEW k, Sound(s, k), NEW v, NEW n
  PROVE  Maps(s, v, n)
BY DEF Sound, Maps, Walks

LEMMA StorePage ==
  ASSUME NEW s, NEW k, NEW v \in Address, Sound(s, k), Arrived(s, k, v, 1),
         NEW e \in PageTableEntries, e.to % PAGE_SIZE = 0
  PROVE  Maps(store(s, PT_IDX(v), e), v, PAGE_SIZE)
<1> DEFINE i == PT_IDX(v)
           n == store(s, i, e)
           w == [s.mem EXCEPT ![s.at][i] = e]
<1>1. /\ s \in Walks /\ TreeOf(s.mem, g_pml4_p, k) /\ s.mem \in Memories
      /\ s.free \in SUBSET (Nat \ {nullptr}) /\ s.free \cap DOMAIN s.mem = {}
  BY DEF Sound, TreeOf, Walks
<1>2. i \in Idx
  BY Indexes
<1>3. CASE s.at = nullptr \/ s.fault
  <2>1. n = s
    BY <1>3 DEF store
  <2> QED BY <2>1, SoundMaps
<1>4. CASE ~(s.at = nullptr \/ s.fault) /\ ~Accessible(s, s.at)
  <2>1. n = Misses(s, HH(s.at))
    BY <1>4 DEF store
  <2>a. HH(s.at) \in Nat
    BY <1>1, HigherHalfType DEF Walks
  <2> HIDE DEF n
  <2>2. n \in Walks /\ n.mem = s.mem /\ n.free = s.free
    BY <1>1, <2>1, <2>a, MissingWalk
  <2>3. Sound(n, k)
    BY <2>2 DEF Sound
  <2> QED BY <2>3, SoundMaps DEF n
<1>5. CASE ~(s.at = nullptr \/ s.fault) /\ Accessible(s, s.at) /\ s.huge
  <2>1. n = s
    BY <1>5 DEF store
  <2> QED BY <2>1, SoundMaps
<1>6. CASE ~(s.at = nullptr \/ s.fault) /\ Accessible(s, s.at) /\ ~s.huge
  <2>1. n = [s EXCEPT !.mem[s.at][i] = e]
    BY <1>6 DEF store
  <2>2. s.at \in DOMAIN s.mem /\ k[s.at] = 1 /\ Leads(s.mem, g_pml4_p, v, 1, s.at)
    BY <1>6 DEF Arrived
  <2>3. s.at # g_pml4_p
    BY <1>1, <2>2 DEF TreeOf
  <2> HIDE DEF n, i
  <2>4. n.mem = w /\ n.free = s.free /\ n.at = s.at /\ n.huge = s.huge
    BY <1>1, <2>1 DEF Walks
  <2>5. TreeOf(w, g_pml4_p, k)
    BY <1>1, <1>2, <2>2, <2>3, WriteKeepsTree
  <2>6. DOMAIN w = DOMAIN s.mem
    OBVIOUS
  <2>7. ASSUME NEW u \in Address, u \div PAGE_SIZE # v \div PAGE_SIZE
        PROVE  Translate(w, g_pml4_p, u) = Lookup(u)
    <3>1. ~(Leads(s.mem, g_pml4_p, u, 1, s.at) /\ PT_IDX(u) = i)
      <4>1. SUFFICES ASSUME Leads(s.mem, g_pml4_p, u, 1, s.at), PT_IDX(u) = i PROVE FALSE
        OBVIOUS
      <4>2. PML4_IDX(u) = PML4_IDX(v) /\ PDPT_IDX(u) = PDPT_IDX(v) /\ PD_IDX(u) = PD_IDX(v)
        BY <1>1, <2>2, <4>1, OneWay
      <4>3. u \div PAGE_SIZE = v \div PAGE_SIZE
        BY <4>1, <4>2, SameIndexes DEF i
      <4> QED BY <2>7, <4>3
    <3>2. Translate(w, g_pml4_p, u) = Translate(s.mem, g_pml4_p, u)
      BY <1>1, <1>2, <2>2, <3>1, LeafFrame
    <3> QED BY <3>2 DEF Sound
  <2> HIDE DEF w
  <2>8. n.at # nullptr /\ ~n.huge
    BY <1>6, <2>4
  <2>9. Maps(n, v, PAGE_SIZE)
    BY <1>1, <2>4, <2>5, <2>6, <2>7, <2>8 DEF Maps
  <2> QED BY <2>9 DEF n, i
<1> QED
  BY <1>3, <1>4, <1>5, <1>6

LEMMA StoreHuge ==
  ASSUME NEW s, NEW k, NEW v \in Address, Sound(s, k), Arrived(s, k, v, 2),
         NEW e \in PageTableEntries, "PS" \in e.flags
  PROVE  Maps(store(s, PD_IDX(v), e), v, HUGE_SIZE)
<1> DEFINE i == PD_IDX(v)
           n == store(s, i, e)
           w == [s.mem EXCEPT ![s.at][i] = e]
<1>1. /\ s \in Walks /\ TreeOf(s.mem, g_pml4_p, k) /\ s.mem \in Memories
      /\ s.free \in SUBSET (Nat \ {nullptr}) /\ s.free \cap DOMAIN s.mem = {}
  BY DEF Sound, TreeOf, Walks
<1>2. i \in Idx
  BY Indexes
<1>3. CASE s.at = nullptr \/ s.fault
  <2>1. n = s
    BY <1>3 DEF store
  <2> QED BY <2>1, SoundMaps
<1>4. CASE ~(s.at = nullptr \/ s.fault) /\ ~Accessible(s, s.at)
  <2>1. n = Misses(s, HH(s.at))
    BY <1>4 DEF store
  <2>a. HH(s.at) \in Nat
    BY <1>1, HigherHalfType DEF Walks
  <2> HIDE DEF n
  <2>2. n \in Walks /\ n.mem = s.mem /\ n.free = s.free
    BY <1>1, <2>1, <2>a, MissingWalk
  <2>3. Sound(n, k)
    BY <2>2 DEF Sound
  <2> QED BY <2>3, SoundMaps DEF n
<1>5. CASE ~(s.at = nullptr \/ s.fault) /\ Accessible(s, s.at) /\ s.huge
  <2>1. n = s
    BY <1>5 DEF store
  <2> QED BY <2>1, SoundMaps
<1>6. CASE ~(s.at = nullptr \/ s.fault) /\ Accessible(s, s.at) /\ ~s.huge
  <2>1. n = [s EXCEPT !.mem[s.at][i] = e]
    BY <1>6 DEF store
  <2>2. s.at \in DOMAIN s.mem /\ k[s.at] = 2 /\ Leads(s.mem, g_pml4_p, v, 2, s.at)
    BY <1>6 DEF Arrived
  <2>3. s.at # g_pml4_p
    BY <1>1, <2>2 DEF TreeOf
  <2> HIDE DEF n, i
  <2>4. n.mem = w /\ n.free = s.free /\ n.at = s.at /\ n.huge = s.huge
    BY <1>1, <2>1 DEF Walks
  <2>5. TreeOf(w, g_pml4_p, k)
    BY <1>1, <1>2, <2>2, <2>3, WriteKeepsTree
  <2>6. DOMAIN w = DOMAIN s.mem
    OBVIOUS
  <2>7. ASSUME NEW u \in Address, u \div HUGE_SIZE # v \div HUGE_SIZE
        PROVE  Translate(w, g_pml4_p, u) = Lookup(u)
    <3>1. ~(Leads(s.mem, g_pml4_p, u, 2, s.at) /\ PD_IDX(u) = i)
      <4>1. SUFFICES ASSUME Leads(s.mem, g_pml4_p, u, 2, s.at), PD_IDX(u) = i PROVE FALSE
        OBVIOUS
      <4>2. PML4_IDX(u) = PML4_IDX(v) /\ PDPT_IDX(u) = PDPT_IDX(v)
        BY <1>1, <2>2, <4>1, OneWay
      <4>3. u \div HUGE_SIZE = v \div HUGE_SIZE
        BY <4>1, <4>2, SameIndexes DEF i
      <4> QED BY <2>7, <4>3
    <3>2. Translate(w, g_pml4_p, u) = Translate(s.mem, g_pml4_p, u)
      BY <1>1, <1>2, <2>2, <3>1, DirectoryFrame
    <3> QED BY <3>2 DEF Sound
  <2> HIDE DEF w
  <2>8. n.at # nullptr /\ ~n.huge
    BY <1>6, <2>4
  <2>9. Maps(n, v, HUGE_SIZE)
    BY <1>1, <2>4, <2>5, <2>6, <2>7, <2>8 DEF Maps
  <2> QED BY <2>9 DEF n, i
<1> QED
  BY <1>3, <1>4, <1>5, <1>6

\* Pages that are free hold no table.
FreeInv == free \in SUBSET (Nat \ {nullptr}) /\ free \cap DOMAIN mem = {}

\* What aligning down gives.
LEMMA AlignedDown ==
  ASSUME NEW a \in Nat, NEW n \in Nat \ {0}
  PROVE  /\ AlignDown(a, n) \in Nat /\ AlignDown(a, n) % n = 0
         /\ AlignDown(a, n) = n * (a \div n) /\ (a \div n) \in Nat
<1>1. a \in Int
  OBVIOUS
<1>2. /\ a \div n \in Int /\ a % n \in 0..(n - 1)
      /\ a = n * (a \div n) + (a % n)
      /\ n * (a \div n) <= a /\ a < n * (a \div n) + n
      /\ a >= 0 => a \div n >= 0
  BY <1>1, Quotient
<1> DEFINE q == a \div n
<1>3. q \in Nat /\ AlignDown(a, n) = n * q
  BY <1>2 DEF AlignDown
<1> HIDE DEF q
<1> DEFINE b == n * q
<1>4. b \in Int /\ b >= 0 /\ n * q <= b /\ b < n * q + n
  BY <1>3
<1>5. b = n * q
  OBVIOUS
<1> HIDE DEF b
<1>6. b \div n = q
  BY <1>3, <1>4, QuotientIs
<1>7. /\ b \div n \in Int /\ b % n \in 0..(n - 1)
      /\ b = n * (b \div n) + (b % n)
      /\ n * (b \div n) <= b /\ b < n * (b \div n) + n
      /\ b >= 0 => b \div n >= 0
  BY <1>4, Quotient
<1>8. b % n = 0
  <2>1. b = b + (b % n) /\ b % n \in Int
    BY <1>5, <1>6, <1>7
  <2> QED BY <1>4, <2>1
<1> QED
  BY <1>3, <1>4, <1>5, <1>8 DEF q

\* The page directory of v, and what map_page and map_huge make of the tables.
LEMMA Directory ==
  ASSUME Tree, FreeInv, NEW v \in Address, NEW s \in pd_of(v)
  PROVE  \E k : Sound(s, k) /\ Arrived(s, k, v, 2) /\ ~s.huge
<1>1. PICK lev : TreeOf(mem, g_pml4_p, lev)
  BY DEF Tree
<1>2. mem \in Memories /\ g_pml4_p \in DOMAIN mem
  BY <1>1 DEF TreeOf
<1>3. g_pml4_p \in Nat \ {0}
  BY <1>2, MemoryType
<1>4. Here \in Walks /\ Here.mem = mem /\ Here.free = free /\ Here.at = g_pml4_p /\ ~Here.huge
  BY <1>2, <1>3 DEF Here, Walks, FreeInv
<1>5. Sound(Here, lev)
  BY <1>1, <1>4 DEF Sound, FreeInv, Lookup
<1>6. Arrived(Here, lev, v, 4)
  BY <1>1, <1>4, Descent DEF Arrived
<1> DEFINE r == ensure_table(Here, PML4_IDX(v))
<1>7. PICK k3 : Sound(r, k3) /\ Arrived(r, k3, v, 3) /\ ~r.huge
  <2>1. Index(v, 4) = PML4_IDX(v)
    BY DEF Index
  <2>2. \E k : /\ Sound(ensure_table(Here, Index(v, 4)), k)
               /\ Arrived(ensure_table(Here, Index(v, 4)), k, v, 4 - 1)
               /\ 4 > 2 => ~ensure_table(Here, Index(v, 4)).huge
    BY <1>4, <1>5, <1>6, EnsureTable
  <2> QED BY <2>1, <2>2
<1> HIDE DEF r
<1>8. \E k : Sound(ensure_table(r, PDPT_IDX(v)), k) /\ Arrived(ensure_table(r, PDPT_IDX(v)), k, v, 2)
             /\ ~ensure_table(r, PDPT_IDX(v)).huge
  <2>1. Index(v, 3) = PDPT_IDX(v)
    BY DEF Index
  <2>2. \E k : /\ Sound(ensure_table(r, Index(v, 3)), k)
               /\ Arrived(ensure_table(r, Index(v, 3)), k, v, 3 - 1)
               /\ 3 > 2 => ~ensure_table(r, Index(v, 3)).huge
    BY <1>7, EnsureTable
  <2> QED BY <2>1, <2>2
<1>9. s = ensure_table(r, PDPT_IDX(v))
  BY DEF pd_of, r
<1> QED
  BY <1>8, <1>9

LEMMA MapPageMaps ==
  ASSUME Tree, FreeInv, NEW v \in Address, NEW p \in Nat, NEW flags \in SUBSET PageFlags,
         NEW s \in map_page(v, p, flags)
  PROVE  Maps(s, v, PAGE_SIZE)
<1> DEFINE e == Entry(AlignDown(p, PAGE_SIZE), flags \cup {"P"})
<1>1. PICK pd \in pd_of(v) : s = store(ensure_table(pd, PD_IDX(v)), PT_IDX(v), e)
  BY DEF map_page
<1>2. PICK k2 : Sound(pd, k2) /\ Arrived(pd, k2, v, 2) /\ ~pd.huge
  BY Directory
<1>3. PICK k : /\ Sound(ensure_table(pd, PD_IDX(v)), k)
               /\ Arrived(ensure_table(pd, PD_IDX(v)), k, v, 1)
  <2>1. Index(v, 2) = PD_IDX(v)
    BY DEF Index
  <2>2. \E k : /\ Sound(ensure_table(pd, Index(v, 2)), k)
               /\ Arrived(ensure_table(pd, Index(v, 2)), k, v, 2 - 1)
               /\ 2 > 2 => ~ensure_table(pd, Index(v, 2)).huge
    BY <1>2, EnsureTable
  <2> QED BY <2>1, <2>2
<1>4. e \in PageTableEntries /\ e.to % PAGE_SIZE = 0
  <2>1. AlignDown(p, PAGE_SIZE) \in Nat /\ AlignDown(p, PAGE_SIZE) % PAGE_SIZE = 0
    BY Geometry, AlignedDown
  <2> QED BY <2>1 DEF Entry, PageTableEntries, PageFlags
<1> HIDE DEF e
<1> QED
  BY <1>1, <1>3, <1>4, StorePage

LEMMA MapHugeMaps ==
  ASSUME Tree, FreeInv, NEW v \in Address, NEW p \in Nat, NEW flags \in SUBSET PageFlags,
         NEW s \in map_huge(v, p, flags)
  PROVE  Maps(s, v, HUGE_SIZE)
<1> DEFINE e == Entry(AlignDown(p, HUGE_SIZE), flags \cup {"P", "PS"})
<1>1. PICK pd \in pd_of(v) : s = store(pd, PD_IDX(v), e)
  BY DEF map_huge
<1>2. PICK k : Sound(pd, k) /\ Arrived(pd, k, v, 2) /\ ~pd.huge
  BY Directory
<1>3. e \in PageTableEntries /\ "PS" \in e.flags
  <2>1. AlignDown(p, HUGE_SIZE) \in Nat
    BY Geometry, AlignedDown
  <2> QED BY <2>1 DEF Entry, PageTableEntries, PageFlags
<1> HIDE DEF e
<1> QED
  BY <1>1, <1>2, <1>3, StoreHuge

------------------------------------------------------------------------------
(* Reading and clearing the tables.                                        *)

LEMMA SpansGrow ==
  PAGE_SIZE < HUGE_SIZE /\ HUGE_SIZE < PDPT_SPAN /\ PDPT_SPAN < PML4_SPAN /\ PML4_SPAN < WORD
<1>1. ASSUME NEW b \in Nat \ {0} PROVE b < b * ENTRIES
  <2>1. ENTRIES \in Nat /\ ENTRIES >= 2
    BY GeometryAssumption
  <2>2. b * ENTRIES >= b * 2
    BY <2>1
  <2> QED BY <2>1, <2>2
<1>2. WORD = 2 * (PML4_SPAN * ENTRIES) /\ PML4_SPAN * ENTRIES \in Nat
  BY Geometry DEF WORD
<1>3. PML4_SPAN < PML4_SPAN * ENTRIES /\ PML4_SPAN \in Nat
  BY <1>1, Geometry
<1>4. PML4_SPAN < WORD
  BY <1>2, <1>3
<1> QED
  BY <1>1, <1>4, Geometry DEF HUGE_SIZE, PDPT_SPAN, PML4_SPAN

\* Addresses of one block find the same entries.
LEMMA SameEntries ==
  ASSUME NEW m, NEW root, NEW u \in Address, NEW v \in Address
  PROVE  /\ u \div PML4_SPAN = v \div PML4_SPAN => E4(m, root, u) = E4(m, root, v)
         /\ u \div PDPT_SPAN = v \div PDPT_SPAN =>
              E4(m, root, u) = E4(m, root, v) /\ E3(m, root, u) = E3(m, root, v)
         /\ u \div HUGE_SIZE = v \div HUGE_SIZE =>
              /\ E4(m, root, u) = E4(m, root, v) /\ E3(m, root, u) = E3(m, root, v)
              /\ E2(m, root, u) = E2(m, root, v)
         /\ u \div PAGE_SIZE = v \div PAGE_SIZE =>
              /\ E4(m, root, u) = E4(m, root, v) /\ E3(m, root, u) = E3(m, root, v)
              /\ E2(m, root, u) = E2(m, root, v) /\ E1(m, root, u) = E1(m, root, v)
<1>1. u \div PML4_SPAN = v \div PML4_SPAN => E4(m, root, u) = E4(m, root, v)
  BY SameBlock DEF E4
<1>2. u \div PDPT_SPAN = v \div PDPT_SPAN =>
        E4(m, root, u) = E4(m, root, v) /\ E3(m, root, u) = E3(m, root, v)
  BY <1>1, SameBlock DEF E3
<1>3. u \div HUGE_SIZE = v \div HUGE_SIZE =>
        /\ E4(m, root, u) = E4(m, root, v) /\ E3(m, root, u) = E3(m, root, v)
        /\ E2(m, root, u) = E2(m, root, v)
  BY <1>2, SameBlock DEF E2
<1>4. u \div PAGE_SIZE = v \div PAGE_SIZE =>
        /\ E4(m, root, u) = E4(m, root, v) /\ E3(m, root, u) = E3(m, root, v)
        /\ E2(m, root, u) = E2(m, root, v) /\ E1(m, root, u) = E1(m, root, v)
  BY <1>3, SameBlock DEF E1
<1> QED
  BY <1>1, <1>2, <1>3, <1>4

\* What Hole tells.
LEMMA HoleTells ==
  ASSUME NEW v
  PROVE  /\ pml4e(v) = E4(mem, g_pml4_p, v) /\ pdpte(v) = E3(mem, g_pml4_p, v)
         /\ pde(v) = E2(mem, g_pml4_p, v) /\ pte(v) = E1(mem, g_pml4_p, v)
         /\ Hole(v) = 0 <=> HugePage(mem, g_pml4_p, v) \/ SmallPage(mem, g_pml4_p, v)
         /\ Hole(v) \in {0, PAGE_SIZE} <=> Upper(mem, g_pml4_p, v)
         /\ Hole(v) \in {0, PAGE_SIZE, HUGE_SIZE, PDPT_SPAN, PML4_SPAN}
<1>1. /\ pml4e(v) = E4(mem, g_pml4_p, v) /\ pdpte(v) = E3(mem, g_pml4_p, v)
      /\ pde(v) = E2(mem, g_pml4_p, v) /\ pte(v) = E1(mem, g_pml4_p, v)
  BY DEF pml4e, pdpte, pde, pte, E4, E3, E2, E1
<1>2. /\ PAGE_SIZE # 0 /\ HUGE_SIZE # 0 /\ PDPT_SPAN # 0 /\ PML4_SPAN # 0
      /\ PAGE_SIZE # HUGE_SIZE /\ PAGE_SIZE # PDPT_SPAN /\ PAGE_SIZE # PML4_SPAN
  BY Geometry, SpansGrow
<1> DEFINE four == Present(pml4e(v))
           three == Present(pdpte(v))
           two == Present(pde(v))
           ps == "PS" \in pde(v).flags
           one == Present(pte(v))
<1>3. Hole(v) = IF ~four THEN PML4_SPAN ELSE IF ~three THEN PDPT_SPAN
                ELSE IF ~two THEN HUGE_SIZE ELSE IF ~ps /\ ~one THEN PAGE_SIZE ELSE 0
  BY DEF Hole
<1>4. /\ Upper(mem, g_pml4_p, v) <=> four /\ three /\ two
      /\ HugePage(mem, g_pml4_p, v) <=> four /\ three /\ two /\ ps
      /\ SmallPage(mem, g_pml4_p, v) <=> four /\ three /\ two /\ ~ps /\ one
  BY <1>1 DEF Upper, HugePage, SmallPage
<1> HIDE DEF four, three, two, ps, one
<1>5. Hole(v) = 0 <=> HugePage(mem, g_pml4_p, v) \/ SmallPage(mem, g_pml4_p, v)
  BY <1>2, <1>3, <1>4
<1>6. Hole(v) \in {0, PAGE_SIZE} <=> Upper(mem, g_pml4_p, v)
  BY <1>2, <1>3, <1>4
<1>7. Hole(v) \in {0, PAGE_SIZE, HUGE_SIZE, PDPT_SPAN, PML4_SPAN}
  BY <1>3
<1> QED
  BY <1>1, <1>5, <1>6, <1>7

\* Nothing is mapped in the block of an absent entry.
LEMMA HoleIsEmpty ==
  ASSUME NEW v \in Address, NEW u \in Address, Hole(v) # 0, u \div Hole(v) = v \div Hole(v)
  PROVE  Lookup(u) = NoPage
<1> DEFINE m == mem
           g == g_pml4_p
<1>1. ~HugePage(m, g, u) /\ ~SmallPage(m, g, u)
  <2>1. CASE ~Present(E4(m, g, v))
    <3>1. Hole(v) = PML4_SPAN
      BY <2>1, HoleTells DEF Hole
    <3>2. E4(m, g, u) = E4(m, g, v)
      BY <3>1, SameEntries
    <3> QED BY <2>1, <3>2 DEF HugePage, SmallPage, Upper
  <2>2. CASE Present(E4(m, g, v)) /\ ~Present(E3(m, g, v))
    <3>1. Hole(v) = PDPT_SPAN
      BY <2>2, HoleTells DEF Hole
    <3>2. E3(m, g, u) = E3(m, g, v)
      BY <3>1, SameEntries
    <3> QED BY <2>2, <3>2 DEF HugePage, SmallPage, Upper
  <2>3. CASE Present(E4(m, g, v)) /\ Present(E3(m, g, v)) /\ ~Present(E2(m, g, v))
    <3>1. Hole(v) = HUGE_SIZE
      BY <2>3, HoleTells DEF Hole
    <3>2. E2(m, g, u) = E2(m, g, v)
      BY <3>1, SameEntries
    <3> QED BY <2>3, <3>2 DEF HugePage, SmallPage, Upper
  <2>4. CASE Upper(m, g, v)
    <3>1. Hole(v) = PAGE_SIZE
      BY <2>4, HoleTells
    <3>2. E2(m, g, u) = E2(m, g, v) /\ E1(m, g, u) = E1(m, g, v)
      BY <3>1, SameEntries
    <3>3. "PS" \notin E2(m, g, v).flags /\ ~Present(E1(m, g, v))
      BY <2>4, HoleTells DEF HugePage, SmallPage
    <3> QED BY <3>2, <3>3 DEF HugePage, SmallPage
  <2> QED BY <2>1, <2>2, <2>3, <2>4 DEF Upper
<1> QED
  BY <1>1, Translation DEF Lookup

\* A huge page is removed, and nothing else.
LEMMA ClearHuge ==
  ASSUME NEW lev, TreeOf(mem, g_pml4_p, lev), NEW v \in Address, HugePage(mem, g_pml4_p, v)
  PROVE  LET w == [mem EXCEPT ![pdpte(v).to][PD_IDX(v)] = NoEntry] IN
         /\ TreeOf(w, g_pml4_p, lev) /\ DOMAIN w = DOMAIN mem
         /\ \A u \in Address : u \div HUGE_SIZE # v \div HUGE_SIZE =>
              Translate(w, g_pml4_p, u) = Lookup(u)
         /\ \A u \in Address : u \div HUGE_SIZE = v \div HUGE_SIZE =>
              Translate(w, g_pml4_p, u) = NoPage
<1> DEFINE m == mem
           g == g_pml4_p
           t == E3(m, g, v).to
           i == PD_IDX(v)
           w == [mem EXCEPT ![t][i] = NoEntry]
<1>1. m \in Memories /\ pdpte(v) = E3(m, g, v)
  BY HoleTells DEF TreeOf
<1>2. t \in DOMAIN m /\ lev[t] = 2 /\ Leads(m, g, v, 2, t)
  BY Descent DEF HugePage, Upper
<1>3. i \in Idx /\ t # g /\ NoEntry \in PageTableEntries /\ NoEntry.flags = {}
  <2>1. lev[g] = 4
    BY Descent
  <2> QED BY <1>2, <2>1, Indexes DEF NoEntry, Entry, PageTableEntries
<1> HIDE DEF t, i
<1>4. TreeOf(w, g, lev)
  BY <1>2, <1>3, WriteKeepsTree
<1>5. /\ w \in Memories /\ DOMAIN w = DOMAIN m
      /\ \A u \in DOMAIN m, j \in Idx : w[u][j] = IF u = t /\ j = i THEN NoEntry ELSE m[u][j]
      /\ \A u \in DOMAIN m : u # t => w[u] = m[u]
  BY <1>1, <1>2, <1>3, Written
<1>6. ASSUME NEW u \in Address, u \div HUGE_SIZE # v \div HUGE_SIZE
      PROVE  Translate(w, g, u) = Lookup(u)
  <2>1. ~(Leads(m, g, u, 2, t) /\ PD_IDX(u) = i)
    <3>1. SUFFICES ASSUME Leads(m, g, u, 2, t), PD_IDX(u) = i PROVE FALSE
      OBVIOUS
    <3>2. PML4_IDX(u) = PML4_IDX(v) /\ PDPT_IDX(u) = PDPT_IDX(v)
      BY <1>2, <3>1, OneWay
    <3>3. u \div HUGE_SIZE = v \div HUGE_SIZE
      BY <3>1, <3>2, SameIndexes DEF i
    <3> QED BY <1>6, <3>3
  <2>2. Translate(w, g, u) = Translate(m, g, u)
    BY <1>2, <1>3, <2>1, DirectoryFrame
  <2> QED BY <2>2 DEF Lookup
<1> HIDE DEF w
<1>7. ASSUME NEW u \in Address, u \div HUGE_SIZE = v \div HUGE_SIZE
      PROVE  Translate(w, g, u) = NoPage
  <2>1. /\ E4(m, g, u) = E4(m, g, v) /\ E3(m, g, u) = E3(m, g, v) /\ PD_IDX(u) = i
    BY <1>7, SameEntries, SameBlock DEF i
  <2>2. Present(E4(m, g, v)) /\ Present(E3(m, g, v))
    BY DEF HugePage, Upper
  <2>3. /\ g \in DOMAIN m /\ lev[g] = 4
        /\ E4(m, g, u).to \in DOMAIN m /\ lev[E4(m, g, u).to] = 3
    BY <2>1, <2>2, Descent
  <2>4. E4(w, g, u) = E4(m, g, u)
    BY <1>2, <1>3, <1>5, <2>3 DEF E4
  <2>5. E3(w, g, u) = E3(m, g, u)
    <3>1. E4(m, g, u).to # t
      BY <1>2, <2>3
    <3> QED BY <1>5, <2>3, <2>4, <3>1 DEF E3
  <2>6. E2(w, g, u) = NoEntry
    BY <1>2, <1>3, <1>5, <2>1, <2>5 DEF E2, t
  <2>7. ~Upper(w, g, u)
    BY <1>3, <2>6 DEF Upper, Present
  <2> QED BY <2>7, Translation DEF HugePage, SmallPage
<1> QED
  BY <1>1, <1>4, <1>5, <1>6, <1>7 DEF w, t, i

\* A page is removed, and nothing else.
LEMMA ClearPage ==
  ASSUME NEW lev, TreeOf(mem, g_pml4_p, lev), NEW v \in Address, SmallPage(mem, g_pml4_p, v)
  PROVE  LET w == [mem EXCEPT ![pde(v).to][PT_IDX(v)] = NoEntry] IN
         /\ TreeOf(w, g_pml4_p, lev) /\ DOMAIN w = DOMAIN mem
         /\ \A u \in Address : u \div PAGE_SIZE # v \div PAGE_SIZE =>
              Translate(w, g_pml4_p, u) = Lookup(u)
         /\ \A u \in Address : u \div PAGE_SIZE = v \div PAGE_SIZE =>
              Translate(w, g_pml4_p, u) = NoPage
<1> DEFINE m == mem
           g == g_pml4_p
           t == E2(m, g, v).to
           i == PT_IDX(v)
           w == [mem EXCEPT ![t][i] = NoEntry]
<1>1. m \in Memories /\ pde(v) = E2(m, g, v)
  BY HoleTells DEF TreeOf
<1>2. t \in DOMAIN m /\ lev[t] = 1 /\ Leads(m, g, v, 1, t)
  BY Descent DEF SmallPage
<1>3. i \in Idx /\ t # g /\ NoEntry \in PageTableEntries /\ NoEntry.flags = {}
  <2>1. lev[g] = 4
    BY Descent
  <2> QED BY <1>2, <2>1, Indexes DEF NoEntry, Entry, PageTableEntries
<1> HIDE DEF t, i
<1>4. TreeOf(w, g, lev)
  BY <1>2, <1>3, WriteKeepsTree
<1>5. /\ w \in Memories /\ DOMAIN w = DOMAIN m
      /\ \A u \in DOMAIN m, j \in Idx : w[u][j] = IF u = t /\ j = i THEN NoEntry ELSE m[u][j]
      /\ \A u \in DOMAIN m : u # t => w[u] = m[u]
  BY <1>1, <1>2, <1>3, Written
<1>6. ASSUME NEW u \in Address, u \div PAGE_SIZE # v \div PAGE_SIZE
      PROVE  Translate(w, g, u) = Lookup(u)
  <2>1. ~(Leads(m, g, u, 1, t) /\ PT_IDX(u) = i)
    <3>1. SUFFICES ASSUME Leads(m, g, u, 1, t), PT_IDX(u) = i PROVE FALSE
      OBVIOUS
    <3>2. PML4_IDX(u) = PML4_IDX(v) /\ PDPT_IDX(u) = PDPT_IDX(v) /\ PD_IDX(u) = PD_IDX(v)
      BY <1>2, <3>1, OneWay
    <3>3. u \div PAGE_SIZE = v \div PAGE_SIZE
      BY <3>1, <3>2, SameIndexes DEF i
    <3> QED BY <1>6, <3>3
  <2>2. Translate(w, g, u) = Translate(m, g, u)
    BY <1>2, <1>3, <2>1, LeafFrame
  <2> QED BY <2>2 DEF Lookup
<1> HIDE DEF w
<1>7. ASSUME NEW u \in Address, u \div PAGE_SIZE = v \div PAGE_SIZE
      PROVE  Translate(w, g, u) = NoPage
  <2>1. /\ E4(m, g, u) = E4(m, g, v) /\ E3(m, g, u) = E3(m, g, v)
        /\ E2(m, g, u) = E2(m, g, v) /\ PT_IDX(u) = i
    BY <1>7, SameEntries, SameBlock DEF i
  <2>2. /\ Present(E4(m, g, v)) /\ Present(E3(m, g, v)) /\ Upper(m, g, v)
        /\ "PS" \notin E2(m, g, v).flags
    BY DEF SmallPage, Upper
  <2>3. /\ g \in DOMAIN m /\ lev[g] = 4
        /\ E4(m, g, u).to \in DOMAIN m /\ lev[E4(m, g, u).to] = 3
        /\ E3(m, g, u).to \in DOMAIN m /\ lev[E3(m, g, u).to] = 2
    BY <2>1, <2>2, Descent
  <2>4. E4(w, g, u) = E4(m, g, u)
    BY <1>2, <1>3, <1>5, <2>3 DEF E4
  <2>5. E3(w, g, u) = E3(m, g, u)
    <3>1. E4(m, g, u).to # t
      BY <1>2, <2>3
    <3> QED BY <1>5, <2>3, <2>4, <3>1 DEF E3
  <2>6. E2(w, g, u) = E2(m, g, u)
    <3>1. E3(m, g, u).to # t
      BY <1>2, <2>3
    <3> QED BY <1>5, <2>3, <2>5, <3>1 DEF E2
  <2>7. E1(w, g, u) = NoEntry
    BY <1>2, <1>3, <1>5, <2>1, <2>6 DEF E1, t
  <2>8. ~HugePage(w, g, u) /\ ~SmallPage(w, g, u)
    BY <1>3, <2>1, <2>2, <2>6, <2>7 DEF HugePage, SmallPage, Present
  <2> QED BY <2>8, Translation
<1> QED
  BY <1>1, <1>4, <1>5, <1>6, <1>7 DEF w, t, i

------------------------------------------------------------------------------
(* Invariants.                                                             *)

\* The address an address is mapped to, to be written, while the kernel boots.
Straight(p) == IF p >= HIGHER_HALF_OFFSET THEN p - HIGHER_HALF_OFFSET ELSE p
StraightCall(c) ==
  c.op = "map_range" /\ c.size > 0 => c.phys = Straight(c.virt) /\ "RW" \in c.flags

\* The calls of init, and what is left to read, fit the address space.
RangeCalls ==
  {c \in [op : {"none", "map_range"}, virt : Nat, phys : Nat, size : Nat, end : Nat,
          flags : SUBSET PageFlags, opts : SUBSET {"MAP_HUGE"}] :
     Fits(c) /\ StraightCall(c) /\ (c.op = "none" => c = Idle)}
Items ==
  {x \in [kind : {"range", "descriptor", "higher_half"}, n : Nat, range : RangeCalls] :
     x.kind # "range" => x.n \in DOMAIN info.memoryMap}

FitInv ==
  /\ info \in Infos /\ todo \in Seq(Items)
  /\ Fits(call) /\ Fits(last.call)

\* There are tables from the root on as soon as there is a root.
TreeInv ==
  /\ FreeInv
  /\ phase \in {"init", "ready"} => g_pml4_p # nullptr
  /\ g_pml4_p # nullptr => Tree

\* get_phys is the last call until another begins, and nothing changes the tables
\* in the meantime.
GetInv ==
  /\ phase \in {"off", "init"} => last.call.op = "none"
  /\ phase = "ready" /\ last.call.op = "get_phys" => call = Idle
  /\ GetPhysAgrees

\* What the loop of unmap_range has passed is not mapped, and unless the range began
\* inside a huge page it never stands inside one.
UnmapInv ==
  LET c == last.call IN
  phase = "ready" /\ c.op = "unmap_range" /\ ~last.inside =>
    IF call = Idle
    THEN \A p \in Pages : p >= c.virt /\ p < c.end => Lookup(p) = NoPage
    ELSE /\ call.op = "unmap_range" /\ call.end = c.end /\ call.virt >= c.virt
         /\ \A p \in Pages : p >= c.virt /\ p < c.end /\ p < call.virt => Lookup(p) = NoPage
         /\ call.virt < call.end => ~Inside(call.virt)

\* A cached translation is that of one entry.
TlbInv ==
  /\ phase = "off" => tlb = {}
  /\ \A t \in tlb : /\ t.size \in {PAGE_SIZE, HUGE_SIZE}
                    /\ t.base \div t.size \in Nat
                    /\ t.base = t.size * (t.base \div t.size)

------------------------------------------------------------------------------
(* The calls.                                                              *)

LEMMA Multiple ==
  ASSUME NEW b \in Nat \ {0}, NEW x \in Int
  PROVE  (b * x) % b = 0 /\ (b * x) \div b = x
<1> DEFINE a == b * x
<1>1. a \in Int /\ b * x <= a /\ a < b * x + b /\ a = b * x
  OBVIOUS
<1> HIDE DEF a
<1>2. a \div b = x
  BY <1>1, QuotientIs
<1>3. /\ a \div b \in Int /\ a % b \in 0..(b - 1)
      /\ a = b * (a \div b) + (a % b)
      /\ b * (a \div b) <= a /\ a < b * (a \div b) + b
      /\ a >= 0 => a \div b >= 0
  BY <1>1, Quotient
<1>4. a % b = 0
  <2>1. b * (a \div b) = a
    BY <1>1, <1>2
  <2> QED BY <1>1, <1>3, <2>1
<1> QED
  BY <1>2, <1>4 DEF a

LEMMA Small ==
  ASSUME NEW a \in Nat, NEW b \in Nat \ {0}, a < b
  PROVE  a % b = a /\ a \div b = 0
<1>1. a \in Int /\ 0 \in Int /\ b * 0 <= a /\ a < b * 0 + b
  OBVIOUS
<1>2. a \div b = 0
  BY <1>1, QuotientIs
<1>3. /\ a \div b \in Int /\ a % b \in 0..(b - 1)
      /\ a = b * (a \div b) + (a % b)
      /\ b * (a \div b) <= a /\ a < b * (a \div b) + b
      /\ a >= 0 => a \div b >= 0
  BY <1>1, Quotient
<1> QED
  BY <1>2, <1>3

\* What one entry covers is a whole number of pages, and but for a page a whole number
\* of huge pages.
Spans == {PAGE_SIZE, HUGE_SIZE, PDPT_SPAN, PML4_SPAN}

LEMMA WholePages ==
  ASSUME NEW n \in Spans
  PROVE  /\ n \in Nat \ {0} /\ n <= PML4_SPAN
         /\ \E k \in Nat \ {0} : n = PAGE_SIZE * k
         /\ n # PAGE_SIZE => \E k \in Nat \ {0} : n = HUGE_SIZE * k
<1>1. /\ PAGE_SIZE \in Nat \ {0} /\ HUGE_SIZE \in Nat \ {0} /\ PDPT_SPAN \in Nat \ {0}
      /\ PML4_SPAN \in Nat \ {0} /\ ENTRIES \in Nat \ {0}
  BY Geometry
<1>2. n \in Nat \ {0} /\ n <= PML4_SPAN
  BY <1>1, SpansGrow DEF Spans
<1>3. 1 \in Nat \ {0} /\ PAGE_SIZE = PAGE_SIZE * 1 /\ HUGE_SIZE = HUGE_SIZE * 1
  BY <1>1
<1>4. ENTRIES * ENTRIES \in Nat \ {0}
  BY <1>1, Product
<1>5. HUGE_SIZE = PAGE_SIZE * ENTRIES /\ PDPT_SPAN = HUGE_SIZE * ENTRIES
  BY DEF HUGE_SIZE, PDPT_SPAN
<1>6. PML4_SPAN = HUGE_SIZE * (ENTRIES * ENTRIES)
  BY <1>1, <1>5 DEF PML4_SPAN
<1>7. n # PAGE_SIZE => \E k \in Nat \ {0} : n = HUGE_SIZE * k
  BY <1>1, <1>3, <1>4, <1>5, <1>6 DEF Spans
<1>8. ASSUME NEW k \in Nat \ {0} PROVE /\ HUGE_SIZE * k = PAGE_SIZE * (ENTRIES * k)
                                       /\ ENTRIES * k \in Nat \ {0}
  BY <1>1, <1>5, Product
<1>9. \E k \in Nat \ {0} : n = PAGE_SIZE * k
  BY <1>3, <1>7, <1>8
<1> QED
  BY <1>2, <1>7, <1>9

\* No span is the whole address space.
LEMMA SpansAreShort ==
  ASSUME NEW n \in Spans
  PROVE  n \in Nat /\ n < WORD
<1> DEFINE P == PML4_SPAN
<1>1. P \in Nat \ {0} /\ ENTRIES \in Nat /\ ENTRIES >= 4
  BY Geometry, GeometryAssumption
<1>2. n \in Nat /\ n <= P
  BY WholePages
<1>3. WORD = 2 * P * ENTRIES
  BY DEF WORD
<1> HIDE DEF P
<1>4. 2 * P * ENTRIES >= 2 * P * 4
  BY <1>1
<1> QED
  BY <1>1, <1>2, <1>3, <1>4

\* A sum that comes out beyond an address past which it began has not wrapped.
LEMMA Forward ==
  ASSUME NEW v \in Nat, v < WORD, NEW b \in Nat, b <= v, NEW n \in Nat, n < WORD,
         Plus(b, n) > v
  PROVE  b + n < WORD /\ Plus(b, n) = b + n
<1> DEFINE a == b + n
<1>1. WORD \in Nat \ {0} /\ a \in Nat /\ a \in Int /\ a < WORD + WORD /\ a - WORD < b
  BY Geometry
<1> HIDE DEF a
<1>2. /\ a \div WORD \in Int /\ a % WORD \in 0..(WORD - 1)
      /\ a = WORD * (a \div WORD) + (a % WORD)
      /\ WORD * (a \div WORD) <= a /\ a < WORD * (a \div WORD) + WORD
      /\ a >= 0 => a \div WORD >= 0
  BY <1>1, Quotient
<1>3. a % WORD > v
  BY DEF Plus, a
<1>4. a < WORD
  <2>1. SUFFICES ASSUME a >= WORD PROVE FALSE
    BY <1>1
  <2>2. 1 \in Int /\ WORD * 1 <= a /\ a < WORD * 1 + WORD
    BY <1>1, <2>1
  <2>3. a \div WORD = 1
    BY <1>1, <2>2, QuotientIs
  <2>4. WORD * (a \div WORD) = WORD
    BY <1>1, <2>3
  <2> QED BY <1>1, <1>2, <1>3, <2>4
<1>5. a % WORD = a
  BY <1>1, <1>4, Small
<1> QED
  BY <1>4, <1>5 DEF a, Plus

\* The end of the block that holds v.
LEMMA EndOfBlock ==
  ASSUME NEW v \in Nat, v < WORD, NEW n \in Spans, NextBlock(v, n) > v
  PROVE  LET x == NextBlock(v, n) IN
         /\ x \in Nat /\ v < x /\ x <= v + n /\ x < WORD /\ x % PAGE_SIZE = 0
         /\ n # PAGE_SIZE => x % HUGE_SIZE = 0
         /\ \A u \in Nat : v <= u /\ u < x => u \div n = v \div n
<1> DEFINE q == v \div n
           x == NextBlock(v, n)
<1>1. n \in Nat \ {0} /\ n <= PML4_SPAN /\ v \in Int /\ WORD \in Nat \ {0} /\ PML4_SPAN \in Nat
  BY WholePages, Geometry
<1>2. /\ v \div n \in Int /\ v % n \in 0..(n - 1)
      /\ v = n * (v \div n) + (v % n)
      /\ n * (v \div n) <= v /\ v < n * (v \div n) + n
      /\ v >= 0 => v \div n >= 0
  BY <1>1, Quotient
<1>3. q \in Nat /\ AlignDown(v, n) = n * q /\ n * q \in Nat /\ n * q <= v /\ v < n * q + n
  <2>1. q \in Nat /\ AlignDown(v, n) = n * q
    BY <1>1, AlignedDown
  <2>2. n * q <= v /\ v < n * q + n
    BY <1>2
  <2> HIDE DEF q
  <2>3. n * q \in Nat
    BY <1>1, <2>1
  <2> QED BY <2>1, <2>2, <2>3
<1> HIDE DEF q
<1>4. n * q + n \in Nat /\ n * q + n < WORD /\ x = n * q + n
  <2> DEFINE b == n * q
  <2>1. b \in Nat /\ b <= v /\ n \in Nat /\ n < WORD
    BY <1>1, <1>3, SpansAreShort
  <2>2. x = Plus(b, n) /\ Plus(b, n) > v
    BY <1>3 DEF NextBlock
  <2> HIDE DEF b, x
  <2>3. b + n < WORD /\ Plus(b, n) = b + n
    BY <2>1, <2>2, Forward
  <2>4. b + n \in Nat
    BY <2>1
  <2> QED BY <2>2, <2>3, <2>4 DEF b
<1>5. x = n * q + n
  BY <1>4
<1> HIDE DEF x
<1>6. x = n * (q + 1) /\ q + 1 \in Nat
  BY <1>1, <1>3, <1>5
<1>7. x % PAGE_SIZE = 0
  <2>1. PICK k \in Nat \ {0} : n = PAGE_SIZE * k
    BY WholePages
  <2>2. x = PAGE_SIZE * (k * (q + 1)) /\ k * (q + 1) \in Int
    BY <1>6, <2>1, Geometry
  <2> QED BY <2>2, Multiple, Geometry
<1>8. n # PAGE_SIZE => x % HUGE_SIZE = 0
  <2>1. SUFFICES ASSUME n # PAGE_SIZE PROVE x % HUGE_SIZE = 0
    OBVIOUS
  <2>2. PICK k \in Nat \ {0} : n = HUGE_SIZE * k
    BY <2>1, WholePages
  <2>3. x = HUGE_SIZE * (k * (q + 1)) /\ k * (q + 1) \in Int
    BY <1>6, <2>2, Geometry
  <2> QED BY <2>3, Multiple, Geometry
<1>9. ASSUME NEW u \in Nat, v <= u, u < x PROVE u \div n = q
  <2>1. u \in Int /\ q \in Int /\ n * q <= u /\ u < n * q + n
    BY <1>1, <1>3, <1>5, <1>9
  <2> QED BY <1>1, <2>1, QuotientIs
<1>10. x \in Nat /\ v < x /\ x <= v + n /\ x < WORD
  BY <1>1, <1>3, <1>4, <1>5
<1> QED
  BY <1>7, <1>8, <1>9, <1>10 DEF x, q

\* The next page, unless it begins a huge page, lies in the same huge page.
LEMMA SameHugePage ==
  ASSUME NEW v \in Nat, NEW x \in Nat, v < x, x <= v + PAGE_SIZE,
         x % PAGE_SIZE = 0, x % HUGE_SIZE # 0
  PROVE  x \div HUGE_SIZE = v \div HUGE_SIZE
<1> DEFINE q == x \div HUGE_SIZE
           a == x \div PAGE_SIZE
           H == HUGE_SIZE
           P == PAGE_SIZE
<1>1. H \in Nat \ {0} /\ P \in Nat \ {0} /\ ENTRIES \in Nat \ {0} /\ x \in Int /\ v \in Int
  BY Geometry
<1>2. /\ x \div H \in Int /\ x % H \in 0..(H - 1)
      /\ x = H * (x \div H) + (x % H)
      /\ H * (x \div H) <= x /\ x < H * (x \div H) + H
      /\ x >= 0 => x \div H >= 0
  BY <1>1, Quotient
<1>3. /\ x \div P \in Int /\ x % P \in 0..(P - 1)
      /\ x = P * (x \div P) + (x % P)
      /\ P * (x \div P) <= x /\ x < P * (x \div P) + P
      /\ x >= 0 => x \div P >= 0
  BY <1>1, Quotient
<1>4. q \in Int /\ a \in Int /\ H * q < x /\ x < H * q + H /\ H * q \in Int
  BY <1>1, <1>2, <1>3
<1>5. x = P * a + 0
  BY <1>3
<1>6. H * q = P * (ENTRIES * q) /\ ENTRIES * q \in Int
  <2>1. q \in Int
    BY <1>4
  <2> HIDE DEF q
  <2> QED BY <1>1, <2>1 DEF HUGE_SIZE
<1> HIDE DEF q, a, H, P
<1>7. ENTRIES * q < a
  <2>1. P * (ENTRIES * q) < P * a
    BY <1>1, <1>4, <1>5, <1>6
  <2> QED BY <1>1, <1>4, <1>6, <2>1, Order
<1>8. P * (ENTRIES * q + 1) <= P * a
  <2>1. ENTRIES * q + 1 <= a /\ ENTRIES * q + 1 \in Int
    BY <1>4, <1>6, <1>7
  <2> QED BY <1>1, <1>4, <2>1
<1>9. P * (ENTRIES * q + 1) = H * q + P
  BY <1>1, <1>6
<1>10. H * q <= v /\ v < H * q + H
  <2>1. x <= v + P
    BY DEF P
  <2>2. P * a \in Int
    BY <1>1, <1>4
  <2> QED BY <1>1, <1>4, <1>5, <1>8, <1>9, <2>1, <2>2
<1>11. v \div H = q
  BY <1>1, <1>4, <1>10, QuotientIs
<1> QED
  BY <1>11 DEF q, H

\* Calls go on within the addresses the kernel uses.
LEMMA IdleFits == Fits(Idle)
<1>1. Idle = Call(Idle.op, Idle.virt, Idle.phys, Idle.size, Idle.end, Idle.flags, Idle.opts)
  BY DEF Idle, Call
<1>2. /\ Idle.virt = 0 /\ Idle.phys = 0 /\ Idle.size = 0 /\ Idle.end = 0 /\ Idle.flags = {}
      /\ Idle.op = "none"
  BY DEF Idle, Call
<1>3. Usable(0)
  <2>1. PML4_IDX(0) = 0
    BY Geometry, Small DEF PML4_IDX
  <2>2. PML4_SPAN * (ENTRIES \div 2) > 0
    <3>1. ENTRIES \div 2 \in Nat \ {0}
      BY GeometryAssumption
    <3> QED BY <3>1, Geometry, Product
  <2> QED BY <2>1, <2>2, Geometry DEF Usable, Canonical
<1> QED
  BY <1>1, <1>2, <1>3, Geometry DEF Fits

LEMMA AdvanceFits ==
  ASSUME Fits(call), call.op = "map_range", NEW n \in {PAGE_SIZE, HUGE_SIZE}, call.size >= n
  PROVE  /\ Fits(Advance(n)) /\ Advance(n).op = "map_range"
         /\ Advance(n).virt = IF call.virt + n = WORD THEN 0 ELSE call.virt + n
         /\ Advance(n).phys = Plus(call.phys, n) /\ Advance(n).size = call.size - n
         /\ Advance(n).flags = call.flags
<1> DEFINE c == call
           d == Advance(n)
<1>1. n \in Nat \ {0} /\ WORD \in Nat \ {0}
  BY Geometry
<1>2. c.virt \in Nat /\ c.size \in Nat /\ c.phys \in Nat /\ c.virt < WORD /\ c.size < WORD
  BY <1>1 DEF Fits
<1>3. /\ c.virt + c.size <= WORD /\ \A a \in c.virt..(c.virt + c.size - 1) : Usable(a)
      /\ c.flags \subseteq PageFlags /\ c.end \in Nat
  BY DEF Fits
<1>4. c = [op |-> c.op, virt |-> c.virt, phys |-> c.phys, size |-> c.size, end |-> c.end,
           flags |-> c.flags, opts |-> c.opts]
  BY DEF Fits, Call
<1>5. d = [op |-> c.op, virt |-> Plus(c.virt, n), phys |-> Plus(c.phys, n),
           size |-> Minus(c.size, n), end |-> c.end, flags |-> c.flags, opts |-> c.opts]
  <2> DEFINE v == Plus(c.virt, n)
             p == Plus(c.phys, n)
             z == Minus(c.size, n)
             c1 == [c EXCEPT !.virt = v]
             c2 == [c1 EXCEPT !.phys = p]
  <2>1. c1 = [op |-> c.op, virt |-> v, phys |-> c.phys, size |-> c.size, end |-> c.end,
              flags |-> c.flags, opts |-> c.opts]
    BY <1>4
  <2> HIDE DEF c1
  <2>2. c2 = [op |-> c.op, virt |-> v, phys |-> p, size |-> c.size, end |-> c.end,
              flags |-> c.flags, opts |-> c.opts]
    BY <2>1
  <2> HIDE DEF c2
  <2>3. [c2 EXCEPT !.size = z] =
          [op |-> c.op, virt |-> v, phys |-> p, size |-> z, end |-> c.end,
           flags |-> c.flags, opts |-> c.opts]
    BY <2>2
  <2>4. c1.phys = c.phys /\ c2.size = c.size
    BY <2>1, <2>2
  <2>5. d = [[[c EXCEPT !.virt = Plus(@, n)] EXCEPT !.phys = Plus(@, n)]
               EXCEPT !.size = Minus(@, n)]
    BY DEF Advance
  <2> QED BY <2>3, <2>4, <2>5 DEF c1, c2
<1> HIDE DEF d
<1>6. /\ d.op = "map_range" /\ d.virt = Plus(c.virt, n) /\ d.phys = Plus(c.phys, n)
      /\ d.size = Minus(c.size, n) /\ d.end = c.end /\ d.flags = c.flags
      /\ d = Call(d.op, d.virt, d.phys, d.size, d.end, d.flags, d.opts)
  BY <1>5 DEF Call
<1>7. d.phys \in 0..(WORD - 1)
  <2>1. c.phys + n \in Int
    BY <1>1, <1>2
  <2> QED BY <1>1, <1>6, <2>1, Quotient DEF Plus
<1>8. d.size = c.size - n
  BY <1>1, <1>2, <1>6, Small DEF Minus
<1>9. d.virt = IF c.virt + n = WORD THEN 0 ELSE c.virt + n
  <2>1. CASE c.virt + n = WORD
    <3>1. WORD % WORD = 0
      <4>1. WORD * 1 = WORD
        BY <1>1
      <4> QED BY <1>1, <4>1, Multiple
    <3> QED BY <1>6, <2>1, <3>1 DEF Plus
  <2>2. CASE c.virt + n # WORD
    <3>1. c.virt + n < WORD /\ c.virt + n \in Nat
      BY <1>1, <1>2, <1>3, <2>2
    <3> QED BY <1>1, <1>6, <2>2, <3>1, Small DEF Plus
  <2> QED BY <2>1, <2>2
<1>10. /\ d.virt \in 0..(WORD - 1) /\ d.size \in 0..(WORD - 1) /\ d.virt + d.size <= WORD
  BY <1>1, <1>2, <1>3, <1>8, <1>9
<1>11. \A a \in d.virt..(d.virt + d.size - 1) : Usable(a)
  BY <1>1, <1>2, <1>3, <1>8, <1>9
<1>12. Fits(d)
  BY <1>3, <1>6, <1>7, <1>10, <1>11 DEF Fits
<1> QED
  BY <1>6, <1>8, <1>9, <1>12 DEF d

LEMMA MoveFits ==
  ASSUME Fits(call), call.op = "unmap_range", call.virt < call.end,
         NEW x \in Nat, call.virt < x, x < WORD, x % PAGE_SIZE = 0
  PROVE  LET d == [call EXCEPT !.virt = x] IN
         Fits(d) /\ d.op = "unmap_range" /\ d.virt = x /\ d.end = call.end
<1> DEFINE c == call
           d == [call EXCEPT !.virt = x]
<1>1. c = [op |-> c.op, virt |-> c.virt, phys |-> c.phys, size |-> c.size, end |-> c.end,
           flags |-> c.flags, opts |-> c.opts]
  BY DEF Fits, Call
<1>2. d = [op |-> c.op, virt |-> x, phys |-> c.phys, size |-> c.size, end |-> c.end,
           flags |-> c.flags, opts |-> c.opts]
  BY <1>1
<1> HIDE DEF d
<1>3. /\ d.op = "unmap_range" /\ d.virt = x /\ d.phys = c.phys /\ d.size = c.size
      /\ d.end = c.end /\ d.flags = c.flags
      /\ d = Call(d.op, d.virt, d.phys, d.size, d.end, d.flags, d.opts)
  BY <1>2 DEF Call
<1>4. /\ c.phys \in Nat /\ c.size \in 0..(WORD - 1) /\ c.end \in Nat
      /\ c.flags \subseteq PageFlags /\ c.end % PAGE_SIZE = 0 /\ c.end < WORD
      /\ c.virt \in 0..(WORD - 1)
      /\ \A a \in c.virt..(c.end - 1) : Usable(a)
  BY DEF Fits
<1>5. x \in 0..(WORD - 1)
  BY Geometry
<1>6. \A a \in x..(d.end - 1) : Usable(a)
  BY <1>3, <1>4
<1>7. Fits(d)
  BY <1>3, <1>4, <1>5, <1>6 DEF Fits
<1> QED
  BY <1>3, <1>7 DEF d

\* The address unmap_range stands at.
LEMMA Standing ==
  ASSUME Fits(call), call.op = "unmap_range", call.virt < call.end
  PROVE  /\ call.virt \in Address /\ call.virt \in Nat /\ call.virt % PAGE_SIZE = 0
         /\ call.virt < WORD /\ call.virt + PAGE_SIZE < WORD
         /\ \A p \in 0..(WORD - 1) : p >= call.virt /\ p < call.end => p \in Address
<1>1. /\ call.virt \in 0..(WORD - 1) /\ call.end \in Nat /\ call.virt % PAGE_SIZE = 0
      /\ call.end % PAGE_SIZE = 0 /\ call.end < WORD
      /\ \A a \in call.virt..(call.end - 1) : Usable(a)
  BY DEF Fits
<1>2. WORD \in Nat /\ PAGE_SIZE \in Nat \ {0}
  BY Geometry
<1>3. \A p \in 0..(WORD - 1) : p >= call.virt /\ p < call.end => p \in Address
  BY <1>1, <1>2 DEF Address
<1>4. call.virt + PAGE_SIZE <= call.end
  <2> DEFINE P == PAGE_SIZE
             a == call.virt
             b == call.end
             j == a \div P
             k == b \div P
  <2>1. a \in Nat /\ b \in Nat /\ P \in Nat \ {0} /\ a < b /\ a % P = 0 /\ b % P = 0
    BY <1>1, <1>2
  <2> HIDE DEF P, a, b
  <2>2. j \in Int /\ a = P * j
    BY <2>1, Quotient
  <2>3. k \in Int /\ b = P * k
    BY <2>1, Quotient
  <2> HIDE DEF j, k
  <2>4. j < k
    BY <2>1, <2>2, <2>3, Order
  <2>5. P * (j + 1) <= P * k
    BY <2>1, <2>2, <2>3, <2>4
  <2>6. P * (j + 1) = P * j + P
    BY <2>1, <2>2
  <2> QED BY <2>1, <2>2, <2>3, <2>5, <2>6 DEF P, a, b
<1> QED
  BY <1>1, <1>2, <1>3, <1>4

------------------------------------------------------------------------------
(* The calls fit.                                                          *)

\* The higher half begins at three quarters of the address space.
LEMMA HigherHalfAt ==
  LET L == PML4_SPAN * (ENTRIES \div 2) IN
  L \in Nat /\ L >= PML4_SPAN /\ WORD = 4 * L /\ HIGHER_HALF_OFFSET = 3 * L
<1> DEFINE h == ENTRIES \div 2
           P == PML4_SPAN
<1>1. h \in Nat /\ h >= 1 /\ ENTRIES = 2 * h /\ P \in Nat \ {0}
  BY GeometryAssumption, Geometry
<1>2. WORD = 2 * P * ENTRIES /\ HIGHER_HALF_OFFSET = WORD - P * h
  BY DEF WORD, HIGHER_HALF_OFFSET
<1> HIDE DEF h, P
<1> DEFINE L == P * h
<1>3. WORD = 4 * L /\ L \in Nat
  BY <1>1, <1>2
<1>4. L >= P
  BY <1>1
<1> HIDE DEF L
<1>5. HIGHER_HALF_OFFSET = 3 * L
  BY <1>2, <1>3 DEF L
<1> QED
  BY <1>3, <1>4, <1>5 DEF L, h, P

\* The two places of low memory.
LEMMA LowStraight ==
  ASSUME NEW a, LowAddress(a)
  PROVE  Straight(a) = a /\ Straight(HH(a)) = a
<1> DEFINE L == PML4_SPAN * (ENTRIES \div 2)
<1>1. L \in Nat /\ WORD = 4 * L /\ HIGHER_HALF_OFFSET = 3 * L /\ WORD \in Nat \ {0}
  BY HigherHalfAt, Geometry
<1>2. a \in Nat /\ a < L
  BY DEF LowAddress
<1> HIDE DEF L
<1>3. HH(a) = HIGHER_HALF_OFFSET + a
  <2>1. HIGHER_HALF_OFFSET + a \in Nat /\ HIGHER_HALF_OFFSET + a < WORD
    BY <1>1, <1>2
  <2> QED BY <1>1, <2>1, Small DEF HH, Plus
<1> QED
  BY <1>1, <1>2, <1>3 DEF Straight

LEMMA RangeTyped ==
  ASSUME NEW v, NEW p, NEW s, NEW f, NEW o, Fits(map_range(v, p, s, f, o)),
         o \subseteq {"MAP_HUGE"}, p = Straight(v), "RW" \in f
  PROVE  map_range(v, p, s, f, o) \in RangeCalls
<1> DEFINE c == map_range(v, p, s, f, o)
           z == Minus(RoundUp(Plus(v, s)), v)
<1>1. c = [op |-> "map_range", virt |-> v, phys |-> p, size |-> z, end |-> 0, flags |-> f,
           opts |-> o]
  BY DEF map_range, Call
<1> HIDE DEF c, z
<1>2. /\ c.op = "map_range" /\ c.virt = v /\ c.phys = p /\ c.size = z /\ c.end = 0
      /\ c.flags = f /\ c.opts = o
  BY <1>1
<1>3. Fits(c)
  BY DEF c
<1>4. v \in Nat /\ p \in Nat /\ z \in Nat /\ 0 \in Nat /\ f \in SUBSET PageFlags
  BY <1>2, <1>3, Geometry DEF Fits
<1>5. c \in [op : {"none", "map_range"}, virt : Nat, phys : Nat, size : Nat, end : Nat,
             flags : SUBSET PageFlags, opts : SUBSET {"MAP_HUGE"}]
  BY <1>1, <1>4
<1>6. StraightCall(c)
  BY <1>2 DEF StraightCall
<1> QED
  BY <1>2, <1>3, <1>5, <1>6 DEF RangeCalls, c

LEMMA IdleTyped == Idle \in RangeCalls
<1>1. Idle \in [op : {"none", "map_range"}, virt : Nat, phys : Nat, size : Nat, end : Nat,
                flags : SUBSET PageFlags, opts : SUBSET {"MAP_HUGE"}]
  BY DEF Idle, Call
<1>2. StraightCall(Idle)
  BY DEF StraightCall, Idle, Call
<1> QED BY <1>1, <1>2, IdleFits DEF RangeCalls

LEMMA IdentityTyped ==
  ASSUME NEW d, DescriptorFits(d)
  PROVE  /\ Identity(d, d.physicalStart) \in RangeCalls
         /\ Identity(d, HH(d.physicalStart)) \in RangeCalls
<1>1. ASSUME NEW b, Fits(Identity(d, b)), d.physicalStart = Straight(b)
      PROVE  Identity(d, b) \in RangeCalls
  BY <1>1, RangeTyped DEF Identity
<1> QED
  BY <1>1, LowStraight DEF DescriptorFits

LEMMA ItemTyped ==
  ASSUME NEW kind \in {"range", "descriptor", "higher_half"}, NEW n \in Nat,
         NEW r \in RangeCalls, kind # "range" => n \in DOMAIN info.memoryMap
  PROVE  Item(kind, n, r) \in Items
<1> DEFINE x == Item(kind, n, r)
<1>1. x = [kind |-> kind, n |-> n, range |-> r]
  BY DEF Item
<1> HIDE DEF x
<1>2. x \in [kind : {"range", "descriptor", "higher_half"}, n : Nat, range : RangeCalls]
  BY <1>1
<1>3. x.kind = kind /\ x.n = n
  BY <1>1
<1> QED
  BY <1>2, <1>3 DEF Items, x

DescriptorItems == [k \in DOMAIN info.memoryMap |-> Item("descriptor", k, Idle)]

\* What init has to do comes in three parts.
LEMMA ProgramParts ==
  ASSUME info \in Infos
  PROVE  /\ Program(info) =
              Ranges(MmioRanges) \o DescriptorItems \o Ranges(ImageRanges(info))
         /\ Ranges(MmioRanges) \in Seq(Items) /\ DescriptorItems \in Seq(Items)
         /\ Ranges(ImageRanges(info)) \in Seq(Items)
         /\ Ranges(MmioRanges) \o DescriptorItems \in Seq(Items)
         /\ Program(info) \in Seq(Items)
<1> DEFINE dm == DescriptorItems
           mm == Ranges(MmioRanges)
           im == Ranges(ImageRanges(info))
<1>1. Idle \in RangeCalls
  BY IdleTyped
<1>2. /\ Len(info.memoryMap) \in Nat /\ DOMAIN info.memoryMap = 1..Len(info.memoryMap)
      /\ "RW" \in MMIO
      /\ \A k \in 1..4 : Fits(MmioRanges[k])
      /\ \A k \in 1..3 : Fits(ImageRanges(info)[k])
      /\ \A a \in {LAPIC_BASE, IOAPIC_BASE, PCI_MMIO_BASE, info.frameBufferBase,
                   info.kernelBase} : a = Straight(a) /\ a = Straight(HH(a))
  BY AddressAssumption, LowStraight DEF MMIO
<1>3. dm \in Seq(Items)
  <2>1. \A k \in DOMAIN info.memoryMap : Item("descriptor", k, Idle) \in Items
    BY <1>1, <1>2, ItemTyped
  <2>2. dm \in [1..Len(info.memoryMap) -> Items]
    BY <1>2, <2>1 DEF DescriptorItems
  <2> QED BY <1>2, <2>2, SeqDef
<1>4. mm \in Seq(Items)
  <2>1. DOMAIN MmioRanges = 1..4
    BY DEF MmioRanges
  <2>2. \A k \in 1..4 : MmioRanges[k] \in RangeCalls
    <3>1. MmioRanges[1] \in RangeCalls
      BY <1>2, RangeTyped DEF MmioRanges
    <3>2. MmioRanges[2] \in RangeCalls
      BY <1>2, RangeTyped DEF MmioRanges
    <3>3. MmioRanges[3] \in RangeCalls
      BY <1>2, RangeTyped DEF MmioRanges
    <3>4. MmioRanges[4] \in RangeCalls
      BY <1>2, RangeTyped DEF MmioRanges
    <3>5. \A k \in 1..4 : k = 1 \/ k = 2 \/ k = 3 \/ k = 4
      OBVIOUS
    <3> QED BY <3>1, <3>2, <3>3, <3>4, <3>5
  <2>3. \A k \in 1..4 : Item("range", 0, MmioRanges[k]) \in Items
    BY <2>2, ItemTyped
  <2>4. mm \in [1..4 -> Items]
    BY <2>1, <2>3 DEF Ranges
  <2>5. 4 \in Nat
    OBVIOUS
  <2> QED BY <2>4, <2>5, SeqDef
<1>5. im \in Seq(Items)
  <2> DEFINE r == ImageRanges(info)
  <2>1. DOMAIN r = 1..3
    BY DEF ImageRanges
  <2>2. \A k \in 1..3 : r[k] \in RangeCalls
    <3>1. r[1] \in RangeCalls
      BY <1>2, RangeTyped DEF ImageRanges, FrameBuffer
    <3>2. r[2] \in RangeCalls
      BY <1>2, RangeTyped DEF ImageRanges
    <3>3. r[3] \in RangeCalls
      BY <1>2, RangeTyped DEF ImageRanges, FrameBuffer
    <3>4. \A k \in 1..3 : k = 1 \/ k = 2 \/ k = 3
      OBVIOUS
    <3> QED BY <3>1, <3>2, <3>3, <3>4
  <2>3. \A k \in 1..3 : Item("range", 0, r[k]) \in Items
    BY <2>2, ItemTyped
  <2>4. im \in [1..3 -> Items]
    BY <2>1, <2>3 DEF Ranges
  <2>5. 3 \in Nat
    OBVIOUS
  <2> QED BY <2>4, <2>5, SeqDef
<1> HIDE DEF dm, mm, im
<1>6. mm \o dm \in Seq(Items)
  BY <1>3, <1>4, ConcatProperties
<1>7. (mm \o dm) \o im \in Seq(Items)
  BY <1>5, <1>6, ConcatProperties
<1>8. Program(info) = mm \o dm \o im
  BY DEF Program, DescriptorItems, mm, dm, im
<1> QED
  BY <1>3, <1>4, <1>5, <1>6, <1>7, <1>8 DEF dm, mm, im

\* Each descriptor is among it, and no higher half yet.
LEMMA ProgramItems ==
  ASSUME info \in Infos
  PROVE  /\ \A x \in Range(Program(info)) : x.kind # "higher_half"
         /\ \A k \in DOMAIN info.memoryMap : Item("descriptor", k, Idle) \in Range(Program(info))
<1> DEFINE mm == Ranges(MmioRanges)
           dm == DescriptorItems
           im == Ranges(ImageRanges(info))
<1>1. /\ Program(info) = mm \o dm \o im
      /\ mm \in Seq(Items) /\ dm \in Seq(Items) /\ im \in Seq(Items) /\ mm \o dm \in Seq(Items)
  BY ProgramParts
<1>2. \A x \in Range(mm) \cup Range(im) : x.kind = "range"
  BY DEF Range, Ranges, Item
<1>3. /\ \A x \in Range(dm) : x.kind = "descriptor"
      /\ \A k \in DOMAIN info.memoryMap : Item("descriptor", k, Idle) \in Range(dm)
  <2>1. DOMAIN dm = DOMAIN info.memoryMap
        /\ \A k \in DOMAIN info.memoryMap : dm[k] = Item("descriptor", k, Idle)
    BY DEF DescriptorItems
  <2> HIDE DEF dm
  <2>2. ASSUME NEW x \in Range(dm) PROVE x.kind = "descriptor"
    <3>1. PICK k \in DOMAIN dm : x = dm[k]
      BY DEF Range
    <3>2. x = [kind |-> "descriptor", n |-> k, range |-> Idle]
      BY <2>1, <3>1 DEF Item
    <3> QED BY <3>2
  <2>3. ASSUME NEW k \in DOMAIN info.memoryMap PROVE Item("descriptor", k, Idle) \in Range(dm)
    <3>1. dm[k] \in Range(dm)
      BY <2>1 DEF Range
    <3> QED BY <2>1, <3>1
  <2> QED BY <2>2, <2>3
<1> HIDE DEF mm, dm, im
<1>4. Range(Program(info)) = Range(mm) \cup Range(dm) \cup Range(im)
  <2>1. Range(mm \o dm) = Range(mm) \cup Range(dm)
    BY <1>1, RangeConcatenation
  <2>2. Range((mm \o dm) \o im) = Range(mm \o dm) \cup Range(im)
    BY <1>1, RangeConcatenation, ZenonT(60)
  <2> QED BY <1>1, <2>1, <2>2
<1> QED
  BY <1>2, <1>3, <1>4

LEMMA InitFits == Init => FitInv
<1> SUFFICES ASSUME Init PROVE FitInv
  OBVIOUS
<1>1. todo \in Seq(Items)
  BY EmptySeq DEF Init
<1>2. last.call = Idle
  BY DEF Init
<1> QED
  BY <1>1, <1>2, IdleFits DEF Init, FitInv

\* Reading a descriptor.
LEMMA Read ==
  ASSUME FitInv, todo # <<>>, Head(todo).kind # "range", NEW d \in Descriptors(Head(todo).n)
  PROVE  /\ DescriptorFits(d)
         /\ Head(todo).n \in Nat /\ Head(todo).n \in DOMAIN info.memoryMap
         /\ Tail(todo) \in Seq(Items)
<1>1. Head(todo) \in Items /\ Tail(todo) \in Seq(Items)
  BY HeadTailProperties DEF FitInv
<1>2. Head(todo).n \in Nat /\ Head(todo).n \in DOMAIN info.memoryMap
  BY <1>1 DEF Items
<1>3. DescriptorFits(d)
  <2>1. info \in Infos
    BY DEF FitInv
  <2> QED BY <1>2, <2>1, AddressAssumption DEF Descriptors, MemoryFits
<1> QED
  BY <1>1, <1>2, <1>3

LEMMA FitStep == FitInv /\ [Next]_vars => FitInv'
<1> SUFFICES ASSUME FitInv, [Next]_vars PROVE FitInv'
  OBVIOUS
<1>1. /\ info \in Infos /\ todo \in Seq(Items) /\ Fits(call) /\ Fits(last.call)
  BY DEF FitInv
<1>2. ASSUME info' = info PROVE Items' = Items
  BY <1>2 DEF Items
<1>3. ASSUME UNCHANGED <<info, todo, last>>, Fits(call)' PROVE FitInv'
  BY <1>1, <1>2, <1>3 DEF FitInv
<1>4. ASSUME UNCHANGED <<info, todo, call, last>> PROVE FitInv'
  <2>1. Fits(call)'
    BY <1>1, <1>4 DEF Fits
  <2> QED BY <1>3, <1>4, <2>1
<1>5. ASSUME NEW x, call' = x, Fits(x) PROVE Fits(call)'
  <2>1. Fits(call')
    BY <1>5
  <2> QED BY <2>1 DEF Fits
<1>6. ASSUME NEW c \in Calls, UNCHANGED <<info, todo>>, call' \in {c, call}, last'.call = c
      PROVE  FitInv'
  <2>1. Fits(c)
    BY AddressAssumption
  <2>2. Fits(call)' /\ Fits(last.call)'
    <3>1. Fits(call') /\ Fits(last'.call)
      BY <1>1, <1>6, <2>1
    <3> QED BY <3>1 DEF Fits
  <2> QED BY <1>1, <1>2, <1>6, <2>2 DEF FitInv
<1>7. CASE UNCHANGED vars
  BY <1>4, <1>7 DEF vars
<1>8. CASE init_root
  <2>1. UNCHANGED <<info, call, last>> /\ todo' = Program(info)
    BY <1>8 DEF init_root, history
  <2>2. todo' \in Seq(Items)'
    BY <1>1, <1>2, <2>1, ProgramParts
  <2>3. Fits(call)' /\ Fits(last.call)'
    BY <1>1, <2>1 DEF Fits
  <2> QED BY <1>1, <2>1, <2>2, <2>3 DEF FitInv
<1>9. CASE init_fails
  BY <1>4, <1>9 DEF init_fails, machine, history
<1>10. CASE init_range
  <2>1. /\ UNCHANGED <<info, last>> /\ call' = Head(todo).range /\ todo' = Tail(todo)
        /\ todo # <<>>
    BY <1>10 DEF init_range, machine, history
  <2>2. Head(todo) \in Items /\ Tail(todo) \in Seq(Items)
    BY <1>1, <2>1, HeadTailProperties
  <2>3. Fits(Head(todo).range)
    BY <2>2 DEF Items, RangeCalls
  <2>4. Fits(call)' /\ Fits(last.call)'
    <3>1. Fits(call)'
      BY <1>5, <2>1, <2>3
    <3> QED BY <1>1, <2>1, <3>1 DEF Fits
  <2>5. todo' \in Seq(Items)'
    BY <1>2, <2>1, <2>2
  <2> QED BY <1>1, <2>1, <2>4, <2>5 DEF FitInv
<1>11. CASE init_descriptor
  <2>1. PICK d \in Descriptors(Head(todo).n) :
          /\ call' = Identity(d, d.physicalStart)
          /\ todo' = HigherHalf(d) \o Tail(todo)
    BY <1>11 DEF init_descriptor, reads
  <2>2. todo # <<>> /\ Head(todo).kind = "descriptor" /\ UNCHANGED <<info, last>>
    BY <1>11 DEF init_descriptor, reads, machine, history
  <2>3. /\ DescriptorFits(d)
        /\ Head(todo).n \in Nat /\ Head(todo).n \in DOMAIN info.memoryMap
        /\ Tail(todo) \in Seq(Items)
    BY <2>2, Read
  <2>4. HigherHalf(d) \in Seq(Items)
    <3> DEFINE x == Item("higher_half", Head(todo).n, Identity(d, HH(d.physicalStart)))
    <3>1. x \in Items
      BY <2>3, IdentityTyped, ItemTyped
    <3>2. HigherHalf(d) = <<x>>
      BY DEF HigherHalf
    <3> HIDE DEF x
    <3>3. <<x>> \in [1..1 -> Items] /\ 1 \in Nat
      BY <3>1
    <3> QED BY <3>2, <3>3, SeqDef
  <2>5. todo' \in Seq(Items)
    BY <2>1, <2>3, <2>4, ConcatProperties
  <2>6. Fits(call)'
    BY <1>5, <2>1, <2>3 DEF DescriptorFits
  <2>7. Fits(last.call)'
    BY <1>1, <2>2 DEF Fits
  <2> QED BY <1>1, <1>2, <2>2, <2>5, <2>6, <2>7 DEF FitInv
<1>12. CASE init_higher_half
  <2>1. PICK d \in Descriptors(Head(todo).n) :
          /\ call' = IF is_mappable(d.type) THEN Head(todo).range ELSE Idle
          /\ todo' = <<>> \o Tail(todo)
    BY <1>12 DEF init_higher_half, reads
  <2>2. todo # <<>> /\ Head(todo).kind = "higher_half" /\ UNCHANGED <<info, last>>
    BY <1>12 DEF init_higher_half, reads, machine, history
  <2>3. Tail(todo) \in Seq(Items) /\ Head(todo) \in Items
    BY <1>1, <2>2, HeadTailProperties
  <2>4. todo' \in Seq(Items)
    BY <2>1, <2>3, ConcatEmptySeq
  <2>5. Fits(Head(todo).range)
    BY <2>3 DEF Items, RangeCalls
  <2>6. Fits(call)'
    BY <1>5, <2>1, <2>5, IdleFits
  <2>7. Fits(last.call)'
    BY <1>1, <2>2 DEF Fits
  <2> QED BY <1>1, <1>2, <2>2, <2>4, <2>6, <2>7 DEF FitInv
<1>13. CASE init_switch
  BY <1>4, <1>13 DEF init_switch, history
<1>14. CASE map_range_huge
  <2>1. UNCHANGED <<info, todo, last>> /\ call.op = "map_range" /\ call.size >= HUGE_SIZE
    BY <1>14 DEF map_range_huge, Running, Huge, machine
  <2>2. call' = Idle \/ call' = Advance(HUGE_SIZE)
    BY <1>14 DEF map_range_huge
  <2>3. Fits(call)'
    BY <1>1, <1>5, <2>1, <2>2, IdleFits, AdvanceFits
  <2> QED BY <1>3, <2>1, <2>3
<1>15. CASE map_range_page
  <2>1. /\ UNCHANGED <<info, todo, last>> /\ call.op = "map_range" /\ call.size >= PAGE_SIZE
        /\ call' = Advance(PAGE_SIZE)
    BY <1>15 DEF map_range_page, Running, machine
  <2>2. Fits(call)'
    BY <1>1, <1>5, <2>1, AdvanceFits
  <2> QED BY <1>3, <2>1, <2>2
<1>16. CASE map_range_runs_away
  BY <1>4, <1>16 DEF map_range_runs_away, machine, history
<1>17. CASE range_done
  <2>1. UNCHANGED <<info, todo, last>> /\ call' = Idle
    BY <1>17 DEF range_done, machine, history
  <2> QED BY <1>3, <1>5, <2>1, IdleFits
<1>18. ASSUME NEW x \in Nat, call.op = "unmap_range", call.virt < call.end,
              call.virt < x, x < WORD, x % PAGE_SIZE = 0, call' = [call EXCEPT !.virt = x],
              UNCHANGED <<info, todo, last>>
       PROVE  FitInv'
  <2>1. Fits(call)'
    BY <1>1, <1>5, <1>18, MoveFits
  <2> QED BY <1>3, <1>18, <2>1
<1>19. CASE unmap_range_skip
  <2>1. /\ call.op = "unmap_range" /\ call.virt < call.end /\ Hole(call.virt) # 0
        /\ call' = [call EXCEPT !.virt = NextBlock(call.virt, Hole(call.virt))]
        /\ NextBlock(call.virt, Hole(call.virt)) > call.virt
        /\ UNCHANGED <<info, todo, last>>
    BY <1>19 DEF unmap_range_skip, skips_to, Unmapping, Running, machine, history
  <2>2. Hole(call.virt) \in Spans
    BY <2>1, HoleTells DEF Spans
  <2>3. call.virt \in Nat /\ call.virt < WORD
    BY <1>1, <2>1, Standing
  <2> QED BY <1>18, <2>1, <2>2, <2>3, EndOfBlock
<1>20. ASSUME NEW n \in {PAGE_SIZE, HUGE_SIZE}, call.op = "unmap_range",
              call.virt < call.end, call' = [call EXCEPT !.virt = Plus(call.virt, n)],
              call.virt + n < WORD, UNCHANGED <<info, todo, last>>
       PROVE  FitInv'
  <2>1. call.virt \in Nat /\ call.virt % PAGE_SIZE = 0
    BY <1>1, <1>20, Standing
  <2>2. n \in Spans /\ n \in Nat \ {0} /\ n <= PML4_SPAN
    BY WholePages DEF Spans
  <2>3. call.virt + n \in Nat /\ call.virt + n < WORD /\ call.virt < call.virt + n
    BY <1>20, <2>1, <2>2, Geometry
  <2>4. Plus(call.virt, n) = call.virt + n
    BY <2>3, Small, Geometry DEF Plus
  <2>5. (call.virt + n) % PAGE_SIZE = 0
    <3>1. PICK k \in Nat \ {0} : n = PAGE_SIZE * k
      BY <2>2, WholePages
    <3> DEFINE j == call.virt \div PAGE_SIZE
    <3>2. call.virt \in Int /\ PAGE_SIZE \in Nat \ {0}
      BY <2>1, Geometry
    <3>3. /\ call.virt \div PAGE_SIZE \in Int /\ call.virt % PAGE_SIZE \in 0..(PAGE_SIZE - 1)
          /\ call.virt = PAGE_SIZE * (call.virt \div PAGE_SIZE) + (call.virt % PAGE_SIZE)
          /\ PAGE_SIZE * (call.virt \div PAGE_SIZE) <= call.virt
          /\ call.virt < PAGE_SIZE * (call.virt \div PAGE_SIZE) + PAGE_SIZE
          /\ call.virt >= 0 => call.virt \div PAGE_SIZE >= 0
      BY <3>2, Quotient
    <3>4. j \in Int /\ call.virt = PAGE_SIZE * j
      <4>1. PAGE_SIZE * j \in Int
        BY <3>2, <3>3
      <4> QED BY <2>1, <3>3, <4>1
    <3> HIDE DEF j
    <3>5. call.virt + n = PAGE_SIZE * (j + k) /\ j + k \in Int
      BY <3>1, <3>2, <3>4
    <3> QED BY <3>2, <3>5, Multiple
  <2> QED BY <1>18, <1>20, <2>3, <2>4, <2>5
<1>21. CASE unmap_range_huge
  <2>1. /\ call.op = "unmap_range" /\ call.virt < call.end
        /\ call' = [call EXCEPT !.virt = Plus(call.virt, HUGE_SIZE)]
        /\ Plus(call.virt, HUGE_SIZE) > call.virt
        /\ UNCHANGED <<info, todo, last>>
    BY <1>21 DEF unmap_range_huge, Unmapping, Running, machine, history
  <2>2. call.virt \in Nat /\ call.virt < WORD
    BY <1>1, <2>1, Standing
  <2>3. HUGE_SIZE \in Nat /\ HUGE_SIZE < WORD
    BY SpansAreShort DEF Spans
  <2>4. call.virt + HUGE_SIZE < WORD
    BY <2>1, <2>2, <2>3, Forward
  <2> QED BY <1>20, <2>1, <2>4
<1>22. CASE unmap_range_page
  <2>1. /\ call.op = "unmap_range" /\ call.virt < call.end
        /\ call' = [call EXCEPT !.virt = Plus(call.virt, PAGE_SIZE)]
        /\ UNCHANGED <<info, todo, last>>
    BY <1>22 DEF unmap_range_page, removes_page, Unmapping, Running, machine, history
  <2>2. call.virt + PAGE_SIZE < WORD
    BY <1>1, <2>1, Standing
  <2> QED BY <1>20, <2>1, <2>2
<1>23. CASE unmap_range_fault \/ unmap_range_wraps
  BY <1>4, <1>23 DEF unmap_range_fault, unmap_range_wraps, machine, history
<1>24. CASE \E c \in Calls : api(c)
  <2>1. PICK c \in Calls : api(c)
    BY <1>24
  <2>2. UNCHANGED <<info, todo>> /\ call' \in {c, call} /\ last'.call = c
    BY <2>1 DEF api, call_range, call_map_page, call_unmap_page, call_get_phys, call_faults,
               Record, machine
  <2> QED BY <1>6, <2>2
<1>25. CASE tlb_fill
  BY <1>4, <1>25 DEF tlb_fill, machine, history
<1>26. CASE Stopped
  BY <1>4, <1>26 DEF Stopped, vars
<1> QED
  BY <1>7, <1>8, <1>9, <1>10, <1>11, <1>12, <1>13, <1>14, <1>15, <1>16, <1>17, <1>19, <1>21,
     <1>22, <1>23, <1>24, <1>25, <1>26 DEF Next, init, range_step

------------------------------------------------------------------------------
(* What a step does to the tables.                                         *)

\* Nothing.
Quiet ==
  /\ UNCHANGED <<free, mem, g_pml4_p, replaced>>
  /\ tlb' \subseteq tlb \/ tlb_fill
  /\ phase' \in {"off", "init", "ready"} =>
       phase' = phase \/ (phase = "init" /\ phase' = "ready")

\* It maps n bytes at v.
Mapping(v, n) ==
  /\ UNCHANGED <<g_pml4_p, tlb>> /\ phase \in {"init", "ready"}
  /\ \E s : Maps(s, v, n) /\ Effect(s, v, n)

\* It removes the huge page or the page of v.
Clearing(v, n) ==
  /\ UNCHANGED <<free, g_pml4_p, replaced, phase>> /\ phase \in {"init", "ready"}
  /\ tlb' = invlpg(v)
  /\ \/ /\ n = HUGE_SIZE /\ HugePage(mem, g_pml4_p, v)
        /\ mem' = [mem EXCEPT ![pdpte(v).to][PD_IDX(v)] = NoEntry]
     \/ /\ n = PAGE_SIZE /\ SmallPage(mem, g_pml4_p, v)
        /\ mem' = [mem EXCEPT ![pde(v).to][PT_IDX(v)] = NoEntry]

\* map_range is at an address it uses.
LEMMA MappingAt ==
  ASSUME Fits(call), call.op = "map_range", call.size > 0
  PROVE  call.virt \in Address /\ call.phys \in Nat /\ call.flags \in SUBSET PageFlags
<1>1. /\ call.virt \in 0..(WORD - 1) /\ call.phys \in Nat /\ call.size \in 0..(WORD - 1)
      /\ call.flags \subseteq PageFlags
      /\ \A a \in call.virt..(call.virt + call.size - 1) : Usable(a)
  BY DEF Fits
<1>2. call.virt \in call.virt..(call.virt + call.size - 1)
  BY <1>1, Geometry
<1> QED
  BY <1>1, <1>2 DEF Address

\* A call for one page is at an address the kernel uses.
LEMMA CallAt ==
  ASSUME NEW c \in Calls, c.op \notin {"map_range", "unmap_range"}
  PROVE  c.virt \in Address /\ c.phys \in Nat /\ c.flags \in SUBSET PageFlags
<1>1. Fits(c)
  BY AddressAssumption
<1> QED
  BY <1>1 DEF Fits, Address

\* unmap_page clears the entry of a page.
LEMMA UnmapPageClears ==
  ASSUME Tree, NEW v \in Address, unmap_page_clears(v), "PS" \notin pde(v).flags,
         phase = "ready", UNCHANGED <<free, g_pml4_p, replaced>>
  PROVE  Clearing(v, PAGE_SIZE)
<1>1. /\ mem' = [mem EXCEPT ![pde(v).to][PT_IDX(v)] = NoEntry] /\ tlb' = invlpg(v)
      /\ phase' = phase /\ PageTable(v) # {}
      /\ TRUE \in MayBePresent(pde(v).to, PT_IDX(v))
  BY DEF unmap_page_clears
<1>2. Upper(mem, g_pml4_p, v) /\ pde(v) = E2(mem, g_pml4_p, v)
      /\ pte(v) = E1(mem, g_pml4_p, v)
  <2>1. Hole(v) \in {0, PAGE_SIZE}
    BY <1>1 DEF PageTable
  <2> QED BY <2>1, HoleTells
<1>3. pde(v).to \in DOMAIN mem
  <2>1. PICK lev : TreeOf(mem, g_pml4_p, lev)
    BY DEF Tree
  <2> QED BY <1>2, <2>1, Descent
<1>4. Present(mem[pde(v).to][PT_IDX(v)])
  BY <1>1, <1>3 DEF MayBePresent
<1>5. SmallPage(mem, g_pml4_p, v)
  BY <1>2, <1>4 DEF SmallPage, E1
<1> QED
  BY <1>1, <1>5 DEF Clearing

LEMMA EveryStep ==
  ASSUME FitInv, TreeInv, [Next]_vars
  PROVE  init_root \/ Quiet \/ \E v \in Address, n \in {PAGE_SIZE, HUGE_SIZE} :
                                  Mapping(v, n) \/ Clearing(v, n)
<1> DEFINE Goal == init_root \/ Quiet \/ \E v \in Address, n \in {PAGE_SIZE, HUGE_SIZE} :
                                  Mapping(v, n) \/ Clearing(v, n)
<1>1. Fits(call)
  BY DEF FitInv
<1>2. phase \in {"init", "ready"} => Tree /\ FreeInv
  BY DEF TreeInv
<1>3. PAGE_SIZE \in {PAGE_SIZE, HUGE_SIZE} /\ HUGE_SIZE \in {PAGE_SIZE, HUGE_SIZE}
  OBVIOUS
<1>4. ASSUME UNCHANGED <<free, mem, g_pml4_p, replaced, tlb, phase>> PROVE Goal
  BY <1>4 DEF Quiet
<1>5. ASSUME UNCHANGED <<free, mem, g_pml4_p, replaced, tlb>>,
             phase' \in {"failed", "faulted", "misdirected", "runaway"}
      PROVE  Goal
  BY <1>5 DEF Quiet
<1>6. CASE UNCHANGED vars
  BY <1>4, <1>6 DEF vars
<1>7. CASE init_fails
  BY <1>5, <1>7 DEF init_fails, machine, history
<1>8. CASE init_range
  BY <1>4, <1>8 DEF init_range, machine, history
<1>9. CASE init_descriptor
  BY <1>4, <1>9 DEF init_descriptor, reads, machine, history
<1>10. CASE init_higher_half
  BY <1>4, <1>10 DEF init_higher_half, reads, machine, history
<1>11. CASE init_switch
  <2>1. UNCHANGED <<free, mem, g_pml4_p, replaced>> /\ tlb' = {}
    BY <1>11 DEF init_switch, history
  <2>2. phase = "init" /\ phase' \in {"ready", "faulted"}
    BY <1>11 DEF init_switch
  <2> QED BY <2>1, <2>2 DEF Quiet
<1>12. CASE map_range_huge
  <2>1. /\ phase \in {"init", "ready"} /\ call.op = "map_range" /\ call.size >= HUGE_SIZE
        /\ UNCHANGED <<g_pml4_p, tlb>>
    BY <1>12 DEF map_range_huge, Running, Huge, machine
  <2>2. call.size > 0
    BY <1>1, <2>1, Geometry DEF Fits
  <2>3. call.virt \in Address /\ call.phys \in Nat /\ call.flags \in SUBSET PageFlags
    BY <1>1, <2>1, <2>2, MappingAt
  <2>4. PICK s \in map_huge(call.virt, call.phys, call.flags) : Effect(s, call.virt, HUGE_SIZE)
    BY <1>12 DEF map_range_huge
  <2>5. Maps(s, call.virt, HUGE_SIZE)
    BY <1>2, <2>1, <2>3, MapHugeMaps
  <2>6. Mapping(call.virt, HUGE_SIZE)
    BY <2>1, <2>4, <2>5 DEF Mapping
  <2> QED BY <1>3, <2>3, <2>6
<1>13. CASE map_range_page
  <2>1. /\ phase \in {"init", "ready"} /\ call.op = "map_range" /\ call.size >= PAGE_SIZE
        /\ UNCHANGED <<g_pml4_p, tlb>>
    BY <1>13 DEF map_range_page, Running, machine
  <2>2. call.size > 0
    BY <1>1, <2>1, Geometry DEF Fits
  <2>3. call.virt \in Address /\ call.phys \in Nat /\ call.flags \in SUBSET PageFlags
    BY <1>1, <2>1, <2>2, MappingAt
  <2>4. PICK s \in map_page(call.virt, call.phys, call.flags) : Effect(s, call.virt, PAGE_SIZE)
    BY <1>13 DEF map_range_page
  <2>5. Maps(s, call.virt, PAGE_SIZE)
    BY <1>2, <2>1, <2>3, MapPageMaps
  <2>6. Mapping(call.virt, PAGE_SIZE)
    BY <2>1, <2>4, <2>5 DEF Mapping
  <2> QED BY <1>3, <2>3, <2>6
<1>14. CASE map_range_runs_away
  BY <1>5, <1>14 DEF map_range_runs_away, machine, history
<1>15. CASE range_done
  BY <1>4, <1>15 DEF range_done, machine, history
<1>16. CASE unmap_range_skip
  BY <1>4, <1>16 DEF unmap_range_skip, skips_to, machine, history
<1>17. CASE unmap_range_huge
  <2> DEFINE v == call.virt
  <2>1. /\ phase \in {"init", "ready"} /\ call.op = "unmap_range" /\ call.virt < call.end
        /\ Hole(v) = 0 /\ "PS" \in pde(v).flags
        /\ mem' = [mem EXCEPT ![pdpte(v).to][PD_IDX(v)] = NoEntry] /\ tlb' = invlpg(v)
        /\ UNCHANGED <<free, g_pml4_p, replaced, phase>>
    BY <1>17 DEF unmap_range_huge, Unmapping, Running, machine, history
  <2>2. v \in Address
    BY <1>1, <2>1, Standing
  <2>3. HugePage(mem, g_pml4_p, v)
    BY <2>1, HoleTells DEF SmallPage
  <2>4. Clearing(v, HUGE_SIZE)
    BY <2>1, <2>3 DEF Clearing
  <2> QED BY <1>3, <2>2, <2>4
<1>18. CASE unmap_range_page
  <2> DEFINE v == call.virt
  <2>1. /\ phase \in {"init", "ready"} /\ call.op = "unmap_range" /\ call.virt < call.end
        /\ Hole(v) = 0 /\ "PS" \notin pde(v).flags
        /\ mem' = [mem EXCEPT ![pde(v).to][PT_IDX(v)] = NoEntry] /\ tlb' = invlpg(v)
        /\ UNCHANGED <<free, g_pml4_p, replaced, phase>>
    BY <1>18 DEF unmap_range_page, removes_page, Unmapping, Running, machine, history
  <2>2. v \in Address
    BY <1>1, <2>1, Standing
  <2>3. SmallPage(mem, g_pml4_p, v)
    BY <2>1, HoleTells DEF HugePage
  <2>4. Clearing(v, PAGE_SIZE)
    BY <2>1, <2>3 DEF Clearing
  <2> QED BY <1>3, <2>2, <2>4
<1>19. CASE unmap_range_fault \/ unmap_range_wraps
  BY <1>5, <1>19 DEF unmap_range_fault, unmap_range_wraps, Missing, machine, history
<1>20. ASSUME NEW c \in Calls, call_range(c) PROVE Goal
  BY <1>4, <1>20 DEF call_range, machine
<1>21. ASSUME NEW c \in Calls, call_map_page(c) PROVE Goal
  <2>1. c.op = "map_page" /\ phase = "ready" /\ UNCHANGED <<g_pml4_p, tlb>>
    BY <1>21 DEF call_map_page, Begin, machine
  <2>2. c.virt \in Address /\ c.phys \in Nat /\ c.flags \in SUBSET PageFlags
    BY <2>1, CallAt
  <2>3. PICK s \in map_page(c.virt, c.phys, c.flags) : Effect(s, c.virt, PAGE_SIZE)
    BY <1>21 DEF call_map_page
  <2>4. Maps(s, c.virt, PAGE_SIZE)
    BY <1>2, <2>1, <2>2, MapPageMaps
  <2>5. Mapping(c.virt, PAGE_SIZE)
    BY <2>1, <2>3, <2>4 DEF Mapping
  <2> QED BY <1>3, <2>2, <2>5
<1>22. ASSUME NEW c \in Calls, call_unmap_page(c) PROVE Goal
  <2> DEFINE v == c.virt
  <2>1. c.op = "unmap_page" /\ phase = "ready" /\ UNCHANGED <<free, g_pml4_p, replaced>>
    BY <1>22 DEF call_unmap_page, Begin, machine
  <2>2. v \in Address
    BY <2>1, CallAt
  <2>3. CASE unmap_page_ignores(v)
    BY <1>4, <2>1, <2>3 DEF unmap_page_ignores
  <2>4. CASE unmap_page_clears(v) /\ "PS" \in pde(v).flags
    <3>1. UNCHANGED mem /\ tlb' \subseteq tlb /\ phase' \in {"overwritten", phase}
      BY <2>4 DEF unmap_page_clears, invlpg, Strayed
    <3> QED BY <2>1, <3>1 DEF Quiet
  <2>5. CASE unmap_page_clears(v) /\ "PS" \notin pde(v).flags
    <3>1. Clearing(v, PAGE_SIZE)
      BY <1>2, <2>1, <2>2, <2>5, UnmapPageClears
    <3> QED BY <1>3, <2>2, <3>1
  <2> QED BY <1>22, <2>3, <2>4, <2>5 DEF call_unmap_page
<1>23. ASSUME NEW c \in Calls, call_get_phys(c) PROVE Goal
  BY <1>4, <1>23 DEF call_get_phys, machine
<1>24. ASSUME NEW c \in Calls, call_faults(c) PROVE Goal
  BY <1>5, <1>24 DEF call_faults, Missing, machine
<1>25. CASE \E c \in Calls : api(c)
  BY <1>20, <1>21, <1>22, <1>23, <1>24, <1>25 DEF api
<1>26. CASE tlb_fill
  BY <1>26 DEF Quiet, tlb_fill, machine, history
<1>27. CASE Stopped
  BY <1>4, <1>27 DEF Stopped, vars
<1> QED
  BY <1>6, <1>7, <1>8, <1>9, <1>10, <1>11, <1>12, <1>13, <1>14, <1>15, <1>16, <1>17, <1>18,
     <1>19, <1>25, <1>26, <1>27 DEF Next, init, range_step

------------------------------------------------------------------------------
(* The tables stay a tree.                                                 *)

LEMMA InitTree == Init => TreeInv
<1> SUFFICES ASSUME Init PROVE TreeInv
  OBVIOUS
<1>1. free \in SUBSET (Nat \ {nullptr})
  BY AddressAssumption DEF Init
<1>2. DOMAIN mem = {}
  BY DEF Init
<1>3. g_pml4_p = nullptr /\ phase = "off"
  BY DEF Init
<1> QED
  BY <1>1, <1>2, <1>3 DEF TreeInv, FreeInv

\* The first table, with nothing in it but the entry for itself.
RootMemory(root) ==
  [t \in {root} |-> [EmptyTable EXCEPT ![ENTRIES - 2] = Entry(root, {"P", "RW"})]]

LEMMA RootIsTree ==
  ASSUME NEW root \in Nat \ {nullptr}
  PROVE  \E lev : TreeOf(RootMemory(root), root, lev)
<1> DEFINE m == RootMemory(root)
           lev == [t \in {root} |-> 4]
<1>1. ENTRIES - 2 \in Idx
  BY Geometry
<1>2. DOMAIN m = {root} /\ root \in DOMAIN m
  BY DEF RootMemory
<1>3. Entry(root, {"P", "RW"}) \in PageTableEntries /\ NoEntry \in PageTableEntries
  BY DEF Entry, NoEntry, PageTableEntries, PageFlags
<1>4. m[root] = [EmptyTable EXCEPT ![ENTRIES - 2] = Entry(root, {"P", "RW"})]
  BY DEF RootMemory
<1>5. EmptyTable \in [Idx -> PageTableEntries] /\ \A i \in Idx : EmptyTable[i] = NoEntry
  BY <1>3 DEF EmptyTable
<1>6. /\ m[root] \in PageTableAt
      /\ \A i \in Idx : m[root][i] = IF i = ENTRIES - 2 THEN Entry(root, {"P", "RW"}) ELSE NoEntry
  BY <1>1, <1>3, <1>4, <1>5 DEF PageTableAt
<1>7. m \in Memories
  <2>1. m = [t \in {root} |-> m[t]] /\ \A t \in {root} : m[t] \in PageTableAt
    BY <1>6 DEF RootMemory
  <2>2. m \in [{root} -> PageTableAt]
    BY <2>1
  <2> QED BY <2>2 DEF Memories
<1>8. /\ \A i \in Idx : "PS" \notin m[root][i].flags
      /\ \A i \in Idx : ~Link(m, root, lev, root, i)
  BY <1>6 DEF Entry, NoEntry, Link, Present
<1>9. lev \in [{root} -> 1..4] /\ lev[root] = 4
  OBVIOUS
<1> HIDE DEF m, lev
<1> SUFFICES TreeOf(m, root, lev)
  BY DEF m
<1> QED
  BY <1>1, <1>2, <1>6, <1>7, <1>8, <1>9 DEF TreeOf

LEMMA RootMapsNothing ==
  ASSUME NEW root, NEW u \in Address
  PROVE  Translate(RootMemory(root), root, u) = NoPage
<1>1. PML4_IDX(u) \in Idx \ {ENTRIES - 2}
  BY Indexes
<1>2. RootMemory(root)[root][PML4_IDX(u)] = NoEntry
  BY <1>1, Geometry DEF RootMemory, EmptyTable
<1>3. ~Present(NoEntry)
  BY DEF NoEntry, Entry, Present
<1>4. ~Present(RootMemory(root)[root][PML4_IDX(u)])
  BY <1>2, <1>3
<1> QED
  BY <1>4, Zenon DEF Translate

LEMMA TreeStep ==
  ASSUME FitInv, TreeInv, [Next]_vars
  PROVE  TreeInv'
<1>1. CASE init_root
  <2>1. free \in SUBSET (Nat \ {nullptr})
    BY DEF TreeInv, FreeInv
  <2>2. PICK root \in free :
          /\ g_pml4_p' = root /\ mem' = RootMemory(root) /\ free' = free \ {root}
    BY <1>1 DEF init_root, RootMemory
  <2>3. root \in Nat \ {nullptr} /\ DOMAIN mem' = {root}
    BY <2>1, <2>2 DEF RootMemory
  <2>4. Tree'
    BY <2>2, <2>3, RootIsTree DEF Tree
  <2> QED BY <2>1, <2>2, <2>3, <2>4 DEF TreeInv, FreeInv
<1>2. CASE Quiet
  <2>1. Tree' <=> Tree
    BY <1>2 DEF Quiet, Tree
  <2> QED BY <1>2, <2>1 DEF Quiet, TreeInv, FreeInv
<1>3. ASSUME NEW v \in Address, NEW n \in {PAGE_SIZE, HUGE_SIZE}, Mapping(v, n)
      PROVE  TreeInv'
  <2>1. PICK s : Maps(s, v, n) /\ Effect(s, v, n)
    BY <1>3 DEF Mapping
  <2>2. mem' = s.mem /\ free' = s.free
    BY <2>1 DEF Effect
  <2>3. Tree' /\ FreeInv'
    BY <1>3, <2>1, <2>2 DEF Mapping, Maps, Tree, FreeInv
  <2>4. g_pml4_p' # nullptr
    BY <1>3 DEF Mapping, TreeInv
  <2> QED BY <2>3, <2>4 DEF TreeInv
<1>4. ASSUME NEW v \in Address, NEW n \in {PAGE_SIZE, HUGE_SIZE}, Clearing(v, n)
      PROVE  TreeInv'
  <2>1. g_pml4_p # nullptr /\ g_pml4_p' = g_pml4_p /\ free' = free
    BY <1>4 DEF Clearing, TreeInv
  <2>2. PICK lev : TreeOf(mem, g_pml4_p, lev)
    BY <2>1 DEF TreeInv, Tree
  <2>3. TreeOf(mem', g_pml4_p, lev) /\ DOMAIN mem' = DOMAIN mem
    BY <1>4, <2>2, ClearHuge, ClearPage DEF Clearing
  <2> QED BY <2>1, <2>3 DEF TreeInv, FreeInv, Tree
<1> QED
  BY <1>1, <1>2, <1>3, <1>4, EveryStep

\* The entries of tables above the last level are links.
LEMMA EntriesLink ==
  ASSUME NEW lev, TreeOf(mem, g_pml4_p, lev), NEW tables, NEW n \in {2, 3, 4},
         tables \subseteq DOMAIN mem, \A t \in tables : lev[t] = n
  PROVE  /\ \A e \in Entries(tables) : "PS" \notin mem[e[1]][e[2]].flags =>
              /\ e = <<e[1], e[2]>> /\ e[1] \in tables /\ e[2] \in Idx
              /\ Link(mem, g_pml4_p, lev, e[1], e[2])
         /\ Below(tables) \subseteq DOMAIN mem
         /\ \A t \in Below(tables) : lev[t] = n - 1
<1>1. ASSUME NEW e \in Entries(tables), "PS" \notin mem[e[1]][e[2]].flags
      PROVE  /\ e = <<e[1], e[2]>> /\ e[1] \in tables /\ e[2] \in Idx
             /\ Link(mem, g_pml4_p, lev, e[1], e[2])
  BY <1>1 DEF Entries, Link
<1>2. ASSUME NEW e \in Entries(tables), "PS" \notin mem[e[1]][e[2]].flags
      PROVE  Child(e) \in DOMAIN mem /\ lev[Child(e)] = n - 1
  <2>1. e[1] \in DOMAIN mem /\ e[2] \in Idx /\ Link(mem, g_pml4_p, lev, e[1], e[2])
        /\ lev[e[1]] = n
    BY <1>1, <1>2
  <2> QED BY <2>1 DEF Child, TreeOf
<1> QED
  BY <1>1, <1>2 DEF Below

LEMMA TreeTables == TreeInv => TablesFormTree
<1> SUFFICES ASSUME TreeInv, g_pml4_p # nullptr PROVE TablesFormTree
  BY DEF TablesFormTree
<1> PICK lev : TreeOf(mem, g_pml4_p, lev)
  BY DEF TreeInv, Tree
<1> DEFINE l4 == {g_pml4_p}
           l3 == Below(l4)
           l2 == Below(l3)
           l1 == Below(l2)
           upper == {e \in Entries(l4 \cup l3 \cup l2) : "PS" \notin mem[e[1]][e[2]].flags}
<1>1. l4 \subseteq DOMAIN mem /\ \A t \in l4 : lev[t] = 4
  BY DEF TreeOf
<1>2. l3 \subseteq DOMAIN mem /\ \A t \in l3 : lev[t] = 3
  BY <1>1, EntriesLink
<1>3. l2 \subseteq DOMAIN mem /\ \A t \in l2 : lev[t] = 2
  <2> HIDE DEF l3
  <2> QED BY <1>2, EntriesLink
<1>4. l1 \subseteq DOMAIN mem /\ \A t \in l1 : lev[t] = 1
  <2> HIDE DEF l2
  <2> QED BY <1>3, EntriesLink
<1>5. \A e \in upper : e = <<e[1], e[2]>> /\ e[1] \in DOMAIN mem /\ e[2] \in Idx
                       /\ Link(mem, g_pml4_p, lev, e[1], e[2])
  <2> SUFFICES ASSUME NEW e \in upper
               PROVE  e = <<e[1], e[2]>> /\ e[1] \in DOMAIN mem /\ e[2] \in Idx
                      /\ Link(mem, g_pml4_p, lev, e[1], e[2])
    OBVIOUS
  <2> HIDE DEF l4, l3, l2
  <2>1. e \in Entries(l4) \/ e \in Entries(l3) \/ e \in Entries(l2)
    BY DEF Entries
  <2>2. "PS" \notin mem[e[1]][e[2]].flags
    OBVIOUS
  <2>3. CASE e \in Entries(l4)
    BY <1>1, <2>2, <2>3, EntriesLink
  <2>4. CASE e \in Entries(l3)
    BY <1>2, <2>2, <2>4, EntriesLink
  <2>5. CASE e \in Entries(l2)
    BY <1>3, <2>2, <2>5, EntriesLink
  <2> QED BY <2>1, <2>3, <2>4, <2>5
<1>6. \A e, f \in upper : Child(e) = Child(f) => e = f
  <2> SUFFICES ASSUME NEW e \in upper, NEW f \in upper, Child(e) = Child(f) PROVE e = f
    OBVIOUS
  <2> HIDE DEF upper
  <2>1. /\ e[1] \in DOMAIN mem /\ e[2] \in Idx /\ Link(mem, g_pml4_p, lev, e[1], e[2])
        /\ f[1] \in DOMAIN mem /\ f[2] \in Idx /\ Link(mem, g_pml4_p, lev, f[1], f[2])
    BY <1>5
  <2>2. mem[e[1]][e[2]].to = mem[f[1]][f[2]].to
    BY DEF Child
  <2>3. e[1] = f[1] /\ e[2] = f[2]
    BY <2>1, <2>2 DEF TreeOf
  <2> QED BY <1>5, <2>3
<1>7. g_pml4_p \notin l3 \cup l2 \cup l1
  <2> HIDE DEF l3, l2, l1
  <2> QED BY <1>1, <1>2, <1>3, <1>4
<1>8. mem[g_pml4_p][ENTRIES - 2] = Entry(g_pml4_p, {"P", "RW"})
  BY DEF TreeOf
<1>9. l4 \cup l3 \cup l2 \cup l1 \subseteq DOMAIN mem
  BY <1>1, <1>2, <1>3, <1>4
<1> QED
  BY <1>6, <1>7, <1>8, <1>9 DEF TablesFormTree

------------------------------------------------------------------------------
(* get_phys.                                                               *)

LEMMA GetPhysReads ==
  ASSUME Tree, NEW v \in Address
  PROVE  LET t == Lookup(v) IN get_phys(v) = t.phys + IF "NX" \in t.flags THEN NX_BIT ELSE 0
<1> PICK lev : TreeOf(mem, g_pml4_p, lev)
  BY DEF Tree
<1>1. v \in Nat /\ HUGE_SIZE \in Nat \ {0} /\ PAGE_SIZE \in Nat \ {0} /\ NX_BIT \in Int
  BY Indexes, Geometry DEF NX_BIT
<1>2. v % HUGE_SIZE \in Nat /\ v % PAGE_SIZE \in Nat
  BY <1>1, Quotient
<1>3. Upper(mem, g_pml4_p, v) => E2(mem, g_pml4_p, v).to \in Nat
  <2>1. SUFFICES ASSUME Upper(mem, g_pml4_p, v) PROVE E2(mem, g_pml4_p, v).to \in Nat
    OBVIOUS
  <2>2. E3(mem, g_pml4_p, v).to \in DOMAIN mem /\ PD_IDX(v) \in Idx /\ mem \in Memories
    BY <2>1, Descent, Indexes DEF Upper, TreeOf
  <2>3. E2(mem, g_pml4_p, v) \in PageTableEntries
    BY <2>2, MemoryType DEF E2
  <2> QED BY <2>3 DEF PageTableEntries
<1>4. SmallPage(mem, g_pml4_p, v) => E1(mem, g_pml4_p, v).to \in Nat
  <2>1. SUFFICES ASSUME SmallPage(mem, g_pml4_p, v) PROVE E1(mem, g_pml4_p, v).to \in Nat
    OBVIOUS
  <2>2. E2(mem, g_pml4_p, v).to \in DOMAIN mem /\ PT_IDX(v) \in Idx /\ mem \in Memories
    BY <2>1, Descent, Indexes DEF SmallPage, TreeOf
  <2>3. E1(mem, g_pml4_p, v) \in PageTableEntries
    BY <2>2, MemoryType DEF E1
  <2> QED BY <2>3 DEF PageTableEntries
<1>5. CASE Hole(v) # 0
  <2>1. Lookup(v) = NoPage
    BY <1>5, HoleTells, Translation DEF Lookup
  <2> QED BY <1>5, <2>1 DEF get_phys, looks_up, NoPage
<1>6. CASE HugePage(mem, g_pml4_p, v)
  <2>1. Hole(v) = 0 /\ "PS" \in pde(v).flags /\ pde(v) = E2(mem, g_pml4_p, v)
    BY <1>6, HoleTells DEF HugePage
  <2>2. Lookup(v) = [phys |-> AlignDown(pde(v).to, HUGE_SIZE) + (v % HUGE_SIZE),
                     flags |-> pde(v).flags \ {"PS"}, size |-> HUGE_SIZE]
    BY <1>6, <2>1, Translation DEF Lookup
  <2>3. AlignDown(pde(v).to, HUGE_SIZE) \in Nat
    BY <1>1, <1>3, <1>6, <2>1, AlignedDown DEF HugePage
  <2>4. get_phys(v) = Bit63(pde(v)) + AlignDown(pde(v).to, HUGE_SIZE) + (v % HUGE_SIZE)
    BY <2>1 DEF get_phys, looks_up
  <2>5. "NX" \in Lookup(v).flags <=> "NX" \in pde(v).flags
    BY <2>2
  <2>6. Lookup(v).phys = AlignDown(pde(v).to, HUGE_SIZE) + (v % HUGE_SIZE)
    BY <2>2
  <2> HIDE DEF AlignDown
  <2> QED BY <1>1, <1>2, <2>3, <2>4, <2>5, <2>6 DEF Bit63
<1>7. CASE SmallPage(mem, g_pml4_p, v)
  <2>1. Hole(v) = 0 /\ "PS" \notin pde(v).flags /\ pte(v) = E1(mem, g_pml4_p, v)
        /\ pde(v) = E2(mem, g_pml4_p, v)
    BY <1>7, HoleTells DEF SmallPage
  <2>2. Lookup(v) = [phys |-> pte(v).to + (v % PAGE_SIZE), flags |-> pte(v).flags,
                     size |-> PAGE_SIZE]
    BY <1>7, <2>1, Translation DEF Lookup
  <2>3. get_phys(v) = Bit63(pte(v)) + pte(v).to + (v % PAGE_SIZE)
    BY <2>1 DEF get_phys, looks_up
  <2>4. pte(v).to \in Nat
    BY <1>4, <1>7, <2>1
  <2>5. Lookup(v).phys = pte(v).to + (v % PAGE_SIZE) /\ Lookup(v).flags = pte(v).flags
    BY <2>2
  <2> QED BY <1>1, <1>2, <2>3, <2>4, <2>5 DEF Bit63
<1> QED
  BY <1>5, <1>6, <1>7, HoleTells

LEMMA InitGet == Init => GetInv
BY DEF Init, GetInv, GetPhysAgrees, Idle, Call

LEMMA GetStep ==
  ASSUME FitInv, TreeInv, GetInv, [Next]_vars
  PROVE  GetInv'
<1> DEFINE Same == UNCHANGED <<mem, g_pml4_p, last>>
<1>1. CASE init
  <2>1. phase \in {"off", "init"} /\ last' = last
    BY <1>1 DEF init, init_root, init_fails, init_range, init_descriptor, reads,
                init_higher_half, init_switch, history
  <2>2. last'.call.op = "none"
    BY <2>1 DEF GetInv
  <2> QED BY <2>2 DEF GetInv, GetPhysAgrees
<1>2. CASE range_step
  <2>1. last' = last /\ call.op \in {"map_range", "unmap_range"} /\ phase \in {"init", "ready"}
    BY <1>2 DEF range_step, map_range_huge, map_range_page, map_range_runs_away, range_done,
                unmap_range_skip, skips_to, Unmapping, unmap_range_huge, unmap_range_page,
                removes_page, unmap_range_wraps, unmap_range_fault, Running, history
  <2>2. phase' \in {phase, "faulted", "misdirected", "overwritten", "runaway"}
    BY <1>2 DEF range_step, map_range_huge, map_range_page, map_range_runs_away, range_done,
                unmap_range_skip, skips_to, Unmapping, unmap_range_huge, unmap_range_page,
                removes_page, unmap_range_wraps, unmap_range_fault, Running, Effect, Strayed,
                Missing
  <2>3. call # Idle
    BY <2>1 DEF Idle, Call
  <2>4. phase = "ready" => last.call.op # "get_phys"
    BY <2>3 DEF GetInv
  <2>5. phase = "init" => last.call.op = "none"
    BY DEF GetInv
  <2> QED BY <2>1, <2>2, <2>4, <2>5 DEF GetInv, GetPhysAgrees
<1>3. ASSUME NEW c \in Calls, api(c)
      PROVE  GetInv'
  <2>1. phase = "ready" /\ call = Idle
    BY <1>3 DEF api, call_range, call_map_page, call_unmap_page, call_get_phys, call_faults,
                Begin
  <2>2. phase' \in {"ready", "faulted", "misdirected", "overwritten"}
    BY <1>3, <2>1 DEF api, call_range, call_map_page, call_unmap_page, call_get_phys,
                call_faults, Effect, Strayed, Missing, unmap_page_clears, unmap_page_ignores
  <2>3. CASE call_get_phys(c)
    <3>1. c.virt \in Address
      BY <2>3, CallAt DEF call_get_phys
    <3>2. Tree
      BY <2>1 DEF TreeInv
    <3>3. UNCHANGED <<mem, g_pml4_p, call>> /\ last'.call = c /\ last'.res = get_phys(c.virt)
      BY <2>3 DEF call_get_phys, Record, machine
    <3>4. Lookup(last.call.virt)' = Lookup(c.virt)
      BY <3>3 DEF Lookup
    <3>5. GetPhysAgrees'
      BY <3>1, <3>2, <3>3, <3>4, GetPhysReads DEF GetPhysAgrees
    <3> QED BY <2>1, <2>2, <3>3, <3>5 DEF GetInv
  <2>4. CASE call_faults(c)
    BY <2>4 DEF call_faults, Missing, GetInv, GetPhysAgrees
  <2>5. CASE call_range(c) \/ call_map_page(c) \/ call_unmap_page(c)
    <3>1. last'.call = c /\ c.op # "get_phys"
      BY <2>5 DEF call_range, call_map_page, call_unmap_page, Record
    <3> QED BY <2>2, <3>1 DEF GetInv, GetPhysAgrees
  <2> QED BY <1>3, <2>3, <2>4, <2>5 DEF api
<1>4. CASE tlb_fill \/ Stopped \/ UNCHANGED vars
  <2>1. UNCHANGED <<mem, g_pml4_p, last, phase, call>>
    BY <1>4 DEF tlb_fill, Stopped, vars, machine, history
  <2>2. Lookup(last.call.virt)' = Lookup(last.call.virt)
    BY <2>1 DEF Lookup
  <2> QED BY <2>1, <2>2 DEF GetInv, GetPhysAgrees
<1> QED
  BY <1>1, <1>2, <1>3, <1>4 DEF Next

------------------------------------------------------------------------------
(* unmap_range.                                                            *)

LEMMA NotHuge ==
  ASSUME NEW u, ~HugePage(mem, g_pml4_p, u)
  PROVE  Lookup(u).size # HUGE_SIZE
<1>1. PAGE_SIZE # HUGE_SIZE /\ HUGE_SIZE # 0
  BY SpansGrow, Geometry
<1>2. CASE SmallPage(mem, g_pml4_p, u)
  BY <1>1, <1>2, Translation DEF Lookup
<1>3. CASE ~SmallPage(mem, g_pml4_p, u)
  BY <1>1, <1>3, Translation DEF Lookup, NoPage
<1> QED
  BY <1>2, <1>3

\* The loop moves on to x over pages that are not mapped, and no page comes back.
LEMMA MovesOn ==
  ASSUME FitInv, UnmapInv, phase = "ready", last.call.op = "unmap_range", ~last.inside,
         call # Idle, call.virt < call.end,
         NEW x \in Nat, call.virt < x, call' = [call EXCEPT !.virt = x],
         UNCHANGED <<last, phase, g_pml4_p>>,
         \A p \in Address : p >= call.virt /\ p < x => Translate(mem', g_pml4_p, p) = NoPage,
         \A p \in Address : Lookup(p) = NoPage => Translate(mem', g_pml4_p, p) = NoPage,
         x < call.end => Translate(mem', g_pml4_p, x).size # HUGE_SIZE \/ x % HUGE_SIZE = 0
  PROVE  UnmapInv'
<1>1. /\ call.op = "unmap_range" /\ call.end = last.call.end /\ call.virt >= last.call.virt
      /\ \A p \in Pages : p >= last.call.virt /\ p < last.call.end /\ p < call.virt
           => Lookup(p) = NoPage
  BY DEF UnmapInv
<1>2. Fits(call) /\ Fits(last.call)
  BY DEF FitInv
<1>3. call.virt \in Nat /\ last.call.virt \in Nat /\ last.call.end \in Nat
      /\ call = Call(call.op, call.virt, call.phys, call.size, call.end, call.flags, call.opts)
  BY <1>2 DEF Fits
<1>4. call'.op = "unmap_range" /\ call'.end = last.call.end /\ call'.virt = x
  BY <1>1, <1>3 DEF Call
<1>5. \A p \in Pages : p >= last.call.virt /\ p < last.call.end => p \in Address
  <2>1. Pages \subseteq 0..(WORD - 1)
    BY AddressAssumption
  <2>2. last.call.virt < last.call.end =>
          \A p \in 0..(WORD - 1) : p >= last.call.virt /\ p < last.call.end => p \in Address
    <3>1. \A a \in last.call.virt..(last.call.end - 1) : Usable(a)
      BY <1>2 DEF Fits
    <3> QED BY <1>3, <3>1 DEF Address
  <2>3. \A p \in 0..(WORD - 1) : p \in Int
    BY Geometry
  <2> QED BY <1>3, <2>1, <2>2, <2>3
<1>6. ASSUME NEW p \in Pages, p >= last.call.virt, p < last.call.end, p < x
      PROVE  Translate(mem', g_pml4_p, p) = NoPage
  <2>1. p \in Address
    BY <1>5, <1>6
  <2>2. p \in Int
    BY <2>1, Indexes
  <2>3. CASE p < call.virt
    BY <1>1, <1>6, <2>1, <2>3
  <2>4. CASE p >= call.virt
    BY <1>6, <2>1, <2>4
  <2> QED BY <1>3, <2>2, <2>3, <2>4
<1>7. \A p : Lookup(p)' = Translate(mem', g_pml4_p, p)
  BY DEF Lookup
<1>8. x >= last.call.virt
  BY <1>1, <1>3
<1>9. call' # Idle
  BY <1>4 DEF Idle, Call
<1>10. call'.virt < call'.end => ~Inside(call.virt)'
  <2>1. Inside(call.virt)' <=> Translate(mem', g_pml4_p, x).size = HUGE_SIZE /\ x % HUGE_SIZE # 0
    BY <1>4 DEF Inside, Lookup
  <2> QED BY <1>1, <1>4, <2>1
<1> QED
  BY <1>4, <1>6, <1>7, <1>8, <1>9, <1>10 DEF UnmapInv

LEMMA InitUnmap == Init => UnmapInv
BY DEF Init, UnmapInv

\* An address on: it does not wrap, and where it ends.
LEMMA Onward ==
  ASSUME NEW v \in Nat, NEW n \in {PAGE_SIZE, HUGE_SIZE}, v + n < WORD, v % n = 0
  PROVE  /\ Plus(v, n) = v + n /\ v + n \in Nat /\ v < v + n /\ (v + n) % n = 0
         /\ \A p \in Nat : p >= v /\ p < v + n => p \div n = v \div n
         /\ (v + n) \div n # v \div n
<1>1. n \in Nat \ {0} /\ v \in Int
  BY WholePages, SMTT(30) DEF Spans
<1>2. WORD \in Nat \ {0} /\ v + n \in Nat
  BY <1>1, Geometry
<1>3. Plus(v, n) = v + n
  BY <1>1, <1>2, Small DEF Plus
<1> DEFINE d == v \div n
<1>4. d \in Int /\ v = n * d
  <2>1. /\ v \div n \in Int /\ v % n \in 0..(n - 1)
        /\ v = n * (v \div n) + (v % n)
        /\ n * (v \div n) <= v /\ v < n * (v \div n) + n
        /\ v >= 0 => v \div n >= 0
    BY <1>1, Quotient
  <2>2. n * d \in Int
    BY <1>1, <2>1
  <2> QED BY <2>1, <2>2
<1> HIDE DEF d
<1>5. \A p \in Nat : p >= v /\ p < v + n => p \div n = d
  BY <1>1, <1>4, QuotientIs
<1>6. (v + n) % n = 0 /\ (v + n) \div n = d + 1
  <2>1. v + n = n * (d + 1) /\ d + 1 \in Int
    BY <1>1, <1>4
  <2> QED BY <1>1, <2>1, Multiple
<1> QED
  BY <1>1, <1>3, <1>4, <1>5, <1>6 DEF d

LEMMA UnmapStep ==
  ASSUME FitInv, TreeInv, GetInv, UnmapInv, [Next]_vars
  PROVE  UnmapInv'
<1>1. Fits(call) /\ Fits(last.call) /\ g_pml4_p = g_pml4_p
  BY DEF FitInv
<1>2. ASSUME UNCHANGED <<mem, g_pml4_p, call, last, phase>> PROVE UnmapInv'
  <2>1. /\ \A p : Lookup(p)' = Lookup(p)
        /\ Inside(call.virt)' = Inside(call.virt)
    BY <1>2 DEF Lookup, Inside
  <2> QED BY <1>2, <2>1 DEF UnmapInv
<1>3. ASSUME phase' # "ready" \/ last'.call.op # "unmap_range" PROVE UnmapInv'
  BY <1>3 DEF UnmapInv
<1>4. CASE init
  <2>1. phase \in {"off", "init"} /\ last' = last
    BY <1>4 DEF init, init_root, init_fails, init_range, init_descriptor, reads,
                init_higher_half, init_switch, history
  <2> QED BY <1>3, <2>1 DEF GetInv
<1>5. ASSUME NEW c \in Calls, api(c)
      PROVE  UnmapInv'
  <2>1. CASE call_faults(c)
    BY <1>3, <2>1 DEF call_faults, Missing
  <2>2. CASE call_map_page(c) \/ call_unmap_page(c) \/ call_get_phys(c)
    <3>1. last'.call.op # "unmap_range"
      BY <2>2 DEF call_map_page, call_unmap_page, call_get_phys, Record
    <3> QED BY <1>3, <3>1
  <2>3. CASE call_range(c)
    <3>1. /\ call' = c /\ last' = [call |-> c, inside |-> Inside(c.virt), res |-> 0]
          /\ UNCHANGED <<mem, g_pml4_p>>
      BY <2>3 DEF call_range, Record, machine
    <3>2. SUFFICES ASSUME c.op = "unmap_range", ~Inside(c.virt) PROVE UnmapInv'
      BY <3>1 DEF UnmapInv
    <3>3. Fits(c)
      BY AddressAssumption
    <3>4. c.virt \in Nat
      BY <3>3 DEF Fits
    <3>5. \A p \in Pages : p \in Nat
      BY AddressAssumption, Geometry
    <3>6. c # Idle
      BY <3>2 DEF Idle, Call
    <3>7. ~Inside(call.virt)'
      BY <3>1, <3>2 DEF Inside, Lookup
    <3>8. \A p \in Pages : ~(p >= c.virt /\ p < c.virt)
      BY <3>4, <3>5
    <3> QED BY <3>1, <3>2, <3>4, <3>6, <3>7, <3>8 DEF UnmapInv
  <2> QED BY <1>5, <2>1, <2>2, <2>3 DEF api
<1>6. CASE tlb_fill \/ Stopped \/ UNCHANGED vars
  <2>1. UNCHANGED <<mem, g_pml4_p, call, last, phase>>
    BY <1>6 DEF tlb_fill, Stopped, vars, machine, history
  <2> QED BY <1>2, <2>1
<1>7. CASE range_step
  <2>1. last' = last /\ g_pml4_p' = g_pml4_p /\ phase \in {"init", "ready"}
    BY <1>7 DEF range_step, map_range_huge, map_range_page, map_range_runs_away, range_done,
                unmap_range_skip, skips_to, Unmapping, unmap_range_huge, unmap_range_page,
                removes_page, unmap_range_wraps, unmap_range_fault, Running, history, machine
  <2>2. phase' \in {phase, "faulted", "misdirected", "overwritten", "runaway"}
    BY <1>7 DEF range_step, map_range_huge, map_range_page, map_range_runs_away, range_done,
                unmap_range_skip, skips_to, Unmapping, unmap_range_huge, unmap_range_page,
                removes_page, unmap_range_wraps, unmap_range_fault, Running, Effect, Strayed,
                Missing
  <2>3. SUFFICES ASSUME phase = "ready", phase' = "ready", last.call.op = "unmap_range",
                        ~last.inside
                 PROVE  UnmapInv'
    BY <2>1, <2>2 DEF UnmapInv, GetInv
  <2>4. call.op \in {"map_range", "unmap_range"}
    BY <1>7 DEF range_step, map_range_huge, map_range_page, map_range_runs_away, range_done,
                unmap_range_skip, skips_to, Unmapping, unmap_range_huge, unmap_range_page,
                removes_page, unmap_range_wraps, unmap_range_fault, Running
  <2>5. call # Idle /\ call.op = "unmap_range" /\ call.end = last.call.end
    BY <2>3, <2>4 DEF UnmapInv, Idle, Call
  <2>6. Tree
    BY <2>3 DEF TreeInv
  <2> PICK lev : TreeOf(mem, g_pml4_p, lev)
    BY <2>6 DEF Tree
  <2> DEFINE v == call.virt
  <2>7. v < call.end =>
          /\ v \in Address /\ v \in Nat /\ v % PAGE_SIZE = 0
          /\ v < WORD /\ v + PAGE_SIZE < WORD
          /\ \A p \in 0..(WORD - 1) : p >= v /\ p < call.end => p \in Address
          /\ ~Inside(v)
    BY <1>1, <2>3, <2>5, Standing DEF UnmapInv
  <2>8. CASE \/ map_range_huge \/ map_range_page \/ map_range_runs_away
             \/ unmap_range_wraps \/ unmap_range_fault
    BY <2>3, <2>5, <2>8 DEF map_range_huge, map_range_page, map_range_runs_away,
                            unmap_range_wraps, unmap_range_fault, Missing, Running
  <2>9. CASE range_done
    <3>1. call' = Idle /\ v >= last.call.end /\ UNCHANGED <<mem, g_pml4_p, last>>
      BY <2>5, <2>9 DEF range_done, Running, machine, history
    <3>2. v \in Nat /\ last.call.end \in Nat
      BY <1>1 DEF Fits
    <3>3. \A p \in Pages : p < last.call.end => p < v
      BY <3>1, <3>2, AddressAssumption, Geometry
    <3>4. \A p \in Pages : p >= last.call.virt /\ p < last.call.end => Lookup(p) = NoPage
      BY <2>3, <2>5, <3>3 DEF UnmapInv
    <3>5. \A p : Lookup(p)' = Lookup(p)
      BY <3>1 DEF Lookup
    <3> QED BY <3>1, <3>4, <3>5 DEF UnmapInv
  <2>10. CASE unmap_range_skip
    <3> DEFINE n == Hole(v)
               x == NextBlock(v, n)
    <3>1. /\ v < call.end /\ n # 0 /\ call' = [call EXCEPT !.virt = x] /\ x > v
          /\ UNCHANGED <<mem, g_pml4_p, last, phase>>
      BY <2>10 DEF unmap_range_skip, skips_to, Unmapping, machine, history
    <3>2. n \in Spans
      BY <3>1, HoleTells DEF Spans
    <3>3. /\ x \in Nat /\ v < x /\ x <= v + n /\ x < WORD /\ x % PAGE_SIZE = 0
          /\ n # PAGE_SIZE => x % HUGE_SIZE = 0
          /\ \A u \in Nat : v <= u /\ u < x => u \div n = v \div n
      BY <2>7, <3>1, <3>2, EndOfBlock
    <3> HIDE DEF x
    <3>4. \A p \in Address : p >= v /\ p < x => Lookup(p) = NoPage
      <4> SUFFICES ASSUME NEW p \in Address, p >= v, p < x PROVE Lookup(p) = NoPage
        OBVIOUS
      <4>1. p \in Nat
        BY Indexes
      <4>2. p \div n = v \div n
        BY <2>7, <3>1, <3>3, <4>1
      <4> QED BY <2>7, <3>1, <4>2, HoleIsEmpty
    <3>5. x < call.end => Lookup(x).size # HUGE_SIZE \/ x % HUGE_SIZE = 0
      <4> SUFFICES ASSUME x < call.end, x % HUGE_SIZE # 0 PROVE Lookup(x).size # HUGE_SIZE
        OBVIOUS
      <4>1. n = PAGE_SIZE
        BY <3>3
      <4>2. x \div HUGE_SIZE = v \div HUGE_SIZE
        BY <2>7, <3>1, <3>3, <4>1, SameHugePage
      <4>3. x \in Address
        <5>1. call.end \in Nat
          BY <1>1 DEF Fits
        <5>2. x >= v /\ x \in 0..(WORD - 1)
          BY <2>7, <3>1, <3>3, Geometry
        <5> QED BY <2>7, <3>1, <5>1, <5>2
      <4>4. ~HugePage(mem, g_pml4_p, v)
        BY <3>1, HoleTells
      <4>5. ~HugePage(mem, g_pml4_p, x)
        BY <2>7, <3>1, <4>2, <4>3, <4>4, SameEntries DEF HugePage, Upper
      <4> QED BY <4>5, NotHuge
    <3>6. /\ \A p \in Address : p >= v /\ p < x => Translate(mem', g_pml4_p, p) = NoPage
          /\ \A p \in Address : Lookup(p) = NoPage => Translate(mem', g_pml4_p, p) = NoPage
          /\ x < call.end => Translate(mem', g_pml4_p, x).size # HUGE_SIZE \/ x % HUGE_SIZE = 0
      BY <3>1, <3>4, <3>5 DEF Lookup
    <3> QED BY <2>3, <2>5, <3>1, <3>3, <3>6, MovesOn
  <2>11. ASSUME NEW n \in {PAGE_SIZE, HUGE_SIZE}, v < call.end, v % n = 0,
                v + n < WORD, call' = [call EXCEPT !.virt = Plus(v, n)],
                UNCHANGED <<last, phase, g_pml4_p>>,
                \A u \in Address : u \div n # v \div n => Translate(mem', g_pml4_p, u) = Lookup(u),
                \A u \in Address : u \div n = v \div n => Translate(mem', g_pml4_p, u) = NoPage,
                \A u \in Address : n = PAGE_SIZE /\ u \div HUGE_SIZE = v \div HUGE_SIZE
                  => ~HugePage(mem, g_pml4_p, u)
         PROVE  UnmapInv'
    <3> DEFINE x == v + n
    <3>1. /\ Plus(v, n) = x /\ x \in Nat /\ v < x /\ x % n = 0
          /\ \A p \in Nat : p >= v /\ p < x => p \div n = v \div n
          /\ x \div n # v \div n
      BY <2>7, <2>11, Onward
    <3>2. n \in Nat \ {0} /\ n <= PML4_SPAN
      BY WholePages DEF Spans
    <3>3. \A p \in Address : p >= v /\ p < x => Translate(mem', g_pml4_p, p) = NoPage
      BY <2>11, <3>1, Indexes
    <3>4. \A p \in Address : Lookup(p) = NoPage => Translate(mem', g_pml4_p, p) = NoPage
      BY <2>11
    <3>5. x < call.end => Translate(mem', g_pml4_p, x).size # HUGE_SIZE \/ x % HUGE_SIZE = 0
      <4> SUFFICES ASSUME x < call.end, x % HUGE_SIZE # 0
                   PROVE  Translate(mem', g_pml4_p, x).size # HUGE_SIZE
        OBVIOUS
      <4>1. n = PAGE_SIZE
        BY <3>1
      <4>2. x \div HUGE_SIZE = v \div HUGE_SIZE
        <5>1. x <= v + PAGE_SIZE /\ x % PAGE_SIZE = 0
          BY <2>7, <2>11, <3>1, <4>1, Geometry
        <5> HIDE DEF x
        <5> QED BY <2>7, <2>11, <3>1, <5>1, SameHugePage
      <4>3. x \in Address
        <5>1. call.end \in Nat
          BY <1>1 DEF Fits
        <5>2. x >= v /\ x \in 0..(WORD - 1)
          BY <2>7, <2>11, <3>1, <3>2, Geometry
        <5> QED BY <2>7, <2>11, <5>1, <5>2
      <4>4. ~HugePage(mem, g_pml4_p, x)
        BY <2>11, <4>1, <4>2, <4>3
      <4>5. Translate(mem', g_pml4_p, x) = Lookup(x)
        BY <2>11, <3>1, <4>3
      <4> QED BY <4>4, <4>5, NotHuge
    <3> HIDE DEF x
    <3> QED BY <2>3, <2>5, <2>11, <3>1, <3>3, <3>4, <3>5, MovesOn
  <2>12. CASE unmap_range_huge
    <3>1. /\ v < call.end /\ Hole(v) = 0 /\ "PS" \in pde(v).flags
          /\ mem' = [mem EXCEPT ![pdpte(v).to][PD_IDX(v)] = NoEntry]
          /\ call' = [call EXCEPT !.virt = Plus(v, HUGE_SIZE)] /\ Plus(v, HUGE_SIZE) > v
          /\ UNCHANGED <<last, phase, g_pml4_p>>
      BY <2>12 DEF unmap_range_huge, Unmapping, machine, history
    <3>2. HugePage(mem, g_pml4_p, v)
      BY <3>1, HoleTells DEF SmallPage
    <3>3. v % HUGE_SIZE = 0
      <4>1. Lookup(v).size = HUGE_SIZE
        BY <3>2, Translation DEF Lookup
      <4> QED BY <2>7, <3>1, <4>1 DEF Inside
    <3>4. /\ \A u \in Address : u \div HUGE_SIZE # v \div HUGE_SIZE =>
               Translate(mem', g_pml4_p, u) = Lookup(u)
          /\ \A u \in Address : u \div HUGE_SIZE = v \div HUGE_SIZE =>
               Translate(mem', g_pml4_p, u) = NoPage
      BY <2>7, <3>1, <3>2, ClearHuge
    <3>5. HUGE_SIZE # PAGE_SIZE
      BY SpansGrow, Geometry
    <3>6. v + HUGE_SIZE < WORD
      <4>1. HUGE_SIZE \in Nat /\ HUGE_SIZE < WORD
        BY SpansAreShort DEF Spans
      <4> HIDE DEF v
      <4> QED BY <2>7, <3>1, <4>1, Forward
    <3> QED BY <2>11, <3>1, <3>3, <3>4, <3>5, <3>6
  <2>13. CASE unmap_range_page
    <3>1. /\ v < call.end /\ Hole(v) = 0 /\ "PS" \notin pde(v).flags
          /\ mem' = [mem EXCEPT ![pde(v).to][PT_IDX(v)] = NoEntry]
          /\ call' = [call EXCEPT !.virt = Plus(v, PAGE_SIZE)]
          /\ UNCHANGED <<last, phase, g_pml4_p>>
      BY <2>13 DEF unmap_range_page, removes_page, Unmapping, machine, history
    <3>2. SmallPage(mem, g_pml4_p, v)
      BY <3>1, HoleTells DEF HugePage
    <3>3. /\ \A u \in Address : u \div PAGE_SIZE # v \div PAGE_SIZE =>
               Translate(mem', g_pml4_p, u) = Lookup(u)
          /\ \A u \in Address : u \div PAGE_SIZE = v \div PAGE_SIZE =>
               Translate(mem', g_pml4_p, u) = NoPage
      BY <2>7, <3>1, <3>2, ClearPage
    <3>4. \A u \in Address : u \div HUGE_SIZE = v \div HUGE_SIZE => ~HugePage(mem, g_pml4_p, u)
      BY <2>7, <3>1, <3>2, SameEntries DEF HugePage, SmallPage
    <3> QED BY <2>7, <2>11, <3>1, <3>3, <3>4
  <2> QED
    BY <1>7, <2>8, <2>9, <2>10, <2>12, <2>13 DEF range_step
<1> QED
  BY <1>2, <1>4, <1>5, <1>6, <1>7 DEF Next

------------------------------------------------------------------------------
(* The TLB.                                                                *)

\* The address p lies in the block of n bytes that begins at n times k.
LEMMA InBlock ==
  ASSUME NEW n \in Nat \ {0}, NEW k \in Nat, NEW p \in Nat
  PROVE  /\ p >= n * k /\ p < n * k + n <=> p \div n = k
         /\ p \div n = k => p - n * k = p % n
<1>0. p \in Int
  OBVIOUS
<1>1. /\ p \div n \in Int /\ p % n \in 0..(n - 1)
      /\ p = n * (p \div n) + (p % n)
      /\ n * (p \div n) <= p /\ p < n * (p \div n) + n
      /\ p >= 0 => p \div n >= 0
  BY <1>0, Quotient
<1> DEFINE d == p \div n
           r == p % n
<1>2. d \in Int /\ r \in Int /\ p = n * d + r /\ n * d <= p /\ p < n * d + n
  BY <1>1
<1>3. p >= n * k /\ p < n * k + n => d = k
  BY QuotientIs
<1> HIDE DEF d, r
<1>4. d = k => p >= n * k /\ p < n * k + n /\ p - n * k = r
  <2>1. n * k \in Int
    OBVIOUS
  <2> QED BY <1>2, <2>1
<1> QED
  BY <1>3, <1>4 DEF d, r

\* Aligning down a multiple and a rest gives the multiple.
LEMMA AlignedSum ==
  ASSUME NEW a \in Nat, NEW n \in Nat \ {0}, a % n = 0, NEW r \in 0..(n - 1)
  PROVE  AlignDown(a + r, n) = a
<1>0. a \in Int
  OBVIOUS
<1>1. /\ a \div n \in Int /\ a % n \in 0..(n - 1)
      /\ a = n * (a \div n) + (a % n)
      /\ n * (a \div n) <= a /\ a < n * (a \div n) + n
      /\ a >= 0 => a \div n >= 0
  BY <1>0, Quotient
<1> DEFINE d == a \div n
<1>2. d \in Int /\ a = n * d
  <2>1. n * d \in Int
    BY <1>1
  <2> QED BY <1>1, <2>1
<1> HIDE DEF d
<1>3. n * d <= a + r /\ a + r < n * d + n /\ a + r \in Nat
  BY <1>2
<1>4. (a + r) \div n = d
  BY <1>2, <1>3, QuotientIs
<1>5. AlignDown(a + r, n) = n * ((a + r) \div n)
  BY <1>3, AlignedDown
<1> QED
  BY <1>2, <1>4, <1>5

\* The sizes of translations.
LEMMA Sizes ==
  ASSUME NEW u
  PROVE  /\ HugePage(mem, g_pml4_p, u) => Lookup(u).size = HUGE_SIZE
         /\ SmallPage(mem, g_pml4_p, u) => Lookup(u).size = PAGE_SIZE
         /\ Lookup(u) # NoPage => HugePage(mem, g_pml4_p, u) \/ SmallPage(mem, g_pml4_p, u)
         /\ NoPage.size = 0 /\ HUGE_SIZE # 0 /\ PAGE_SIZE # 0 /\ HUGE_SIZE # PAGE_SIZE
BY Translation, Geometry, SpansGrow DEF Lookup, NoPage

\* What the processor caches: the block of bytes that one entry translates.
Cached(q) ==
  LET t == Lookup(q) IN
  [base |-> AlignDown(q, t.size), size |-> t.size, phys |-> AlignDown(t.phys, t.size)]

LEMMA Caching ==
  ASSUME Tree, NEW q \in Address, Lookup(q) # NoPage
  PROVE  LET t == Cached(q) IN
         /\ t.size \in {PAGE_SIZE, HUGE_SIZE} /\ t.base \div t.size \in Nat
         /\ t.base = t.size * (t.base \div t.size)
         /\ \A p \in Address : p >= t.base /\ p < t.base + t.size =>
              Lookup(p).phys = t.phys + (p - t.base) /\ Lookup(p).size = t.size
<1> PICK lev : TreeOf(mem, g_pml4_p, lev)
  BY DEF Tree
<1> DEFINE n == Lookup(q).size
           k == q \div n
           t == Cached(q)
<1>1. n \in {PAGE_SIZE, HUGE_SIZE} /\ n \in Nat \ {0} /\ q \in Nat
  BY Sizes, Geometry, Indexes
<1>2. k \in Nat /\ t.base = n * k /\ t.size = n
  BY <1>1, AlignedDown DEF Cached
<1>3. t.base \div t.size = k
  BY <1>1, <1>2, Multiple
<1>4. ASSUME NEW p \in Address, p >= t.base, p < t.base + t.size
      PROVE  p \div n = q \div n /\ p - t.base = p % n
  <2>1. p \in Nat
    BY Indexes
  <2> HIDE DEF n, k, t
  <2>2. p >= n * k /\ p < n * k + n
    BY <1>2, <1>4
  <2>3. p \div n = k /\ p - n * k = p % n
    BY <1>1, <1>2, <2>1, <2>2, InBlock
  <2> QED BY <1>2, <2>3 DEF k
<1>5. ASSUME NEW a \in Nat, a % n = 0, Lookup(q).phys = a + (q % n)
      PROVE  t.phys = a
  <2>1. q % n \in 0..(n - 1)
    BY <1>1, Quotient
  <2>2. AlignDown(a + (q % n), n) = a
    BY <1>1, <1>5, <2>1, AlignedSum
  <2> QED BY <1>5, <2>2 DEF Cached
<1>6. ASSUME NEW p \in Address, p >= t.base, p < t.base + t.size
      PROVE  Lookup(p).phys = t.phys + (p - t.base) /\ Lookup(p).size = t.size
  <2>1. p \div n = q \div n /\ p - t.base = p % n
    BY <1>4, <1>6
  <2>2. CASE HugePage(mem, g_pml4_p, q)
    <3> DEFINE e == E2(mem, g_pml4_p, q)
               a == AlignDown(e.to, HUGE_SIZE)
    <3>1. n = HUGE_SIZE
      BY <2>2, Sizes
    <3>2. HugePage(mem, g_pml4_p, p) /\ E2(mem, g_pml4_p, p) = e
      BY <2>1, <2>2, <3>1, SameEntries DEF HugePage, Upper
    <3>3. e.to \in Nat
      <4>1. E3(mem, g_pml4_p, q).to \in DOMAIN mem /\ PD_IDX(q) \in Idx /\ mem \in Memories
        BY <2>2, Descent, Indexes DEF HugePage, Upper, TreeOf
      <4>2. e \in PageTableEntries
        BY <4>1, MemoryType DEF E2
      <4> QED BY <4>2 DEF PageTableEntries
    <3>4. a \in Nat /\ a % n = 0
      BY <1>1, <3>1, <3>3, AlignedDown
    <3>5. Lookup(q).phys = a + (q % n) /\ Lookup(p).phys = a + (p % n)
      BY <2>2, <3>1, <3>2, Translation DEF Lookup
    <3>6. Lookup(p).size = n
      BY <3>1, <3>2, Sizes
    <3>7. t.phys = a
      BY <1>5, <3>4, <3>5
    <3> QED BY <1>2, <2>1, <3>5, <3>6, <3>7
  <2>3. CASE SmallPage(mem, g_pml4_p, q)
    <3> DEFINE e == E1(mem, g_pml4_p, q)
    <3>1. n = PAGE_SIZE
      BY <2>3, Sizes
    <3>2. SmallPage(mem, g_pml4_p, p) /\ E1(mem, g_pml4_p, p) = e
      BY <2>1, <2>3, <3>1, SameEntries DEF SmallPage, Upper
    <3>3. e.to \in Nat /\ e.to % PAGE_SIZE = 0
      <4>1. /\ E2(mem, g_pml4_p, q).to \in DOMAIN mem /\ lev[E2(mem, g_pml4_p, q).to] = 1
            /\ PT_IDX(q) \in Idx /\ mem \in Memories
        BY <2>3, Descent, Indexes DEF SmallPage, TreeOf
      <4>2. e \in PageTableEntries
        BY <4>1, MemoryType DEF E1
      <4>3. e.to % PAGE_SIZE = 0
        BY <4>1 DEF E1, TreeOf
      <4> QED BY <4>2, <4>3 DEF PageTableEntries
    <3>4. Lookup(q).phys = e.to + (q % n) /\ Lookup(p).phys = e.to + (p % n)
      BY <2>3, <3>1, <3>2, Translation DEF Lookup
    <3>5. Lookup(p).size = n
      BY <3>1, <3>2, Sizes
    <3>6. t.phys = e.to
      BY <1>5, <3>1, <3>3, <3>4
    <3> QED BY <1>2, <2>1, <3>4, <3>5, <3>6
  <2> QED BY <2>2, <2>3, Sizes
<1> QED
  BY <1>1, <1>2, <1>3, <1>6

LEMMA InitTlb == Init => TlbInv /\ TlbAgrees
BY DEF Init, TlbInv, TlbAgrees

\* A page is in an entry when it lies in the same block.
LEMMA InEntry ==
  ASSUME TlbInv, NEW t \in tlb, NEW p \in Nat
  PROVE  /\ t.size \in {PAGE_SIZE, HUGE_SIZE}
         /\ p >= t.base /\ p < t.base + t.size <=> p \div t.size = t.base \div t.size
<1> DEFINE n == t.size
           k == t.base \div t.size
<1>1. n \in {PAGE_SIZE, HUGE_SIZE} /\ n \in Nat \ {0} /\ k \in Nat /\ t.base = n * k
  BY Geometry DEF TlbInv
<1>2. p >= n * k /\ p < n * k + n <=> p \div n = k
  <2> HIDE DEF n, k
  <2> QED BY <1>1, InBlock
<1> QED
  BY <1>1, <1>2

LEMMA TlbStep ==
  ASSUME FitInv, TreeInv, TlbInv, TlbAgrees, [Next]_vars
  PROVE  TlbInv' /\ TlbAgrees'
<1>1. \A p \in TlbPages : p \in Address
  BY AddressAssumption DEF Address
<1>2. \A p : Lookup(p)' = Translate(mem', g_pml4_p', p)
  BY DEF Lookup
<1>3. CASE init_root
  <2>1. phase = "off" /\ tlb' = tlb
    BY <1>3 DEF init_root
  <2>2. tlb' = {}
    BY <2>1 DEF TlbInv
  <2> QED BY <2>2 DEF TlbInv, TlbAgrees
<1>4. CASE Quiet
  <2>1. \A p : Lookup(p)' = Lookup(p)
    BY <1>4 DEF Quiet, Lookup
  <2>2. CASE tlb' \subseteq tlb
    <3>1. TlbAgrees'
      BY <1>4, <2>1, <2>2 DEF Quiet, TlbAgrees
    <3>2. phase' = "off" => phase = "off"
      BY <1>4 DEF Quiet
    <3>3. TlbInv'
      BY <2>2, <3>2 DEF TlbInv
    <3> QED BY <3>1, <3>3
  <2>3. CASE tlb_fill
    <3>1. PICK q \in TlbPages : Lookup(q) # NoPage /\ tlb' = tlb \cup {Cached(q)}
      BY <2>3 DEF tlb_fill, Cached
    <3>2. phase = "ready" /\ phase' = "ready"
      BY <2>3 DEF tlb_fill
    <3>3. Tree /\ q \in Address
      BY <1>1, <3>2 DEF TreeInv
    <3> DEFINE t == Cached(q)
    <3>4. /\ t.size \in {PAGE_SIZE, HUGE_SIZE} /\ t.base \div t.size \in Nat
          /\ t.base = t.size * (t.base \div t.size)
          /\ \A p \in Address : p >= t.base /\ p < t.base + t.size =>
               Lookup(p).phys = t.phys + (p - t.base) /\ Lookup(p).size = t.size
      BY <3>1, <3>3, Caching
    <3> HIDE DEF t
    <3>5. TlbInv'
      BY <3>1, <3>2, <3>4 DEF TlbInv, t
    <3>6. TlbAgrees'
      BY <1>1, <1>4, <2>1, <3>1, <3>4 DEF Quiet, TlbAgrees, t
    <3> QED BY <3>5, <3>6
  <2> QED BY <1>4, <2>2, <2>3 DEF Quiet
<1>5. ASSUME NEW v \in Address, NEW n \in {PAGE_SIZE, HUGE_SIZE}, Mapping(v, n)
      PROVE  TlbInv' /\ TlbAgrees'
  <2>1. PICK s : Maps(s, v, n) /\ Effect(s, v, n)
    BY <1>5 DEF Mapping
  <2>2. tlb' = tlb /\ g_pml4_p' = g_pml4_p /\ mem' = s.mem
    BY <1>5, <2>1 DEF Mapping, Effect
  <2>3. phase' # "off"
    BY <1>5, <2>1 DEF Mapping, Effect, Strayed, Missing
  <2>4. TlbInv'
    BY <2>2, <2>3 DEF TlbInv
  <2>5. ASSUME NEW t \in tlb, NEW p \in TlbPages, p \notin replaced', p >= t.base,
               p < t.base + t.size
        PROVE  Translate(s.mem, g_pml4_p, p) = Lookup(p) /\ p \notin replaced
    <3>1. p \in Address /\ p \notin replaced
      BY <1>1, <2>1, <2>5 DEF Effect
    <3>2. CASE p \div n # v \div n \/ s.huge \/ s.at = nullptr
      BY <2>1, <3>1, <3>2 DEF Maps
    <3>3. CASE ~(p \div n # v \div n \/ s.huge \/ s.at = nullptr)
      <4>1. n \in Nat \ {0} /\ p \in Nat /\ v \in Nat
        BY <3>1, Geometry, Indexes
      <4>2. AlignDown(p, n) = AlignDown(v, n)
        BY <3>3, <4>1, AlignedDown
      <4>3. Lookup(p) = NoPage
        BY <2>1, <2>5, <3>3, <4>2 DEF Effect
      <4>4. Lookup(p).size = t.size
        BY <2>5, <3>1 DEF TlbAgrees
      <4> QED BY <4>3, <4>4, Sizes DEF TlbInv
    <3> QED BY <3>1, <3>2, <3>3
  <2>6. TlbAgrees'
    BY <1>2, <2>2, <2>5 DEF TlbAgrees
  <2> QED BY <2>4, <2>6
<1>6. ASSUME NEW v \in Address, NEW n \in {PAGE_SIZE, HUGE_SIZE}, Clearing(v, n)
      PROVE  TlbInv' /\ TlbAgrees'
  <2>1. /\ tlb' = {t \in tlb : v < t.base \/ v >= t.base + t.size} /\ UNCHANGED <<g_pml4_p, replaced>>
        /\ phase' = phase /\ phase # "off"
    BY <1>6 DEF Clearing, invlpg
  <2>2. TlbInv'
    BY <2>1 DEF TlbInv
  <2>3. Tree
    BY <1>6 DEF Clearing, TreeInv
  <2> PICK lev : TreeOf(mem, g_pml4_p, lev)
    BY <2>3 DEF Tree
  <2>4. /\ \A u \in Address : u \div n # v \div n => Translate(mem', g_pml4_p, u) = Lookup(u)
        /\ \A u \in Address : u \div n = v \div n => Lookup(u).size = n
    <3>1. CASE n = HUGE_SIZE /\ HugePage(mem, g_pml4_p, v)
               /\ mem' = [mem EXCEPT ![pdpte(v).to][PD_IDX(v)] = NoEntry]
      <4>1. \A u \in Address : u \div n = v \div n => HugePage(mem, g_pml4_p, u)
        BY <3>1, SameEntries DEF HugePage, Upper
      <4>2. \A u \in Address : u \div n = v \div n => Lookup(u).size = n
        BY <3>1, <4>1, Sizes
      <4> QED BY <3>1, <4>2, ClearHuge
    <3>2. CASE n = PAGE_SIZE /\ SmallPage(mem, g_pml4_p, v)
               /\ mem' = [mem EXCEPT ![pde(v).to][PT_IDX(v)] = NoEntry]
      <4>1. \A u \in Address : u \div n = v \div n => SmallPage(mem, g_pml4_p, u)
        BY <3>2, SameEntries DEF SmallPage, Upper
      <4>2. \A u \in Address : u \div n = v \div n => Lookup(u).size = n
        BY <3>2, <4>1, Sizes
      <4> QED BY <3>2, <4>2, ClearPage
    <3> QED BY <1>6, <3>1, <3>2 DEF Clearing
  <2>5. ASSUME NEW t \in tlb', NEW p \in TlbPages \ replaced, p >= t.base, p < t.base + t.size
        PROVE  Translate(mem', g_pml4_p, p) = Lookup(p)
    <3>1. p \in Address /\ p \in Nat /\ v \in Nat /\ t \in tlb
      BY <1>1, <2>1, Indexes
    <3>2. p \div t.size = t.base \div t.size /\ v \div t.size # t.base \div t.size
      <4>1. ~(v >= t.base /\ v < t.base + t.size)
        <5>1. t.base \in Int /\ t.size \in Int
          BY <3>1, Geometry DEF TlbInv
        <5> QED BY <2>1, <3>1, <5>1
      <4> QED BY <2>5, <3>1, <4>1, InEntry
    <3>3. Lookup(p).size = t.size
      BY <2>5, <3>1 DEF TlbAgrees
    <3>4. p \div n # v \div n
      BY <2>4, <3>1, <3>2, <3>3
    <3> QED BY <2>4, <3>1, <3>4
  <2>6. TlbAgrees'
    BY <1>2, <2>1, <2>5 DEF TlbAgrees
  <2> QED BY <2>2, <2>6
<1> QED
  BY <1>3, <1>4, <1>5, <1>6, EveryStep

------------------------------------------------------------------------------
(* The entry a mapping writes, and why it writes none.                     *)

\* The entries that lead to a table are those on the way.
LEMMA WayEntries ==
  ASSUME NEW m, NEW root, NEW v, NEW t
  PROVE  /\ Leads(m, root, v, 2, t) =>
              Present(E4(m, root, v)) /\ Present(E3(m, root, v)) /\ E3(m, root, v).to = t
         /\ Leads(m, root, v, 1, t) =>
              /\ Upper(m, root, v) /\ "PS" \notin E2(m, root, v).flags
              /\ E2(m, root, v).to = t
<1>1. ASSUME NEW t3, Goes(m, root, PML4_IDX(v), t3)
      PROVE  Present(E4(m, root, v)) /\ E4(m, root, v).to = t3
  BY <1>1 DEF Goes, E4
<1>2. ASSUME NEW t3, NEW t2, Goes(m, root, PML4_IDX(v), t3), Goes(m, t3, PDPT_IDX(v), t2)
      PROVE  /\ Present(E4(m, root, v)) /\ Present(E3(m, root, v))
             /\ E3(m, root, v).to = t2
  BY <1>1, <1>2 DEF Goes, E3
<1>3. Leads(m, root, v, 2, t) =>
        Present(E4(m, root, v)) /\ Present(E3(m, root, v)) /\ E3(m, root, v).to = t
  BY <1>2 DEF Leads
<1>4. ASSUME Leads(m, root, v, 1, t)
      PROVE  Upper(m, root, v) /\ "PS" \notin E2(m, root, v).flags /\ E2(m, root, v).to = t
  <2>1. PICK t3, t2 : /\ Goes(m, root, PML4_IDX(v), t3) /\ Goes(m, t3, PDPT_IDX(v), t2)
                      /\ Goes(m, t2, PD_IDX(v), t)
    BY <1>4 DEF Leads
  <2>2. /\ Present(E4(m, root, v)) /\ Present(E3(m, root, v)) /\ E3(m, root, v).to = t2
    BY <1>2, <2>1
  <2> QED BY <2>1, <2>2 DEF Goes, E2, Upper
<1> QED
  BY <1>3, <1>4

\* What an entry makes of an address u of its page or huge page.
Leaf(e, n, u) ==
  IF n = HUGE_SIZE
  THEN [phys |-> AlignDown(e.to, HUGE_SIZE) + (u % HUGE_SIZE),
        flags |-> e.flags \ {"PS"}, size |-> HUGE_SIZE]
  ELSE [phys |-> e.to + (u % PAGE_SIZE), flags |-> e.flags, size |-> PAGE_SIZE]

\* An entry written in the page table of v translates the page of v.
LEMMA LeafWritten ==
  ASSUME NEW m, NEW root, NEW lev, TreeOf(m, root, lev), NEW v \in Address,
         NEW t \in DOMAIN m, lev[t] = 1, Leads(m, root, v, 1, t),
         NEW e \in PageTableEntries, Present(e),
         NEW u \in Address, u \div PAGE_SIZE = v \div PAGE_SIZE
  PROVE  Translate([m EXCEPT ![t][PT_IDX(v)] = e], root, u) = Leaf(e, PAGE_SIZE, u)
<1> DEFINE i == PT_IDX(v)
           w == [m EXCEPT ![t][i] = e]
<1>1. m \in Memories /\ i \in Idx
  BY Indexes DEF TreeOf
<1>2. /\ w \in Memories /\ DOMAIN w = DOMAIN m
      /\ \A x \in DOMAIN m, j \in Idx : w[x][j] = IF x = t /\ j = i THEN e ELSE m[x][j]
      /\ \A x \in DOMAIN m : x # t => w[x] = m[x]
  BY <1>1, Written
<1>3. PT_IDX(u) = i
  BY SameBlock
<1>4. Upper(m, root, u) /\ "PS" \notin E2(m, root, u).flags /\ E2(m, root, u).to = t
  <2>1. /\ E4(m, root, u) = E4(m, root, v) /\ E3(m, root, u) = E3(m, root, v)
        /\ E2(m, root, u) = E2(m, root, v)
    BY SameEntries
  <2> QED BY <2>1, WayEntries DEF Upper
<1> HIDE DEF w, i
<1>5. E4(w, root, u) = E4(m, root, u)
  <2>1. root \in DOMAIN m /\ root # t
    BY Descent
  <2> QED BY <1>2, <2>1 DEF E4
<1>6. E3(w, root, u) = E3(m, root, u)
  <2>1. E4(m, root, u).to \in DOMAIN m /\ E4(m, root, u).to # t
    BY <1>4, Descent DEF Upper
  <2> QED BY <1>2, <1>5, <2>1 DEF E3
<1>7. E2(w, root, u) = E2(m, root, u)
  <2>1. E3(m, root, u).to \in DOMAIN m /\ E3(m, root, u).to # t
    BY <1>4, Descent DEF Upper
  <2> QED BY <1>2, <1>6, <2>1 DEF E2
<1>8. E1(w, root, u) = e
  BY <1>1, <1>2, <1>3, <1>4, <1>7 DEF E1
<1>9. SmallPage(w, root, u)
  BY <1>4, <1>5, <1>6, <1>7, <1>8 DEF SmallPage, Upper
<1>10. Translate(w, root, u) =
         [phys |-> e.to + (u % PAGE_SIZE), flags |-> e.flags, size |-> PAGE_SIZE]
  BY <1>8, <1>9, Translation
<1>11. PAGE_SIZE # HUGE_SIZE
  BY SpansGrow, Geometry
<1> QED
  BY <1>10, <1>11 DEF Leaf, w, i

\* An entry of a huge page in the page directory of v translates the huge page of v.
LEMMA DirectoryWritten ==
  ASSUME NEW m, NEW root, NEW lev, TreeOf(m, root, lev), NEW v \in Address,
         NEW t \in DOMAIN m, lev[t] = 2, Leads(m, root, v, 2, t),
         NEW e \in PageTableEntries, Present(e), "PS" \in e.flags,
         NEW u \in Address, u \div HUGE_SIZE = v \div HUGE_SIZE
  PROVE  Translate([m EXCEPT ![t][PD_IDX(v)] = e], root, u) = Leaf(e, HUGE_SIZE, u)
<1> DEFINE i == PD_IDX(v)
           w == [m EXCEPT ![t][i] = e]
<1>1. m \in Memories /\ i \in Idx
  BY Indexes DEF TreeOf
<1>2. /\ w \in Memories /\ DOMAIN w = DOMAIN m
      /\ \A x \in DOMAIN m, j \in Idx : w[x][j] = IF x = t /\ j = i THEN e ELSE m[x][j]
      /\ \A x \in DOMAIN m : x # t => w[x] = m[x]
  BY <1>1, Written
<1>3. PD_IDX(u) = i
  BY SameBlock
<1>4. Present(E4(m, root, u)) /\ Present(E3(m, root, u)) /\ E3(m, root, u).to = t
  <2>1. E4(m, root, u) = E4(m, root, v) /\ E3(m, root, u) = E3(m, root, v)
    BY SameEntries
  <2> QED BY <2>1, WayEntries
<1> HIDE DEF w, i
<1>5. E4(w, root, u) = E4(m, root, u)
  <2>1. root \in DOMAIN m /\ root # t
    BY Descent
  <2> QED BY <1>2, <2>1 DEF E4
<1>6. E3(w, root, u) = E3(m, root, u)
  <2>1. E4(m, root, u).to \in DOMAIN m /\ E4(m, root, u).to # t
    BY <1>4, Descent
  <2> QED BY <1>2, <1>5, <2>1 DEF E3
<1>7. E2(w, root, u) = e
  BY <1>1, <1>2, <1>3, <1>4, <1>6 DEF E2
<1>8. HugePage(w, root, u)
  BY <1>4, <1>5, <1>6, <1>7 DEF HugePage, Upper
<1>9. Translate(w, root, u) =
        [phys |-> AlignDown(e.to, HUGE_SIZE) + (u % HUGE_SIZE), flags |-> e.flags \ {"PS"},
         size |-> HUGE_SIZE]
  BY <1>7, <1>8, Translation
<1> QED
  BY <1>9 DEF Leaf, w, i

\* ensure_table reaches no table only when no page is free for one, and a huge page only
\* when v lies in one.
Reasons(s, v) ==
  /\ s.at = nullptr /\ ~s.huge => s.free = {}
  /\ s.huge => Lookup(v).size = HUGE_SIZE
  /\ s.fault => g_hh_enabled
  /\ DOMAIN mem \subseteq DOMAIN s.mem
  /\ DOMAIN s.mem \cup s.free \subseteq DOMAIN mem \cup free

LEMMA EnsureReasons ==
  ASSUME NEW s, NEW lev, NEW v \in Address, NEW l \in {2, 3, 4},
         Sound(s, lev), Arrived(s, lev, v, l), ~s.huge, Reasons(s, v)
  PROVE  Reasons(ensure_table(s, Index(v, l)), v)
<1> DEFINE i == Index(v, l)
           e == s.mem[s.at][i]
           n == ensure_table(s, i)
<1>1. /\ s \in Walks /\ TreeOf(s.mem, g_pml4_p, lev) /\ s.mem \in Memories
      /\ s.free \in SUBSET (Nat \ {0})
  BY DEF Sound, TreeOf, Walks, nullptr
<1>2. i \in Idx /\ (l = 4 => i # ENTRIES - 2) /\ (l = 2 => i = PD_IDX(v))
  BY Indexes DEF Index
<1>3. CASE s.at = nullptr \/ s.fault
  <2>1. n = s
    BY <1>3 DEF ensure_table
  <2> QED BY <2>1
<1> HIDE DEF i
<1>4. CASE s.at # nullptr /\ ~s.fault /\ ~Accessible(s, s.at)
  <2>1. n = Misses(s, HH(s.at))
    BY <1>4 DEF ensure_table
  <2>a. HH(s.at) \in Nat
    BY <1>1, HigherHalfType DEF Walks
  <2> HIDE DEF n
  <2>2. n.at = s.at /\ n.huge = s.huge /\ n.mem = s.mem /\ n.free = s.free
    BY <1>1, <2>1, <2>a, MissingWalk
  <2>3. g_hh_enabled
    BY <1>4 DEF Accessible, Reaches
  <2>4. Reasons(n, v)
    BY <1>4, <2>2, <2>3 DEF Reasons
  <2> QED BY <2>4 DEF n, i
<1>5. CASE s.at # nullptr /\ ~s.fault /\ Accessible(s, s.at)
  <2>1. s.at \in DOMAIN s.mem /\ lev[s.at] = l /\ Leads(s.mem, g_pml4_p, v, l, s.at)
    BY <1>5 DEF Arrived
  <2>2. e \in PageTableEntries
    BY <1>1, <1>2, <2>1, MemoryType
  <2>3. CASE Present(e)
    <3>1. n = [s EXCEPT !.at = e.to, !.huge = "PS" \in e.flags]
      BY <1>5, <2>3 DEF ensure_table
    <3> DEFINE b == "PS" \in e.flags
    <3>2. b \in BOOLEAN /\ e.to \in Nat
      BY <2>2 DEF PageTableEntries
    <3> HIDE DEF n, b, e
    <3>3. n = [s EXCEPT !.at = e.to, !.huge = b]
      BY <3>1 DEF b
    <3>4. n.at = e.to /\ n.huge = b /\ n.mem = s.mem /\ n.free = s.free /\ n.fault = s.fault
      BY <1>1, <3>2, <3>3 DEF Walks
    <3>5. ASSUME ~n.huge PROVE n.at # nullptr
      <4>1. "PS" \notin e.flags
        BY <3>4, <3>5 DEF b
      <4>2. ~(s.at = g_pml4_p /\ i = ENTRIES - 2)
        <5>1. s.at = g_pml4_p => l = 4
          BY <1>1, <2>1 DEF TreeOf
        <5> QED BY <1>2, <5>1
      <4>3. Link(s.mem, g_pml4_p, lev, s.at, i)
        BY <2>1, <2>3, <4>1, <4>2 DEF Link, e
      <4>4. e.to \in DOMAIN s.mem
        BY <1>1, <1>2, <2>1, <4>3 DEF TreeOf, e
      <4> QED BY <1>1, <3>4, <4>4, MemoryType DEF nullptr
    <3>6. ASSUME n.huge PROVE Lookup(v).size = HUGE_SIZE
      <4>1. "PS" \in e.flags
        BY <3>4, <3>6 DEF b
      <4>2. l = 2
        BY <1>1, <1>2, <2>1, <4>1 DEF TreeOf, e
      <4>3. e = E2(s.mem, g_pml4_p, v) /\ Present(E4(s.mem, g_pml4_p, v))
            /\ Present(E3(s.mem, g_pml4_p, v))
        <5>1. Leads(s.mem, g_pml4_p, v, 2, s.at)
          BY <2>1, <4>2
        <5>2. /\ Present(E4(s.mem, g_pml4_p, v)) /\ Present(E3(s.mem, g_pml4_p, v))
              /\ E3(s.mem, g_pml4_p, v).to = s.at
          BY <5>1, WayEntries
        <5> QED BY <1>2, <4>2, <5>2 DEF E2, e
      <4>4. HugePage(s.mem, g_pml4_p, v)
        BY <2>3, <4>1, <4>3 DEF HugePage, Upper
      <4>5. Translate(s.mem, g_pml4_p, v).size = HUGE_SIZE
        BY <4>4, Translation
      <4> QED BY <4>5 DEF Sound
    <3>7. Reasons(n, v)
      BY <3>4, <3>5, <3>6 DEF Reasons
    <3> QED BY <3>7 DEF n, i
  <2>4. CASE ~Present(e) /\ s.free = {}
    <3>1. n = [s EXCEPT !.at = nullptr]
      BY <1>5, <2>4 DEF ensure_table
    <3> HIDE DEF n
    <3>2. n.free = s.free /\ n.huge = s.huge /\ n.mem = s.mem /\ n.fault = s.fault
      BY <1>1, <3>1 DEF Walks
    <3>3. Reasons(n, v)
      BY <2>4, <3>2 DEF Reasons
    <3> QED BY <3>3 DEF n, i
  <2>5. CASE ~Present(e) /\ s.free # {} /\ Reaches(s.mem, Lowest(s.free), Lowest(s.free))
    <3> DEFINE p == Lowest(s.free)
               w == Linked(s.mem, s.at, i, p)
    <3>1. p \in Nat \ {0} /\ p \in s.free
      <4>1. p \in s.free
        BY <1>1, <2>5, LowestIsIn
      <4> QED BY <1>1, <4>1
    <3>2. n = [s EXCEPT !.mem = w, !.free = s.free \ {p}, !.at = p]
      <4>1. n = NewTable(s, i)
        BY <1>5, <2>5 DEF ensure_table
      <4>2. NewTable(s, i) = new_table(s, i, s.free \ {p})
        BY DEF NewTable
      <4>3. new_table(s, i, s.free \ {p}) =
              [s EXCEPT !.mem = w, !.free = s.free \ {p}, !.at = p]
        BY <2>5 DEF new_table, Linked
      <4> QED BY <4>1, <4>2, <4>3
    <3>4. DOMAIN w = DOMAIN s.mem \cup {p}
      BY DEF Linked
    <3> HIDE DEF n, p, w
    <3>5. /\ n.at = p /\ n.huge = s.huge /\ n.mem = w /\ n.free = s.free \ {p}
          /\ n.fault = s.fault
      BY <1>1, <3>2 DEF Walks
    <3>6. Reasons(n, v)
      BY <3>1, <3>4, <3>5 DEF Reasons, nullptr
    <3> QED BY <3>6 DEF n, i
  <2>6. CASE ~Present(e) /\ s.free # {} /\ ~Reaches(s.mem, Lowest(s.free), Lowest(s.free))
    <3> DEFINE p == Lowest(s.free)
               q == [s EXCEPT !.free = s.free \ {p}]
    <3>1. p \in Nat
      <4>1. p \in s.free
        BY <1>1, <2>6, LowestIsIn
      <4> QED BY <1>1, <4>1
    <3>2. n = Misses(q, p)
      <4>1. n = NewTable(s, i)
        BY <1>5, <2>6 DEF ensure_table
      <4>2. NewTable(s, i) = new_table(s, i, s.free \ {p})
        BY DEF NewTable
      <4>3. new_table(s, i, s.free \ {p}) = Misses(q, p)
        BY <2>6 DEF new_table
      <4> QED BY <4>1, <4>2, <4>3
    <3>3. g_hh_enabled
      BY <2>6 DEF Reaches
    <3> HIDE DEF n, p
    <3>4. q \in Walks /\ q.mem = s.mem /\ q.free = s.free \ {p} /\ q.huge = s.huge /\ q.at = s.at
      BY <1>1 DEF Walks
    <3> HIDE DEF q
    <3>5. /\ n.mem = s.mem /\ n.free = s.free \ {p} /\ n.fault /\ n.huge = s.huge
          /\ n.at = s.at
      BY <3>1, <3>2, <3>4, MissingWalk
    <3>6. Reasons(n, v)
      BY <1>5, <3>3, <3>5 DEF Reasons
    <3> QED BY <3>6 DEF n, i
  <2> QED BY <2>3, <2>4, <2>5, <2>6
<1> QED
  BY <1>3, <1>4, <1>5

\* What mapping n bytes of memory at phys with these flags does at v: it translates the
\* block of v, or it changes no translation, for a reason.
Does(s, v, phys, flags, n) ==
  /\ Reasons(s, v)
  /\ s.huge => n = PAGE_SIZE
  /\ IF s.fault \/ s.huge \/ s.at = nullptr
     THEN \A u \in Address : Translate(s.mem, g_pml4_p, u) = Lookup(u)
     ELSE \A u \in Address : u \div n = v \div n =>
            Translate(s.mem, g_pml4_p, u) =
              [phys |-> AlignDown(phys, n) + (u % n),
               flags |-> (IF n = HUGE_SIZE THEN flags \ {"PS"} ELSE flags) \cup {"P"},
               size |-> n]

\* store writes the entry, or leaves the tables as they are.
LEMMA StoreDoes ==
  ASSUME NEW s, NEW k, NEW v \in Address, Sound(s, k), Reasons(s, v),
         NEW l \in {1, 2}, Arrived(s, k, v, l),
         NEW i, i = IF l = 1 THEN PT_IDX(v) ELSE PD_IDX(v),
         NEW n, n = IF l = 1 THEN PAGE_SIZE ELSE HUGE_SIZE,
         NEW e \in PageTableEntries, Present(e), l = 2 => "PS" \in e.flags
  PROVE  LET r == store(s, i, e) IN
         /\ Reasons(r, v) /\ r.huge = s.huge
         /\ IF r.fault \/ r.huge \/ r.at = nullptr
            THEN \A u \in Address : Translate(r.mem, g_pml4_p, u) = Lookup(u)
            ELSE \A u \in Address : u \div n = v \div n =>
                   Translate(r.mem, g_pml4_p, u) = Leaf(e, n, u)
<1> DEFINE r == store(s, i, e)
           w == [s.mem EXCEPT ![s.at][i] = e]
<1>1. s \in Walks /\ TreeOf(s.mem, g_pml4_p, k)
      /\ \A u \in Address : Translate(s.mem, g_pml4_p, u) = Lookup(u)
  BY DEF Sound
<1>2. CASE s.at = nullptr \/ s.fault \/ (Accessible(s, s.at) /\ s.huge)
  <2>1. r = s
    BY <1>2 DEF store
  <2> QED BY <1>1, <1>2, <2>1
<1>3. CASE ~(s.at = nullptr \/ s.fault) /\ ~Accessible(s, s.at)
  <2>1. r = Misses(s, HH(s.at))
    BY <1>3 DEF store
  <2>a. HH(s.at) \in Nat
    BY <1>1, HigherHalfType DEF Walks
  <2> HIDE DEF r
  <2>2. /\ r.mem = s.mem /\ r.free = s.free /\ r.at = s.at /\ r.huge = s.huge
        /\ r.fault
    BY <1>1, <2>1, <2>a, MissingWalk
  <2>3. g_hh_enabled
    BY <1>3 DEF Accessible, Reaches
  <2>4. Reasons(r, v)
    BY <2>2, <2>3 DEF Reasons
  <2> SUFFICES /\ Reasons(r, v) /\ r.huge = s.huge
               /\ \A u \in Address : Translate(r.mem, g_pml4_p, u) = Lookup(u)
    BY <2>2 DEF r
  <2> QED BY <1>1, <2>2, <2>4
<1>4. CASE ~(s.at = nullptr \/ s.fault) /\ Accessible(s, s.at) /\ ~s.huge
  <2>1. r = [s EXCEPT !.mem[s.at][i] = e]
    BY <1>4 DEF store
  <2>2. s.at \in DOMAIN s.mem /\ k[s.at] = l /\ Leads(s.mem, g_pml4_p, v, l, s.at)
    BY <1>4 DEF Arrived
  <2> HIDE DEF r
  <2>3. r.mem = w /\ r.free = s.free /\ r.at = s.at /\ r.huge = s.huge /\ r.fault = s.fault
    BY <1>1, <2>1 DEF Walks
  <2>4. Reasons(r, v)
    <3>1. DOMAIN r.mem = DOMAIN s.mem
      BY <2>3
    <3> QED BY <2>3, <3>1 DEF Reasons
  <2>5. ASSUME NEW u \in Address, u \div n = v \div n
        PROVE  Translate(w, g_pml4_p, u) = Leaf(e, n, u)
    <3>1. CASE l = 1
      BY <1>1, <2>2, <2>5, <3>1, LeafWritten
    <3>2. CASE l = 2
      BY <1>1, <2>2, <2>5, <3>2, DirectoryWritten
    <3> QED BY <3>1, <3>2
  <2> HIDE DEF w
  <2> SUFFICES /\ Reasons(r, v) /\ r.huge = s.huge
               /\ \A u \in Address : u \div n = v \div n =>
                    Translate(r.mem, g_pml4_p, u) = Leaf(e, n, u)
    BY <1>4, <2>3 DEF r
  <2> QED BY <2>3, <2>4, <2>5
<1> QED
  BY <1>2, <1>3, <1>4

\* The page directory is reached, or there is a reason.
LEMMA DirectoryReasons ==
  ASSUME Tree, FreeInv, NEW v \in Address, NEW s \in pd_of(v)
  PROVE  \E k : Sound(s, k) /\ Arrived(s, k, v, 2) /\ ~s.huge /\ Reasons(s, v)
<1>1. PICK lev : TreeOf(mem, g_pml4_p, lev)
  BY DEF Tree
<1>2. g_pml4_p \in Nat \ {0} /\ mem \in Memories
  BY <1>1, MemoryType DEF TreeOf
<1>3. Here \in Walks /\ Here.mem = mem /\ Here.free = free /\ Here.at = g_pml4_p /\ ~Here.huge
  BY <1>2 DEF Here, Walks, FreeInv
<1>4. Sound(Here, lev) /\ Arrived(Here, lev, v, 4)
  BY <1>1, <1>3, Descent DEF Sound, FreeInv, Lookup, Arrived
<1>5. Reasons(Here, v)
  <2>1. ~Here.fault
    BY DEF Here
  <2> QED BY <1>2, <1>3, <2>1 DEF Reasons, nullptr
<1> DEFINE r == ensure_table(Here, PML4_IDX(v))
<1>6. PICK k3 : Sound(r, k3) /\ Arrived(r, k3, v, 3) /\ ~r.huge /\ Reasons(r, v)
  <2>1. Index(v, 4) = PML4_IDX(v) /\ 4 - 1 = 3 /\ 4 > 2
    BY DEF Index
  <2>2. \E k : /\ Sound(ensure_table(Here, Index(v, 4)), k)
               /\ Arrived(ensure_table(Here, Index(v, 4)), k, v, 4 - 1)
               /\ 4 > 2 => ~ensure_table(Here, Index(v, 4)).huge
    BY <1>3, <1>4, EnsureTable
  <2>3. Reasons(ensure_table(Here, Index(v, 4)), v)
    BY <1>3, <1>4, <1>5, EnsureReasons
  <2> QED BY <2>1, <2>2, <2>3
<1> HIDE DEF r
<1>7. s = ensure_table(r, PDPT_IDX(v))
  BY DEF pd_of, r
<1>8. Index(v, 3) = PDPT_IDX(v) /\ 3 - 1 = 2 /\ 3 > 2
  BY DEF Index
<1>9. \E k : /\ Sound(ensure_table(r, Index(v, 3)), k)
             /\ Arrived(ensure_table(r, Index(v, 3)), k, v, 3 - 1)
             /\ 3 > 2 => ~ensure_table(r, Index(v, 3)).huge
  BY <1>6, EnsureTable
<1>10. Reasons(ensure_table(r, Index(v, 3)), v)
  BY <1>6, EnsureReasons
<1> QED
  BY <1>7, <1>8, <1>9, <1>10

LEMMA MapPageDoes ==
  ASSUME Tree, FreeInv, NEW v \in Address, NEW p \in Nat, NEW flags \in SUBSET PageFlags,
         NEW s \in map_page(v, p, flags)
  PROVE  Does(s, v, p, flags, PAGE_SIZE)
<1> DEFINE e == Entry(AlignDown(p, PAGE_SIZE), flags \cup {"P"})
<1>1. PICK pd \in pd_of(v) : s = store(ensure_table(pd, PD_IDX(v)), PT_IDX(v), e)
  BY DEF map_page
<1>2. PICK k2 : Sound(pd, k2) /\ Arrived(pd, k2, v, 2) /\ ~pd.huge /\ Reasons(pd, v)
  BY DirectoryReasons
<1> DEFINE t == ensure_table(pd, PD_IDX(v))
<1>3. PICK k : Sound(t, k) /\ Arrived(t, k, v, 1) /\ Reasons(t, v)
  <2>1. Index(v, 2) = PD_IDX(v) /\ 2 - 1 = 1
    BY DEF Index
  <2>2. \E k : /\ Sound(ensure_table(pd, Index(v, 2)), k)
               /\ Arrived(ensure_table(pd, Index(v, 2)), k, v, 2 - 1)
               /\ 2 > 2 => ~ensure_table(pd, Index(v, 2)).huge
    BY <1>2, EnsureTable
  <2>3. Reasons(ensure_table(pd, Index(v, 2)), v)
    BY <1>2, EnsureReasons
  <2> QED BY <2>1, <2>2, <2>3
<1>4. e \in PageTableEntries /\ Present(e) /\ e.to = AlignDown(p, PAGE_SIZE)
      /\ e.flags = flags \cup {"P"}
  <2>1. AlignDown(p, PAGE_SIZE) \in Nat
    BY Geometry, AlignedDown
  <2> QED BY <2>1 DEF Entry, PageTableEntries, PageFlags, Present
<1> HIDE DEF e, t
<1>5. s = store(t, PT_IDX(v), e)
  BY <1>1 DEF t
<1>6. /\ Reasons(s, v)
      /\ IF s.fault \/ s.huge \/ s.at = nullptr
         THEN \A u \in Address : Translate(s.mem, g_pml4_p, u) = Lookup(u)
         ELSE \A u \in Address : u \div PAGE_SIZE = v \div PAGE_SIZE =>
                Translate(s.mem, g_pml4_p, u) = Leaf(e, PAGE_SIZE, u)
  BY <1>3, <1>4, <1>5, StoreDoes
<1>7. PAGE_SIZE # HUGE_SIZE
  BY SpansGrow, Geometry
<1>8. ASSUME NEW u
      PROVE  Leaf(e, PAGE_SIZE, u) =
               [phys |-> AlignDown(p, PAGE_SIZE) + (u % PAGE_SIZE),
                flags |-> (IF PAGE_SIZE = HUGE_SIZE THEN flags \ {"PS"} ELSE flags) \cup {"P"},
                size |-> PAGE_SIZE]
  BY <1>4, <1>7 DEF Leaf
<1> QED
  BY <1>6, <1>7, <1>8 DEF Does

LEMMA MapHugeDoes ==
  ASSUME Tree, FreeInv, NEW v \in Address, NEW p \in Nat, NEW flags \in SUBSET PageFlags,
         NEW s \in map_huge(v, p, flags)
  PROVE  Does(s, v, p, flags, HUGE_SIZE)
<1> DEFINE a == AlignDown(p, HUGE_SIZE)
           e == Entry(a, flags \cup {"P", "PS"})
<1>1. PICK pd \in pd_of(v) : s = store(pd, PD_IDX(v), e)
  BY DEF map_huge
<1>2. PICK k : Sound(pd, k) /\ Arrived(pd, k, v, 2) /\ ~pd.huge /\ Reasons(pd, v)
  BY DirectoryReasons
<1>3. a \in Nat /\ AlignDown(a, HUGE_SIZE) = a
  <2>1. a \in Nat /\ a % HUGE_SIZE = 0 /\ HUGE_SIZE \in Nat \ {0}
    BY Geometry, AlignedDown
  <2> QED BY <2>1 DEF AlignDown
<1> HIDE DEF a
<1>4. e \in PageTableEntries /\ Present(e) /\ e.to = a /\ "PS" \in e.flags
      /\ e.flags \ {"PS"} = (flags \ {"PS"}) \cup {"P"}
  BY <1>3 DEF Entry, PageTableEntries, PageFlags, Present
<1> HIDE DEF e
<1>5. /\ Reasons(s, v) /\ s.huge = pd.huge
      /\ IF s.fault \/ s.huge \/ s.at = nullptr
         THEN \A u \in Address : Translate(s.mem, g_pml4_p, u) = Lookup(u)
         ELSE \A u \in Address : u \div HUGE_SIZE = v \div HUGE_SIZE =>
                Translate(s.mem, g_pml4_p, u) = Leaf(e, HUGE_SIZE, u)
  BY <1>1, <1>2, <1>4, StoreDoes
<1>6. ASSUME NEW u
      PROVE  Leaf(e, HUGE_SIZE, u) =
               [phys |-> a + (u % HUGE_SIZE),
                flags |-> (IF HUGE_SIZE = HUGE_SIZE THEN flags \ {"PS"} ELSE flags) \cup {"P"},
                size |-> HUGE_SIZE]
  BY <1>3, <1>4 DEF Leaf
<1> QED
  BY <1>2, <1>5, <1>6 DEF Does, a

------------------------------------------------------------------------------
(* The page tables implement the address space.                            *)

\* Nothing is asked for before there are tables.
OffInv == phase = "off" => g_pml4_p = nullptr /\ call = Idle

\* The definitions of PageTables, as AddressSpace has them.
LEMMA SameNames ==
  /\ Promised!HUGE_SIZE = HUGE_SIZE /\ Promised!NoPage = NoPage
  /\ \A a, n : Promised!AlignDown(a, n) = AlignDown(a, n)
  /\ \A a, b : Promised!Plus(a, b) = Plus(a, b)
BY DEF Promised!HUGE_SIZE, HUGE_SIZE, Promised!NoPage, NoPage, Promised!AlignDown, AlignDown,
       Promised!Plus, Plus, Promised!WORD, WORD, Promised!PML4_SPAN, PML4_SPAN,
       Promised!PDPT_SPAN, PDPT_SPAN

LEMMA ObservedAddresses == Pages \subseteq Address /\ Pages \subseteq Nat
<1>1. Pages \subseteq 0..(WORD - 1) /\ \A p \in Pages : Usable(p)
  BY AddressAssumption
<1> QED
  BY <1>1, Geometry DEF Address

LEMMA AroundIs ==
  ASSUME NEW v \in Nat, NEW n \in {PAGE_SIZE, HUGE_SIZE}
  PROVE  Promised!Around(v, n) = {p \in Pages : p \div n = v \div n}
<1>1. n \in Nat \ {0}
  BY Geometry
<1>2. v \div n \in Nat /\ AlignDown(v, n) = n * (v \div n)
  BY <1>1, AlignedDown
<1>3. Promised!Around(v, n) = {p \in Pages : p >= AlignDown(v, n) /\ p < AlignDown(v, n) + n}
  BY SameNames DEF Promised!Around, Promised!Block
<1>4. \A p \in Pages : p >= AlignDown(v, n) /\ p < AlignDown(v, n) + n <=> p \div n = v \div n
  <2> DEFINE k == v \div n
  <2>1. k \in Nat /\ AlignDown(v, n) = n * k
    BY <1>2
  <2> HIDE DEF k
  <2>2. \A p \in Pages : p >= n * k /\ p < n * k + n <=> p \div n = k
    BY <1>1, <2>1, InBlock, ObservedAddresses
  <2> QED BY <2>1, <2>2 DEF k
<1> QED
  BY <1>3, <1>4

\* What the space shows, once there is a root.
LEMMA SpaceShows ==
  /\ g_pml4_p # nullptr => \A p \in Pages : Space[p] = Lookup(p)
  /\ g_pml4_p' # nullptr => \A p \in Pages : Space'[p] = Translate(mem', g_pml4_p', p)
  /\ Space = [p \in Pages |-> Space[p]] /\ Space' = [p \in Pages |-> Space'[p]]
BY DEF Space, Lookup

LEMMA SpaceKept ==
  ASSUME g_pml4_p # nullptr, g_pml4_p' = g_pml4_p,
         \A u \in Address : Translate(mem', g_pml4_p, u) = Lookup(u)
  PROVE  Space' = Space
<1>1. \A p \in Pages : Space'[p] = Space[p]
  BY SpaceShows, ObservedAddresses
<1> QED
  BY <1>1, SpaceShows

LEMMA SpaceSet ==
  ASSUME g_pml4_p # nullptr, g_pml4_p' = g_pml4_p,
         NEW v \in Address, NEW n \in {PAGE_SIZE, HUGE_SIZE}, NEW phys, NEW flags,
         \A u \in Address : u \div n # v \div n => Translate(mem', g_pml4_p, u) = Lookup(u),
         \A u \in Address : u \div n = v \div n =>
           Translate(mem', g_pml4_p, u) =
             [phys |-> AlignDown(phys, n) + (u % n),
              flags |-> (IF n = HUGE_SIZE THEN flags \ {"PS"} ELSE flags) \cup {"P"},
              size |-> n]
  PROVE  Promised!Set(v, phys, flags, n)
<1>1. v \in Nat
  BY Indexes
<1>2. \A p \in Pages : p \in Promised!Around(v, n) <=> p \div n = v \div n
  BY <1>1, AroundIs
<1>3. \A p \in Pages :
        Space'[p] = IF p \in Promised!Around(v, n)
                    THEN Promised!To(AlignDown(phys, n) + (p % n), flags, n) ELSE Space[p]
  BY <1>2, SpaceShows, ObservedAddresses, SameNames DEF Promised!To
<1>4. Space' = [p \in Pages |->
                  IF p \in Promised!Around(v, n)
                  THEN Promised!To(AlignDown(phys, n) + (p % n), flags, n) ELSE Space[p]]
  BY <1>3, SpaceShows
<1> QED
  BY <1>4, SameNames DEF Promised!Set

LEMMA SpaceCleared ==
  ASSUME g_pml4_p # nullptr, g_pml4_p' = g_pml4_p,
         NEW v \in Address, NEW n \in {PAGE_SIZE, HUGE_SIZE},
         \A u \in Address : u \div n # v \div n => Translate(mem', g_pml4_p, u) = Lookup(u),
         \A u \in Address : u \div n = v \div n => Translate(mem', g_pml4_p, u) = NoPage
  PROVE  Promised!Clear(v, n)
<1>1. v \in Nat
  BY Indexes
<1>2. \A p \in Pages : p \in Promised!Around(v, n) <=> p \div n = v \div n
  BY <1>1, AroundIs
<1>3. \A p \in Pages : Space'[p] = IF p \in Promised!Around(v, n) THEN NoPage ELSE Space[p]
  BY <1>2, SpaceShows, ObservedAddresses
<1>4. Space' = [p \in Pages |-> IF p \in Promised!Around(v, n) THEN NoPage ELSE Space[p]]
  BY <1>3, SpaceShows
<1> QED
  BY <1>4, SameNames DEF Promised!Clear

\* A step that maps: the kernel is lost, or the address space is set, or nothing changes
\* for a reason.
LEMMA MappingPromised ==
  ASSUME g_pml4_p # nullptr, g_pml4_p' = g_pml4_p, phase \in {"init", "ready"},
         NEW v \in Address, NEW n \in {PAGE_SIZE, HUGE_SIZE}, NEW phys, NEW flags, NEW s,
         Maps(s, v, n), Does(s, v, phys, flags, n), Effect(s, v, n)
  PROVE  /\ s.fault <=> phase' \in {"faulted", "misdirected"}
         /\ s.huge => n = PAGE_SIZE
         /\ s.fault \/ s.huge \/ s.at = nullptr => UNCHANGED Space
         /\ s.huge => Promised!MayMiss(v) \/ Promised!Set(v, phys, flags, n)
         /\ s.at = nullptr /\ ~s.huge => free' = {}
         /\ ~(s.fault \/ s.huge \/ s.at = nullptr) => Promised!Set(v, phys, flags, n)
<1>1. mem' = s.mem /\ free' = s.free
  BY DEF Effect
<1>2. s.fault <=> phase' \in {"faulted", "misdirected"}
  BY DEF Effect, Missing, Strayed
<1>3. s.huge => n = PAGE_SIZE
  BY DEF Does
<1>4. s.at = nullptr /\ ~s.huge => free' = {}
  BY <1>1 DEF Does, Reasons
<1>5. ASSUME ~(s.fault \/ s.huge \/ s.at = nullptr)
      PROVE  Promised!Set(v, phys, flags, n)
  <2>1. \A u \in Address : u \div n # v \div n => Translate(mem', g_pml4_p, u) = Lookup(u)
    BY <1>1 DEF Maps
  <2>2. \A u \in Address : u \div n = v \div n =>
          Translate(mem', g_pml4_p, u) =
            [phys |-> AlignDown(phys, n) + (u % n),
             flags |-> (IF n = HUGE_SIZE THEN flags \ {"PS"} ELSE flags) \cup {"P"},
             size |-> n]
    BY <1>1, <1>5 DEF Does
  <2> QED BY <2>1, <2>2, SpaceSet
<1>6. ASSUME s.fault \/ s.huge \/ s.at = nullptr
      PROVE  UNCHANGED Space
  <2>1. \A u \in Address : Translate(mem', g_pml4_p, u) = Lookup(u)
    BY <1>1, <1>6 DEF Does
  <2> QED BY <2>1, SpaceKept
<1>7. ASSUME s.huge
      PROVE  Promised!MayMiss(v) \/ Promised!Set(v, phys, flags, n)
  <2>1. UNCHANGED Space
    BY <1>6, <1>7
  <2>2. n = PAGE_SIZE /\ Lookup(v).size = HUGE_SIZE
    BY <1>7 DEF Does, Reasons
  <2>3. Promised!Around(v, n) = {p \in Pages : p \div n = v \div n}
    BY AroundIs, Indexes
  <2>4. CASE \E p \in Promised!Around(v, n) : TRUE
    <3>1. PICK p \in Pages : p \div PAGE_SIZE = v \div PAGE_SIZE /\ p \in Promised!Around(v, n)
      BY <2>2, <2>3, <2>4
    <3>2. HugePage(mem, g_pml4_p, v)
      BY <2>2, NotHuge
    <3>3. HugePage(mem, g_pml4_p, p)
      <4>1. p \in Address
        BY ObservedAddresses
      <4>2. /\ E4(mem, g_pml4_p, p) = E4(mem, g_pml4_p, v)
            /\ E3(mem, g_pml4_p, p) = E3(mem, g_pml4_p, v)
            /\ E2(mem, g_pml4_p, p) = E2(mem, g_pml4_p, v)
        BY <3>1, <4>1, SameEntries
      <4> QED BY <3>2, <4>2 DEF HugePage, Upper
    <3>4. Space[p].size = HUGE_SIZE
      BY <3>1, <3>3, Sizes, SpaceShows
    <3> QED BY <2>2, <3>1, <3>4, SameNames DEF Promised!MayMiss
  <2>5. CASE ~ \E p \in Promised!Around(v, n) : TRUE
    <3>1. Space' = [p \in Pages |->
                      IF p \in Promised!Around(v, n)
                      THEN Promised!To(Promised!AlignDown(phys, n) + (p % n), flags, n)
                      ELSE Space[p]]
      BY <2>1, <2>5, SpaceShows
    <3> QED BY <3>1 DEF Promised!Set
  <2> QED BY <2>4, <2>5
<1> QED
  BY <1>2, <1>3, <1>4, <1>5, <1>6, <1>7

\* unmap_page leaves a huge page alone, and where no page is there is none to remove.
LEMMA IgnoringPromised ==
  ASSUME g_pml4_p # nullptr, UNCHANGED <<mem, g_pml4_p>>, NEW v \in Address,
         ~SmallPage(mem, g_pml4_p, v)
  PROVE  IF \E p \in Promised!Around(v, PAGE_SIZE) : Space[p].size = HUGE_SIZE
         THEN UNCHANGED Space ELSE Promised!Clear(v, PAGE_SIZE)
<1>1. Space' = Space
  BY DEF Space, Lookup
<1>2. SUFFICES ASSUME \A p \in Promised!Around(v, PAGE_SIZE) : Space[p].size # HUGE_SIZE
               PROVE  Promised!Clear(v, PAGE_SIZE)
  BY <1>1
<1>3. ASSUME NEW p \in Promised!Around(v, PAGE_SIZE) PROVE Space[p] = NoPage
  <2>1. p \in Pages /\ p \in Address /\ p \div PAGE_SIZE = v \div PAGE_SIZE
    <3>1. v \in Nat
      BY Indexes
    <3>2. Promised!Around(v, PAGE_SIZE) = {q \in Pages : q \div PAGE_SIZE = v \div PAGE_SIZE}
      BY <3>1, AroundIs
    <3>3. p \in {q \in Pages : q \div PAGE_SIZE = v \div PAGE_SIZE}
      BY <1>3, <3>2
    <3> QED BY <3>3, ObservedAddresses
  <2>2. Space[p] = Lookup(p)
    BY <2>1, SpaceShows
  <2>3. ~HugePage(mem, g_pml4_p, p)
    BY <1>2, <1>3, <2>2, Sizes
  <2>4. ~SmallPage(mem, g_pml4_p, p)
    <3>1. /\ E4(mem, g_pml4_p, p) = E4(mem, g_pml4_p, v)
          /\ E3(mem, g_pml4_p, p) = E3(mem, g_pml4_p, v)
          /\ E2(mem, g_pml4_p, p) = E2(mem, g_pml4_p, v)
          /\ E1(mem, g_pml4_p, p) = E1(mem, g_pml4_p, v)
      BY <2>1, SameEntries
    <3> QED BY <3>1 DEF SmallPage, Upper
  <2> QED BY <2>2, <2>3, <2>4, Translation DEF Lookup
<1>4. Space' = [p \in Pages |-> IF p \in Promised!Around(v, PAGE_SIZE) THEN NoPage ELSE Space[p]]
  BY <1>1, <1>3, SpaceShows
<1> QED
  BY <1>4, SameNames DEF Promised!Clear

\* Where unmap_page finds nothing to clear, no page is.
LEMMA UnmapPageIgnores ==
  ASSUME Tree, NEW v \in Address, unmap_page_ignores(v)
  PROVE  UNCHANGED <<mem, phase>> /\ ~SmallPage(mem, g_pml4_p, v)
<1>1. SUFFICES ASSUME SmallPage(mem, g_pml4_p, v) PROVE FALSE
  BY DEF unmap_page_ignores
<1>2. PICK lev : TreeOf(mem, g_pml4_p, lev)
  BY DEF Tree
<1>3. /\ pde(v) = E2(mem, g_pml4_p, v) /\ pte(v) = E1(mem, g_pml4_p, v)
      /\ Hole(v) \in {0, PAGE_SIZE}
  BY <1>1, HoleTells
<1>4. pde(v).to \in DOMAIN mem /\ pde(v).to # nullptr
  <2>1. pde(v).to \in DOMAIN mem
    BY <1>1, <1>2, <1>3, Descent DEF SmallPage
  <2>2. DOMAIN mem \subseteq Nat \ {0}
    BY <1>2, MemoryType DEF TreeOf
  <2> QED BY <2>1, <2>2 DEF nullptr
<1>5. PageTable(v) # {}
  BY <1>3, <1>4 DEF PageTable
<1>6. Present(mem[pde(v).to][PT_IDX(v)])
  BY <1>1, <1>3 DEF SmallPage, pte
<1> QED
  BY <1>4, <1>5, <1>6 DEF unmap_page_ignores, MayBePresent

\* A step that removes the huge page or the page of v.
LEMMA ClearingPromised ==
  ASSUME Tree, g_pml4_p # nullptr, NEW v \in Address, NEW n \in {PAGE_SIZE, HUGE_SIZE},
         Clearing(v, n)
  PROVE  /\ Promised!Clear(v, n)
         /\ \A p \in Promised!Around(v, n) : Space[p].size = n
<1>1. PICK lev : TreeOf(mem, g_pml4_p, lev)
  BY DEF Tree
<1>2. /\ \A u \in Address : u \div n # v \div n => Translate(mem', g_pml4_p, u) = Lookup(u)
      /\ \A u \in Address : u \div n = v \div n => Translate(mem', g_pml4_p, u) = NoPage
  BY <1>1, ClearHuge, ClearPage DEF Clearing
<1>3. Promised!Clear(v, n)
  BY <1>2, SpaceCleared DEF Clearing
<1>4. ASSUME NEW p \in Promised!Around(v, n) PROVE Space[p].size = n
  <2>1. p \in Pages /\ p \in Address /\ p \div n = v \div n
    <3>1. v \in Nat
      BY Indexes
    <3>2. Promised!Around(v, n) = {q \in Pages : q \div n = v \div n}
      BY <3>1, AroundIs
    <3>3. p \in {q \in Pages : q \div n = v \div n}
      BY <1>4, <3>2
    <3> QED BY <3>3, ObservedAddresses
  <2>2. CASE n = HUGE_SIZE /\ HugePage(mem, g_pml4_p, v)
    <3>1. /\ E4(mem, g_pml4_p, p) = E4(mem, g_pml4_p, v)
          /\ E3(mem, g_pml4_p, p) = E3(mem, g_pml4_p, v)
          /\ E2(mem, g_pml4_p, p) = E2(mem, g_pml4_p, v)
      BY <2>1, <2>2, SameEntries
    <3>2. HugePage(mem, g_pml4_p, p)
      BY <2>2, <3>1 DEF HugePage, Upper
    <3> QED BY <2>1, <2>2, <3>2, Sizes, SpaceShows
  <2>3. CASE n = PAGE_SIZE /\ SmallPage(mem, g_pml4_p, v)
    <3>1. /\ E4(mem, g_pml4_p, p) = E4(mem, g_pml4_p, v)
          /\ E3(mem, g_pml4_p, p) = E3(mem, g_pml4_p, v)
          /\ E2(mem, g_pml4_p, p) = E2(mem, g_pml4_p, v)
          /\ E1(mem, g_pml4_p, p) = E1(mem, g_pml4_p, v)
      BY <2>1, <2>3, SameEntries
    <3>2. SmallPage(mem, g_pml4_p, p)
      BY <2>3, <3>1 DEF SmallPage, Upper
    <3> QED BY <2>1, <2>3, <3>2, Sizes, SpaceShows
  <2> QED BY <2>2, <2>3 DEF Clearing
<1> QED
  BY <1>3, <1>4

LEMMA InitOff == Init => OffInv
BY DEF Init, OffInv

LEMMA OffStep == OffInv /\ TreeInv /\ [Next]_vars => OffInv'
<1> SUFFICES ASSUME OffInv, TreeInv, [Next]_vars, phase' = "off"
             PROVE  UNCHANGED <<g_pml4_p, call>> /\ phase = "off"
  BY DEF OffInv
<1> QED
  BY DEF Next, init, range_step, api, init_root, init_fails, init_range, init_descriptor,
     init_higher_half, reads, init_switch, map_range_huge, map_range_page, map_range_runs_away,
     range_done, unmap_range_skip, skips_to, unmap_range_huge, unmap_range_page, removes_page,
     unmap_range_wraps, unmap_range_fault, call_range, call_map_page, call_unmap_page,
     call_get_phys, call_faults, Begin, unmap_page_clears, unmap_page_ignores, Strayed, Missing,
     tlb_fill, Stopped, vars, machine, history, Running, Unmapping, Effect

\* map_range advances as the call of the address space does: nothing wraps in its size.
LEMMA AdvanceIs ==
  ASSUME Fits(call), call.op = "map_range", NEW n \in {PAGE_SIZE, HUGE_SIZE}, call.size >= n
  PROVE  Advance(n) = Promised!Onward(n)
<1> DEFINE c1 == [call EXCEPT !.virt = Plus(@, n)]
           c2 == [c1 EXCEPT !.phys = Plus(@, n)]
<1>1. call.size \in Nat /\ call.size < WORD /\ n \in Nat \ {0} /\ WORD \in Nat \ {0}
  BY Geometry DEF Fits
<1>2. Minus(call.size, n) = call.size - n
  BY <1>1, Small DEF Minus
<1>3. c2.size = call.size
  BY DEF Fits, Call
<1>4. Advance(n) = [c2 EXCEPT !.size = Minus(c2.size, n)]
  BY DEF Advance
<1>5. Promised!Onward(n) = [c2 EXCEPT !.size = c2.size - n]
  BY SameNames DEF Promised!Onward
<1> HIDE DEF c2
<1> QED
  BY <1>2, <1>3, <1>4, <1>5

\* Every step is one the address space may take.
LEMMA SpaceStep ==
  ASSUME FitInv, TreeInv, OffInv, [Next]_vars
  PROVE  Promised!Next \/ UNCHANGED Promised!vars
<1> DEFINE Goal == Promised!Next \/ UNCHANGED Promised!vars
           Gone(p) == p \in {"faulted", "misdirected"}
<1>1. Fits(call)
  BY DEF FitInv
<1>2. phase \in {"init", "ready"} => g_pml4_p # nullptr /\ Tree /\ FreeInv
  BY DEF TreeInv
<1>3. Idle.op = "none"
  BY DEF Idle, Call
\* A step of a kernel that lives on, and one that loses it.
<1>lives. ASSUME ~Gone(phase), ~Gone(phase'),
             \/ Promised!Keep \/ Promised!Ask \/ Promised!LookUp
             \/ Promised!Map(PAGE_SIZE) \/ Promised!Map(HUGE_SIZE) \/ Promised!MapMissing
             \/ Promised!Unmap(PAGE_SIZE) \/ Promised!Unmap(HUGE_SIZE)
             \/ Promised!PassOver \/ Promised!Finish
             \/ Promised!MapPage \/ Promised!UnmapPage
      PROVE  Goal
  BY <1>lives, SameNames DEF Promised!Next
<1>dies. ASSUME ~Gone(phase), Gone(phase'), Space' = Space PROVE Goal
  BY <1>dies DEF Promised!Next, Promised!Die
<1> SUFFICES Goal
  OBVIOUS
<1> HIDE DEF Goal
\* Nothing happens to the tables.
<1>4. ASSUME UNCHANGED <<mem, g_pml4_p>> PROVE Space' = Space
  BY <1>4 DEF Space, Lookup
<1>5. ASSUME UNCHANGED <<mem, g_pml4_p, call, last>>, ~Gone(phase) PROVE Goal
  <2>1. CASE Gone(phase')
    BY <1>4, <1>5, <1>dies, <2>1
  <2>2. CASE ~Gone(phase')
    <3>1. Promised!Keep
      BY <1>4, <1>5 DEF Promised!Keep
    <3> QED BY <1>5, <1>lives, <2>2, <3>1
  <2> QED BY <2>1, <2>2
<1>stays. ASSUME UNCHANGED vars PROVE Goal
  <2>1. UNCHANGED <<mem, g_pml4_p, call, last, free, phase>>
    BY <1>stays DEF vars
  <2>2. Space' = Space
    BY <1>4, <2>1
  <2> QED BY <2>1, <2>2 DEF Promised!vars, Goal
<1>asks. ASSUME call = Idle, call' \in RangeCalls, UNCHANGED <<mem, g_pml4_p, last, phase>>, ~Gone(phase)
      PROVE  Goal
  <2>1. CASE call'.op = "map_range"
    <3>1. Promised!Ask
      BY <1>3, <1>4, <1>asks, <2>1 DEF Promised!Ask
    <3> QED BY <1>lives, <1>asks, <3>1
  <2>2. CASE call'.op # "map_range"
    <3>1. call' = Idle
      BY <1>asks, <2>2 DEF RangeCalls
    <3> QED BY <1>5, <1>asks, <3>1
  <2> QED BY <2>1, <2>2
<1>6. CASE UNCHANGED vars
  BY <1>stays, <1>6
<1>7. CASE init_root
  <2>1. g_pml4_p = nullptr /\ call = Idle /\ free \in SUBSET (Nat \ {nullptr})
    BY <1>7 DEF init_root, OffInv, TreeInv, FreeInv
  <2>2. PICK root \in free :
          /\ g_pml4_p' = root /\ mem' = RootMemory(root)
    BY <1>7 DEF init_root, RootMemory
  <2>3. root # nullptr
    BY <2>1, <2>2
  <2>4. ASSUME NEW p \in Pages PROVE Space'[p] = Space[p]
    <3>1. Space[p] = NoPage
      BY <2>1 DEF Space
    <3>2. Translate(RootMemory(root), root, p) = NoPage
      BY RootMapsNothing, ObservedAddresses
    <3> QED BY <2>2, <2>3, <3>1, <3>2, SpaceShows
  <2>5. Space' = Space
    BY <2>4, SpaceShows
  <2>6. UNCHANGED <<call, last>> /\ ~Gone(phase) /\ ~Gone(phase')
    BY <1>7 DEF init_root, history
  <2>7. Promised!Keep
    BY <2>5, <2>6 DEF Promised!Keep
  <2> QED BY <1>lives, <2>6, <2>7
<1>8. CASE \/ init_fails \/ init_switch \/ map_range_runs_away
           \/ unmap_range_wraps \/ unmap_range_fault
  <2>1. UNCHANGED <<mem, g_pml4_p, call, last>> /\ ~Gone(phase)
    BY <1>8 DEF init_fails, init_switch, map_range_runs_away, unmap_range_wraps, unmap_range_fault,
                Unmapping, Running, machine, history
  <2> QED BY <1>5, <2>1
<1>9. CASE init_range \/ init_descriptor \/ init_higher_half
  <2>1. /\ phase = "init" /\ call = Idle /\ todo # <<>>
        /\ UNCHANGED <<mem, g_pml4_p, last, phase>>
    BY <1>9 DEF init_range, init_descriptor, init_higher_half, reads, machine, history
  <2>2. Head(todo) \in Items
    BY <2>1, HeadTailProperties DEF FitInv
  <2>4. CASE init_descriptor
    <3>1. PICK d \in Descriptors(Head(todo).n) : call' = Identity(d, d.physicalStart)
      BY <2>4 DEF init_descriptor, reads
    <3>2. Head(todo).kind = "descriptor"
      BY <2>4 DEF init_descriptor, reads
    <3>3. DescriptorFits(d)
      BY <2>1, <3>2, Read
    <3>4. call' \in RangeCalls
      BY <3>1, <3>3, IdentityTyped
    <3> QED BY <1>asks, <2>1, <3>4
  <2>5. CASE init_higher_half
    <3>1. call' \in {Head(todo).range, Idle}
      BY <2>5 DEF init_higher_half, reads
    <3>2. call' \in RangeCalls
      BY <2>2, <3>1, IdleTyped DEF Items
    <3> QED BY <1>asks, <2>1, <3>2
  <2>6. CASE init_range
    <3>1. call' \in RangeCalls
      BY <2>2, <2>6 DEF init_range, Items
    <3> QED BY <1>asks, <2>1, <3>1
  <2> QED BY <1>9, <2>4, <2>5, <2>6
<1>10. CASE map_range_huge
  <2> DEFINE n == HUGE_SIZE
  <2>1. /\ phase \in {"init", "ready"} /\ call.op = "map_range" /\ call.size >= n
        /\ UNCHANGED <<g_pml4_p, last>>
    BY <1>10 DEF map_range_huge, Running, Huge, machine
  <2>2. call.virt \in Address /\ call.phys \in Nat /\ call.flags \in SUBSET PageFlags
    <3>1. call.size > 0
      BY <1>1, <2>1, Geometry DEF Fits
    <3> QED BY <1>1, <2>1, <3>1, MappingAt
  <2>3. PICK s \in map_huge(call.virt, call.phys, call.flags) :
          /\ Effect(s, call.virt, n)
          /\ call' = IF s.at = nullptr THEN Idle ELSE Advance(n)
    BY <1>10 DEF map_range_huge
  <2>4. Maps(s, call.virt, n) /\ Does(s, call.virt, call.phys, call.flags, n)
    BY <1>2, <2>1, <2>2, MapHugeMaps, MapHugeDoes
  <2>5. n # PAGE_SIZE /\ n \in {PAGE_SIZE, HUGE_SIZE}
    BY SpansGrow, Geometry
  <2>6. /\ s.fault <=> Gone(phase')
        /\ s.huge => n = PAGE_SIZE
        /\ s.fault \/ s.huge \/ s.at = nullptr => UNCHANGED Space
        /\ s.at = nullptr /\ ~s.huge => free' = {}
        /\ ~(s.fault \/ s.huge \/ s.at = nullptr) => Promised!Set(call.virt, call.phys, call.flags, n)
    BY <1>2, <2>1, <2>2, <2>3, <2>4, <2>5, MappingPromised
  <2>7. CASE s.fault
    BY <1>dies, <2>1, <2>6, <2>7
  <2>8. CASE ~s.fault /\ s.at = nullptr
    <3>1. UNCHANGED <<Space, last>> /\ call'.op = "none" /\ ~(free' # {})
      BY <1>3, <2>1, <2>3, <2>5, <2>6, <2>8
    <3>2. Promised!MapMissing
      BY <2>1, <3>1, SameNames DEF Promised!MapMissing
    <3> QED BY <1>lives, <2>1, <2>6, <2>8, <3>2
  <2>9. CASE ~s.fault /\ s.at # nullptr
    <3>1. call' = Promised!Onward(n)
      BY <1>1, <2>1, <2>3, <2>5, <2>9, AdvanceIs
    <3>2. Promised!Map(n)
      BY <2>1, <2>5, <2>6, <2>9, <3>1 DEF Promised!Map
    <3> QED BY <1>lives, <2>1, <2>6, <2>9, <3>2
  <2> QED BY <2>7, <2>8, <2>9
<1>11. CASE map_range_page
  <2> DEFINE n == PAGE_SIZE
  <2>1. /\ phase \in {"init", "ready"} /\ call.op = "map_range" /\ call.size >= n
        /\ UNCHANGED <<g_pml4_p, last>> /\ call' = Advance(n)
    BY <1>11 DEF map_range_page, Running, machine
  <2>2. call.virt \in Address /\ call.phys \in Nat /\ call.flags \in SUBSET PageFlags
    <3>1. call.size > 0
      BY <1>1, <2>1, Geometry DEF Fits
    <3> QED BY <1>1, <2>1, <3>1, MappingAt
  <2>3. PICK s \in map_page(call.virt, call.phys, call.flags) : Effect(s, call.virt, n)
    BY <1>11 DEF map_range_page
  <2>4. Maps(s, call.virt, n) /\ Does(s, call.virt, call.phys, call.flags, n)
    BY <1>2, <2>1, <2>2, MapPageMaps, MapPageDoes
  <2>5. /\ s.fault <=> Gone(phase')
        /\ s.fault \/ s.huge \/ s.at = nullptr => UNCHANGED Space
        /\ s.huge => \/ Promised!MayMiss(call.virt)
                     \/ Promised!Set(call.virt, call.phys, call.flags, n)
        /\ s.at = nullptr /\ ~s.huge => free' = {}
        /\ ~(s.fault \/ s.huge \/ s.at = nullptr) => Promised!Set(call.virt, call.phys, call.flags, n)
    BY <1>2, <2>1, <2>2, <2>3, <2>4, MappingPromised
  <2>6. call' = Promised!Onward(n)
    BY <1>1, <2>1, AdvanceIs
  <2>7. CASE s.fault
    BY <1>dies, <2>1, <2>5, <2>7
  <2>8. CASE ~s.fault
    <3>1. \/ UNCHANGED Space /\ Promised!MayMiss(call.virt)
          \/ Promised!Set(call.virt, call.phys, call.flags, n)
      BY <2>5, <2>8 DEF Promised!MayMiss
    <3>2. Promised!MapMissing \/ Promised!Map(PAGE_SIZE)
      BY <2>1, <2>6, <3>1 DEF Promised!MapMissing, Promised!Map
    <3> QED BY <1>lives, <2>1, <2>5, <2>8, <3>2
  <2> QED BY <2>7, <2>8
<1>12. CASE range_done
  <2>1. /\ (call.op = "map_range" /\ call.size = 0) \/ (call.op = "unmap_range" /\ call.virt >= call.end)
        /\ call' = Idle /\ UNCHANGED <<mem, g_pml4_p, last, phase>> /\ ~Gone(phase)
    BY <1>12 DEF range_done, Running, machine, history
  <2>2. Promised!Finish
    BY <1>3, <1>4, <2>1 DEF Promised!Finish
  <2> QED BY <1>lives, <2>1, <2>2
<1>13. CASE unmap_range_skip
  <2> DEFINE v == call.virt
             x == NextBlock(v, Hole(v))
  <2>1. /\ phase \in {"init", "ready"} /\ call.op = "unmap_range" /\ call.virt < call.end
        /\ Hole(v) # 0 /\ call' = [call EXCEPT !.virt = x] /\ x > v
        /\ UNCHANGED <<mem, g_pml4_p, last, phase>>
    BY <1>13 DEF unmap_range_skip, skips_to, Unmapping, Running, machine, history
  <2>2. v \in Address /\ v \in Nat /\ v < WORD
    BY <1>1, <2>1, Standing
  <2>3. Hole(v) \in Spans
    BY <2>1, HoleTells DEF Spans
  <2>4. /\ x \in Nat /\ v < x /\ x < WORD /\ x % PAGE_SIZE = 0
        /\ \A u \in Nat : v <= u /\ u < x => u \div Hole(v) = v \div Hole(v)
    BY <2>1, <2>2, <2>3, EndOfBlock
  <2> HIDE DEF x
  <2>5. call'.op = "unmap_range" /\ call'.virt = x
    BY <1>1, <2>1, <2>4, MoveFits
  <2>6. ASSUME NEW p \in Pages, p >= v, p < v + (x - v) PROVE Space[p] = NoPage
    <3>1. p \in Nat /\ p \in Address /\ v <= p /\ p < x
      BY <2>2, <2>4, <2>6, ObservedAddresses
    <3>2. Lookup(p) = NoPage
      BY <2>1, <2>2, <2>4, <3>1, HoleIsEmpty
    <3> QED BY <1>2, <2>1, <3>2, SpaceShows
  <2>7. \A p \in Promised!Block(call.virt, call'.virt - call.virt) : Space[p] = NoPage
    BY <2>5, <2>6 DEF Promised!Block
  <2>8. call'.virt > call.virt
    BY <2>2, <2>4, <2>5
  <2>9. Promised!PassOver
    BY <1>4, <2>1, <2>5, <2>7, <2>8, SameNames DEF Promised!PassOver
  <2> QED BY <1>lives, <2>1, <2>9
<1>14. ASSUME NEW n \in {PAGE_SIZE, HUGE_SIZE}, Clearing(call.virt, n), call.op = "unmap_range",
              call.virt < call.end, call' = [call EXCEPT !.virt = Plus(call.virt, n)],
              UNCHANGED <<last, phase>>
       PROVE  Goal
  <2>1. call.virt \in Address
    BY <1>1, <1>14, Standing
  <2>2. /\ Promised!Clear(call.virt, n)
        /\ \A p \in Promised!Around(call.virt, n) : Space[p].size = n
    BY <1>2, <1>14, <2>1, ClearingPromised DEF Clearing
  <2>3. Promised!Unmap(n)
    BY <1>14, <2>2, SameNames DEF Promised!Unmap
  <2> QED BY <1>14, <1>lives, <2>3 DEF Clearing
<1>15. CASE unmap_range_huge
  <2> DEFINE v == call.virt
  <2>1. /\ phase \in {"init", "ready"} /\ call.op = "unmap_range" /\ call.virt < call.end
        /\ Hole(v) = 0 /\ "PS" \in pde(v).flags
        /\ mem' = [mem EXCEPT ![pdpte(v).to][PD_IDX(v)] = NoEntry] /\ tlb' = invlpg(v)
        /\ call' = [call EXCEPT !.virt = Plus(v, HUGE_SIZE)]
        /\ UNCHANGED <<free, g_pml4_p, replaced, phase, last>>
    BY <1>15 DEF unmap_range_huge, Unmapping, Running, machine, history
  <2>2. HugePage(mem, g_pml4_p, v)
    BY <2>1, HoleTells DEF SmallPage
  <2>3. Clearing(v, HUGE_SIZE)
    BY <2>1, <2>2 DEF Clearing
  <2> QED BY <1>14, <2>1, <2>3
<1>16. CASE unmap_range_page
  <2> DEFINE v == call.virt
  <2>1. /\ phase \in {"init", "ready"} /\ call.op = "unmap_range" /\ call.virt < call.end
        /\ Hole(v) = 0 /\ "PS" \notin pde(v).flags
        /\ mem' = [mem EXCEPT ![pde(v).to][PT_IDX(v)] = NoEntry] /\ tlb' = invlpg(v)
        /\ call' = [call EXCEPT !.virt = Plus(v, PAGE_SIZE)]
        /\ UNCHANGED <<free, g_pml4_p, replaced, phase, last>>
    BY <1>16 DEF unmap_range_page, removes_page, Unmapping, Running, machine, history
  <2>2. SmallPage(mem, g_pml4_p, v)
    BY <2>1, HoleTells DEF HugePage
  <2>3. Clearing(v, PAGE_SIZE)
    BY <2>1, <2>2 DEF Clearing
  <2> QED BY <1>14, <2>1, <2>3
<1>17. ASSUME NEW c \in Calls, call_range(c) \/ call_get_phys(c) \/ call_faults(c) PROVE Goal
  <2>1. phase = "ready" /\ call = Idle /\ UNCHANGED <<mem, g_pml4_p>> /\ last'.call = c
    BY <1>17 DEF call_range, call_get_phys, call_faults, Begin, Record, machine
  <2>2. CASE call_range(c)
    <3>1. c.op \in {"map_range", "unmap_range"} /\ call' = c /\ phase' = phase
      BY <2>2 DEF call_range
    <3>2. Promised!Ask
      BY <1>3, <1>4, <2>1, <3>1 DEF Promised!Ask
    <3> QED BY <1>lives, <2>1, <3>1, <3>2
  <2>3. CASE call_get_phys(c)
    <3>1. c.op = "get_phys" /\ call' = call /\ phase' = phase
      BY <2>3 DEF call_get_phys
    <3>2. Promised!LookUp
      BY <1>4, <2>1, <3>1 DEF Promised!LookUp
    <3> QED BY <1>lives, <2>1, <3>1, <3>2
  <2>4. CASE call_faults(c)
    <3>1. Gone(phase')
      BY <2>4 DEF call_faults, Missing
    <3> QED BY <1>4, <1>dies, <2>1, <3>1
  <2> QED BY <1>17, <2>2, <2>3, <2>4
<1>18. ASSUME NEW c \in Calls, call_map_page(c) PROVE Goal
  <2>1. /\ c.op = "map_page" /\ phase = "ready" /\ call = Idle
        /\ UNCHANGED <<g_pml4_p, call>> /\ last'.call = c
    BY <1>18 DEF call_map_page, Begin, Record, machine
  <2>2. c.virt \in Address /\ c.phys \in Nat /\ c.flags \in SUBSET PageFlags
    BY <2>1, CallAt
  <2>3. PICK s \in map_page(c.virt, c.phys, c.flags) : Effect(s, c.virt, PAGE_SIZE)
    BY <1>18 DEF call_map_page
  <2>4. Maps(s, c.virt, PAGE_SIZE) /\ Does(s, c.virt, c.phys, c.flags, PAGE_SIZE)
    BY <1>2, <2>1, <2>2, MapPageMaps, MapPageDoes
  <2>5. /\ s.fault <=> Gone(phase')
        /\ s.fault \/ s.huge \/ s.at = nullptr => UNCHANGED Space
        /\ s.huge => \/ Promised!MayMiss(c.virt)
                     \/ Promised!Set(c.virt, c.phys, c.flags, PAGE_SIZE)
        /\ s.at = nullptr /\ ~s.huge => free' = {}
        /\ ~(s.fault \/ s.huge \/ s.at = nullptr) =>
             Promised!Set(c.virt, c.phys, c.flags, PAGE_SIZE)
    BY <1>2, <2>1, <2>2, <2>3, <2>4, MappingPromised
  <2>6. CASE s.fault
    BY <1>dies, <2>1, <2>5, <2>6
  <2>7. CASE ~s.fault
    <3>1. \/ UNCHANGED Space /\ Promised!MayMiss(c.virt)
          \/ Promised!Set(c.virt, c.phys, c.flags, PAGE_SIZE)
      BY <2>5, <2>7 DEF Promised!MayMiss
    <3>2. Promised!MapPage
      BY <1>3, <2>1, <3>1, SameNames DEF Promised!MapPage
    <3> QED BY <1>lives, <2>1, <2>5, <2>7, <3>2
  <2> QED BY <2>6, <2>7
<1>19. ASSUME NEW c \in Calls, call_unmap_page(c) PROVE Goal
  <2> DEFINE v == c.virt
  <2>1. /\ c.op = "unmap_page" /\ phase = "ready" /\ call = Idle
        /\ UNCHANGED <<free, g_pml4_p, replaced, call>> /\ last'.call = c
    BY <1>19 DEF call_unmap_page, Begin, Record, machine
  <2>2. v \in Address
    BY <2>1, CallAt
  <2>3. CASE unmap_page_clears(v) /\ "PS" \in pde(v).flags
    <3>1. UNCHANGED mem /\ ~Gone(phase')
      BY <2>1, <2>3 DEF unmap_page_clears, Strayed
    <3>2. ~SmallPage(mem, g_pml4_p, v)
      BY <2>3, HoleTells DEF SmallPage
    <3>3. Promised!UnmapPage
      <4>1. IF \E p \in Promised!Around(v, PAGE_SIZE) : Space[p].size = HUGE_SIZE
            THEN UNCHANGED Space ELSE Promised!Clear(v, PAGE_SIZE)
        BY <1>2, <2>1, <2>2, <3>1, <3>2, IgnoringPromised
      <4> QED BY <1>3, <2>1, <4>1, SameNames DEF Promised!UnmapPage
    <3> QED BY <1>lives, <2>1, <3>1, <3>3
  <2>5. CASE unmap_page_ignores(v)
    <3>1. UNCHANGED <<mem, phase>> /\ ~SmallPage(mem, g_pml4_p, v)
      BY <1>2, <2>1, <2>2, <2>5, UnmapPageIgnores
    <3>2. Promised!UnmapPage
      <4>1. IF \E p \in Promised!Around(v, PAGE_SIZE) : Space[p].size = HUGE_SIZE
            THEN UNCHANGED Space ELSE Promised!Clear(v, PAGE_SIZE)
        BY <1>2, <2>1, <2>2, <3>1, IgnoringPromised
      <4> QED BY <1>3, <2>1, <4>1, SameNames DEF Promised!UnmapPage
    <3> QED BY <1>lives, <2>1, <3>1, <3>2
  <2>4. CASE unmap_page_clears(v) /\ "PS" \notin pde(v).flags
    <3>1. Clearing(v, PAGE_SIZE)
      BY <1>2, <2>1, <2>2, <2>4, UnmapPageClears
    <3>2. /\ Promised!Clear(v, PAGE_SIZE)
          /\ \A p \in Promised!Around(v, PAGE_SIZE) : Space[p].size = PAGE_SIZE
      BY <1>2, <2>1, <2>2, <3>1, ClearingPromised
    <3>3. PAGE_SIZE # HUGE_SIZE
      BY SpansGrow, Geometry
    <3>4. Promised!UnmapPage
      BY <1>3, <2>1, <3>2, <3>3, SameNames DEF Promised!UnmapPage
    <3>5. phase' = phase
      BY <3>1 DEF Clearing
    <3> QED BY <1>lives, <2>1, <3>4, <3>5
  <2> QED BY <1>19, <2>3, <2>4, <2>5 DEF call_unmap_page
<1>20. CASE \E c \in Calls : api(c)
  BY <1>17, <1>18, <1>19, <1>20 DEF api
<1>21. CASE tlb_fill
  <2>1. UNCHANGED <<mem, g_pml4_p, call, last>> /\ ~Gone(phase)
    BY <1>21 DEF tlb_fill, machine, history
  <2> QED BY <1>5, <2>1
<1>22. CASE Stopped
  BY <1>stays, <1>22 DEF Stopped
<1> QED
  BY <1>6, <1>7, <1>8, <1>9, <1>10, <1>11, <1>12, <1>13, <1>15, <1>16, <1>20, <1>21, <1>22
     DEF Next, init, range_step, Goal

------------------------------------------------------------------------------
(* While the kernel boots, the tables map straight.                        *)

\* Where an address is mapped, it is mapped straight.
StraightAt(u) == Lookup(u) # NoPage => Lookup(u).phys = Straight(u) /\ "RW" \in Lookup(u).flags

\* The calls of init are straight, and what they leave behind is; its tables are pages
\* that were free.
StraightInv ==
  /\ calls \in Nat
  /\ calls = 0 => /\ call.op # "unmap_range" /\ StraightCall(call)
                  /\ DOMAIN mem \cup free \subseteq info.free
  /\ calls = 0 /\ g_pml4_p # nullptr => \A u \in Address : StraightAt(u)

LEMMA InitStraight == Init => StraightInv
<1> SUFFICES ASSUME Init PROVE StraightInv
  OBVIOUS
<1>1. DOMAIN mem = {} /\ free = info.free /\ calls = 0 /\ g_pml4_p = nullptr
  BY DEF Init
<1>2. call.op # "unmap_range" /\ StraightCall(call)
  BY DEF Init, StraightCall, Idle, Call
<1> QED
  BY <1>1, <1>2 DEF StraightInv

\* The two halves are a whole number of pages, and of huge pages, apart.
LEMMA HigherHalfBlocks ==
  ASSUME NEW n \in {PAGE_SIZE, HUGE_SIZE}
  PROVE  \E k \in Nat : HIGHER_HALF_OFFSET = n * k
<1> DEFINE h == ENTRIES \div 2
<1>1. h \in Nat /\ n \in Nat \ {0}
  BY GeometryAssumption, Geometry
<1>2. PML4_SPAN \in Spans /\ PML4_SPAN # PAGE_SIZE
  BY SpansGrow, Geometry DEF Spans
<1>3. PICK j \in Nat \ {0} : PML4_SPAN = n * j
  BY <1>2, WholePages
<1>4. HIGHER_HALF_OFFSET = 3 * (PML4_SPAN * h)
  BY HigherHalfAt
<1> HIDE DEF h
<1>5. 3 * (PML4_SPAN * h) = n * (3 * (j * h)) /\ 3 * (j * h) \in Nat
  BY <1>1, <1>3
<1> QED
  BY <1>4, <1>5

\* A page or huge page that is straight at one address is straight at all of them.
LEMMA StraightBlock ==
  ASSUME NEW u \in Address, NEW v \in Address, NEW n \in {PAGE_SIZE, HUGE_SIZE},
         u \div n = v \div n
  PROVE  Straight(v) \in Nat /\ AlignDown(Straight(v), n) + (u % n) = Straight(u)
<1> DEFINE q == v \div n
           r == u % n
           w == v % n
<1>1. n \in Nat \ {0} /\ u \in Nat /\ v \in Nat /\ u \in Int /\ v \in Int
  BY Geometry DEF Address
<1>2. PICK k \in Nat : HIGHER_HALF_OFFSET = n * k
  BY HigherHalfBlocks
<1>3. /\ v \div n \in Int /\ v % n \in 0..(n - 1)
      /\ v = n * (v \div n) + (v % n)
      /\ n * (v \div n) <= v /\ v < n * (v \div n) + n
      /\ v >= 0 => v \div n >= 0
  BY <1>1, Quotient
<1>4. /\ u \div n \in Int /\ u % n \in 0..(n - 1)
      /\ u = n * (u \div n) + (u % n)
      /\ n * (u \div n) <= u /\ u < n * (u \div n) + n
      /\ u >= 0 => u \div n >= 0
  BY <1>1, Quotient
<1>5. /\ q \in Nat /\ r \in 0..(n - 1) /\ w \in 0..(n - 1)
      /\ v = n * q + w /\ u = n * q + r
  BY <1>1, <1>3, <1>4
<1> HIDE DEF q, r, w
<1>6. n * q \in Nat /\ n * k \in Nat
  BY <1>1, <1>5
<1>7. CASE q >= k
  <2>1. n * q >= n * k
    BY <1>1, <1>5, <1>7
  <2>2. Straight(v) = v - n * k /\ Straight(u) = u - n * k /\ v - n * k \in Nat
    BY <1>1, <1>2, <1>5, <1>6, <2>1 DEF Straight
  <2>3. n * (q - k) = n * q - n * k /\ q - k \in Int
    BY <1>1, <1>5
  <2>4. (v - n * k) \div n = q - k
    <3>1. /\ v - n * k \in Int /\ n * (q - k) <= v - n * k /\ v - n * k < n * (q - k) + n
      BY <1>1, <1>5, <1>6, <2>3
    <3> QED BY <1>1, <2>3, <3>1, QuotientIs
  <2>5. AlignDown(v - n * k, n) = n * (q - k)
    BY <1>1, <2>2, <2>4, AlignedDown
  <2>6. AlignDown(v - n * k, n) + r = u - n * k
    BY <1>1, <1>5, <1>6, <2>3, <2>5
  <2> QED BY <2>2, <2>6 DEF r
<1>8. CASE q < k
  <2>1. n * (q + 1) <= n * k
    BY <1>1, <1>5, <1>8
  <2>2. n * (q + 1) = n * q + n
    BY <1>1, <1>5
  <2>3. Straight(v) = v /\ Straight(u) = u
    BY <1>1, <1>2, <1>5, <1>6, <2>1, <2>2 DEF Straight
  <2>4. AlignDown(v, n) = n * q
    BY <1>1, AlignedDown DEF q
  <2>5. AlignDown(v, n) + r = u
    BY <1>1, <1>5, <1>6, <2>4
  <2> QED BY <1>1, <2>3, <2>5 DEF r
<1> QED
  BY <1>5, <1>7, <1>8

\* The addresses the processor refuses keep a range in its half.
LEMMA AdvanceStraight ==
  ASSUME Fits(call), call.op = "map_range", StraightCall(call),
         NEW n \in {PAGE_SIZE, HUGE_SIZE}, call.size >= n
  PROVE  StraightCall(Advance(n))
<1> DEFINE L == PML4_SPAN * (ENTRIES \div 2)
           v == call.virt
           d == Advance(n)
<1>1. n \in Nat \ {0}
  BY Geometry
<1>2. L \in Nat \ {0} /\ WORD = 4 * L /\ HIGHER_HALF_OFFSET = 3 * L
  BY HigherHalfAt, Geometry
<1>3. /\ v \in Nat /\ v < WORD /\ call.size \in Nat /\ v + call.size <= WORD
      /\ \A a \in v..(v + call.size - 1) : Usable(a)
  BY <1>2 DEF Fits
<1>4. call.phys = Straight(v) /\ "RW" \in call.flags
  BY <1>1, <1>3 DEF StraightCall
<1>5. /\ d.virt = IF v + n = WORD THEN 0 ELSE v + n
      /\ d.phys = Plus(call.phys, n) /\ d.size = call.size - n /\ d.flags = call.flags
  BY AdvanceFits
<1> HIDE DEF d
<1>6. SUFFICES ASSUME d.size > 0 PROVE d.phys = Straight(d.virt)
  BY <1>4, <1>5 DEF StraightCall, d
<1>7. v + n < WORD /\ d.virt = v + n /\ v + n <= v + call.size - 1
  BY <1>1, <1>2, <1>3, <1>5, <1>6
<1>8. ~(v < HIGHER_HALF_OFFSET /\ v + n >= HIGHER_HALF_OFFSET)
  <2>1. SUFFICES ASSUME v < 3 * L, v + n >= 3 * L PROVE FALSE
    BY <1>2
  <2>2. Usable(3 * L - 1)
    BY <1>1, <1>2, <1>3, <1>7, <2>1
  <2>3. 3 * L - 1 < L \/ 3 * L - 1 >= 3 * L
    BY <1>2, <2>2 DEF Usable, Canonical
  <2> HIDE DEF L
  <2> QED BY <1>2, <2>3
<1> HIDE DEF L
<1>9. /\ Straight(v) \in Nat /\ Straight(v) + n < WORD
      /\ Straight(v + n) = Straight(v) + n
  BY <1>1, <1>2, <1>3, <1>7, <1>8 DEF Straight
<1>10. d.phys = Straight(v) + n
  <2>1. Straight(v) + n \in Nat /\ WORD \in Nat \ {0}
    BY <1>1, <1>2, <1>9
  <2>2. (Straight(v) + n) % WORD = Straight(v) + n
    BY <1>9, <2>1, Small
  <2> QED BY <1>4, <1>5, <2>2 DEF Plus
<1> QED
  BY <1>7, <1>9, <1>10

\* A step of map_range maps straight what it maps.
LEMMA MapsStraight ==
  ASSUME StraightInv, calls = 0, g_pml4_p # nullptr, UNCHANGED g_pml4_p,
         NEW v \in Address, NEW n \in {PAGE_SIZE, HUGE_SIZE}, NEW flags, NEW s,
         Maps(s, v, n), Does(s, v, Straight(v), flags, n), mem' = s.mem,
         "RW" \in flags, NEW u \in Address
  PROVE  StraightAt(u)'
<1>1. Lookup(u)' = Translate(s.mem, g_pml4_p, u)
  BY DEF Lookup
<1>2. CASE u \div n # v \div n \/ s.fault \/ s.huge \/ s.at = nullptr
  <2>1. Lookup(u)' = Lookup(u)
    BY <1>1, <1>2 DEF Maps, Does
  <2> QED BY <2>1 DEF StraightInv, StraightAt, Straight
<1>3. CASE ~(u \div n # v \div n \/ s.fault \/ s.huge \/ s.at = nullptr)
  <2> DEFINE fl == (IF n = HUGE_SIZE THEN flags \ {"PS"} ELSE flags) \cup {"P"}
             a == AlignDown(Straight(v), n) + (u % n)
  <2>1. Translate(s.mem, g_pml4_p, u) = [phys |-> a, flags |-> fl, size |-> n]
    BY <1>3 DEF Does
  <2>2. "RW" \in fl
    OBVIOUS
  <2> HIDE DEF fl, a
  <2>3. Lookup(u)'.phys = a /\ Lookup(u)'.flags = fl
    BY <1>1, <2>1
  <2>4. Lookup(u)'.phys = Straight(u)
    BY <1>3, <2>3, StraightBlock DEF a
  <2> QED BY <2>2, <2>3, <2>4 DEF StraightAt, Straight
<1> QED
  BY <1>2, <1>3

LEMMA StraightStep == FitInv /\ TreeInv /\ OffInv /\ StraightInv /\ [Next]_vars => StraightInv'
<1> SUFFICES ASSUME FitInv, TreeInv, OffInv, StraightInv, [Next]_vars PROVE StraightInv'
  OBVIOUS
<1>1. Fits(call) /\ todo \in Seq(Items) /\ calls \in Nat
  BY DEF FitInv, StraightInv
<1>2. phase \in {"init", "ready"} => g_pml4_p # nullptr /\ Tree /\ FreeInv
  BY DEF TreeInv
<1>3. Idle.op = "none" /\ StraightCall(Idle)
  BY DEF Idle, Call, StraightCall
<1>4. ASSUME NEW r \in RangeCalls PROVE r.op # "unmap_range" /\ StraightCall(r)
  BY <1>4 DEF RangeCalls
\* Nothing happens to the tables.
<1>5. ASSUME UNCHANGED <<mem, g_pml4_p>> PROVE \A u : StraightAt(u)' <=> StraightAt(u)
  BY <1>5 DEF StraightAt, Straight, Lookup
<1>6. ASSUME UNCHANGED <<mem, g_pml4_p, calls, free, info>>,
             call' = Idle \/ call' \in RangeCalls \/ call' = call
      PROVE  StraightInv'
  <2>1. calls' \in Nat
    BY <1>1, <1>6
  <2>2. calls = 0 => call'.op # "unmap_range" /\ StraightCall(call')
    BY <1>3, <1>4, <1>6 DEF StraightInv
  <2>3. calls = 0 => call'.op # "unmap_range" /\ StraightCall(call)'
    BY <2>2 DEF StraightCall, Straight
  <2> QED BY <1>5, <1>6, <2>1, <2>3 DEF StraightInv
<1>7. CASE UNCHANGED vars
  BY <1>6, <1>7 DEF vars
<1>8. CASE init_root
  <2>1. call = Idle /\ free \in SUBSET (Nat \ {nullptr}) /\ UNCHANGED <<call, calls, info>>
    BY <1>8 DEF init_root, OffInv, TreeInv, FreeInv
  <2>2. PICK root \in free :
          /\ g_pml4_p' = root /\ mem' = RootMemory(root) /\ free' = free \ {root}
    BY <1>8 DEF init_root, RootMemory
  <2>3. ASSUME NEW u \in Address PROVE StraightAt(u)'
    <3>1. Lookup(u)' = Translate(RootMemory(root), root, u)
      BY <2>2 DEF Lookup
    <3> QED BY <3>1, RootMapsNothing DEF StraightAt
  <2>4. StraightCall(call)'
    BY <1>3, <2>1 DEF StraightCall, Straight
  <2>5. DOMAIN mem' = {root}
    BY <2>2 DEF RootMemory
  <2>6. calls = 0 => DOMAIN mem' \cup free' \subseteq info.free
    BY <2>2, <2>5 DEF StraightInv
  <2> QED BY <1>1, <1>3, <2>1, <2>3, <2>4, <2>6 DEF StraightInv
<1>9. CASE \/ init_fails \/ init_switch \/ map_range_runs_away \/ range_done
           \/ unmap_range_wraps \/ unmap_range_fault
  BY <1>6, <1>9 DEF init_fails, init_switch, map_range_runs_away, range_done, unmap_range_wraps,
                    unmap_range_fault, machine
<1>10. CASE init_range
  <2>1. Head(todo) \in Items
    BY <1>1, <1>10, HeadTailProperties DEF init_range
  <2> QED BY <1>6, <1>10, <2>1 DEF init_range, Items, machine
<1>11. CASE init_descriptor
  <2>1. PICK d \in Descriptors(Head(todo).n) : call' = Identity(d, d.physicalStart)
    BY <1>11 DEF init_descriptor, reads
  <2>2. DescriptorFits(d)
    BY <1>11, Read DEF init_descriptor, reads
  <2>3. call' \in RangeCalls
    BY <2>1, <2>2, IdentityTyped
  <2> QED BY <1>6, <1>11, <2>3 DEF init_descriptor, reads, machine
<1>12. CASE init_higher_half
  <2>1. call' = Head(todo).range \/ call' = Idle
    BY <1>12 DEF init_higher_half, reads
  <2>2. Head(todo) \in Items
    BY <1>1, <1>12, HeadTailProperties DEF init_higher_half, reads
  <2> QED BY <1>6, <1>12, <2>1, <2>2 DEF init_higher_half, reads, Items, machine
<1>13. ASSUME NEW n \in {PAGE_SIZE, HUGE_SIZE}, Running("map_range"), call.size >= n,
              NEW s, Effect(s, call.virt, n), UNCHANGED <<g_pml4_p, calls, info>>,
              call' = Idle \/ call' = Advance(n),
              Maps(s, call.virt, n), Does(s, call.virt, call.phys, call.flags, n)
       PROVE  StraightInv'
  <2>1. call.op = "map_range" /\ g_pml4_p # nullptr /\ call.size > 0
    BY <1>1, <1>2, <1>13, Geometry, SMTT(30) DEF Running, Fits
  <2>2. call.virt \in Address
    BY <1>1, <2>1, MappingAt
  <2>3. calls = 0 => /\ call.phys = Straight(call.virt) /\ "RW" \in call.flags
                     /\ StraightCall(call)
    BY <2>1 DEF StraightInv, StraightCall
  <2>4. calls = 0 => call'.op # "unmap_range" /\ StraightCall(call')
    BY <1>1, <1>3, <1>13, <2>1, <2>3, AdvanceFits, AdvanceStraight
  <2>5. calls = 0 => StraightCall(call)'
    BY <2>4 DEF StraightCall, Straight
  <2>6. ASSUME calls = 0, NEW u \in Address PROVE StraightAt(u)'
    <3>1. mem' = s.mem /\ Does(s, call.virt, Straight(call.virt), call.flags, n)
      BY <1>13, <2>3, <2>6 DEF Effect
    <3> QED BY <1>13, <2>1, <2>2, <2>3, <2>6, <3>1, MapsStraight
  <2>7. calls = 0 => DOMAIN mem' \cup free' \subseteq info.free
    <3>1. mem' = s.mem /\ free' = s.free
      BY <1>13 DEF Effect
    <3>2. DOMAIN s.mem \cup s.free \subseteq DOMAIN mem \cup free
      BY <1>13 DEF Does, Reasons
    <3> QED BY <3>1, <3>2 DEF StraightInv
  <2> QED BY <1>1, <1>13, <2>4, <2>5, <2>6, <2>7 DEF StraightInv
<1>14. ASSUME Running("map_range"), call.size >= PAGE_SIZE
       PROVE  /\ Tree /\ FreeInv
              /\ call.virt \in Address /\ call.phys \in Nat /\ call.flags \in SUBSET PageFlags
  <2>1. call.size > 0
    BY <1>1, <1>14, Geometry DEF Fits
  <2> QED BY <1>1, <1>2, <1>14, <2>1, MappingAt DEF Running
<1>15. CASE map_range_huge
  <2>1. /\ Running("map_range") /\ call.size >= HUGE_SIZE /\ UNCHANGED <<g_pml4_p, calls, info>>
    BY <1>15 DEF map_range_huge, Huge, machine
  <2>2. PICK s \in map_huge(call.virt, call.phys, call.flags) :
          /\ Effect(s, call.virt, HUGE_SIZE)
          /\ call' = IF s.at = nullptr THEN Idle ELSE Advance(HUGE_SIZE)
    BY <1>15 DEF map_range_huge
  <2>3. call.size >= PAGE_SIZE
    BY <1>1, <2>1, SpansGrow, Geometry DEF Fits
  <2>4. /\ Maps(s, call.virt, HUGE_SIZE)
        /\ Does(s, call.virt, call.phys, call.flags, HUGE_SIZE)
    BY <1>14, <2>1, <2>3, MapHugeMaps, MapHugeDoes
  <2> QED BY <1>13, <2>1, <2>2, <2>4
<1>16. CASE map_range_page
  <2>1. /\ Running("map_range") /\ call.size >= PAGE_SIZE /\ UNCHANGED <<g_pml4_p, calls, info>>
        /\ call' = Advance(PAGE_SIZE)
    BY <1>16 DEF map_range_page, machine
  <2>2. PICK s \in map_page(call.virt, call.phys, call.flags) : Effect(s, call.virt, PAGE_SIZE)
    BY <1>16 DEF map_range_page
  <2>3. /\ Maps(s, call.virt, PAGE_SIZE)
        /\ Does(s, call.virt, call.phys, call.flags, PAGE_SIZE)
    BY <1>14, <2>1, MapPageMaps, MapPageDoes
  <2> QED BY <1>13, <2>1, <2>2, <2>3
\* Later, or not yet.
<1>17. ASSUME calls' \in Nat \ {0} PROVE StraightInv'
  BY <1>17 DEF StraightInv
<1>18. CASE \E c \in Calls : api(c)
  <2>1. calls' = calls + 1
    BY <1>18 DEF api, call_range, call_map_page, call_unmap_page, call_get_phys, call_faults, Begin
  <2> QED BY <1>1, <1>17, <2>1
<1>19. CASE unmap_range_skip \/ unmap_range_huge \/ unmap_range_page
  <2>1. call.op = "unmap_range" /\ calls' = calls
    BY <1>19 DEF unmap_range_skip, skips_to, unmap_range_huge, unmap_range_page, removes_page,
                 Unmapping, Running
  <2> QED BY <1>1, <1>17, <2>1 DEF StraightInv
<1>20. CASE tlb_fill
  BY <1>6, <1>20 DEF tlb_fill, machine
<1>21. CASE Stopped
  BY <1>6, <1>21 DEF Stopped, vars
<1> QED
  BY <1>7, <1>8, <1>9, <1>10, <1>11, <1>12, <1>15, <1>16, <1>18, <1>19, <1>20, <1>21
     DEF Next, init, range_step

------------------------------------------------------------------------------
(* What init leaves mapped.                                                *)

\* The ranges of descriptor k.
IdentityOf(k) == Identity(info.memoryMap[k], info.memoryMap[k].physicalStart)
HigherHalfOf(k) == Identity(info.memoryMap[k], HH(info.memoryMap[k].physicalStart))

Left(kind, k) == \E x \in Range(todo) : x.kind = kind /\ x.n = k

\* map_range has yet to map u.  A range that does not begin on a page promises nothing:
\* it runs away.
Going(c, u) ==
  c.op = "map_range" /\ c.virt % PAGE_SIZE = 0 /\ u >= c.virt /\ u < c.virt + c.size

\* An address of descriptor k is mapped, or will be.
Assured(k, u) ==
  /\ Going(IdentityOf(k), u) => Left("descriptor", k) \/ Going(call, u) \/ Lookup(u) # NoPage
  /\ is_mappable(info.memoryMap[k].type) /\ Going(HigherHalfOf(k), u) =>
       \/ Left("descriptor", k) \/ Left("higher_half", k)
       \/ Going(call, u) \/ Lookup(u) # NoPage

Undisturbed == calls = 0 /\ ~dropped /\ ~MapOverwritten /\ phase \in {"init", "ready"}

BootInv ==
  /\ phase \in {"off", "init"} => ~g_hh_enabled
  /\ phase = "ready" /\ calls = 0 => todo = <<>> /\ call = Idle
  /\ FaultsHaveACause
  /\ Undisturbed => /\ \A x \in Range(todo) : x.kind = "higher_half" => x.range = HigherHalfOf(x.n)
                    /\ \A k \in DOMAIN info.memoryMap, u \in Address : Assured(k, u)

LEMMA InitBoot == Init => BootInv
BY DEF Init, BootInv, FaultsHaveACause, Undisturbed

\* A descriptor's range is as long as its memory: nothing wraps on the way.
LEMMA IdentityIs ==
  ASSUME NEW d, MemoryFits(d), NEW b \in {d.physicalStart, HH(d.physicalStart)}
  PROVE  LET c == Identity(d, b) IN
         /\ c.op = "map_range" /\ c.virt = b /\ c.size = d.numberOfPages * PAGE_SIZE
         /\ b \in Nat /\ b % PAGE_SIZE = 0
<1> DEFINE a == d.physicalStart
           n == d.numberOfPages
           P == PAGE_SIZE
           L == PML4_SPAN * (ENTRIES \div 2)
           x == b + n * P
<1>1. /\ L \in Nat /\ WORD = 4 * L /\ HIGHER_HALF_OFFSET = 3 * L /\ WORD \in Nat \ {0}
      /\ P \in Nat \ {0}
  BY HigherHalfAt, Geometry
<1>2. /\ a \in Nat /\ a < L /\ a % P = 0 /\ n \in Nat /\ n * P \in Nat /\ a + n * P < L
  <2>1. a \in Nat /\ a < L /\ a % P = 0 /\ n \in Nat /\ a + n * P < L
    BY DEF MemoryFits, DescriptorFits, LowAddress
  <2> HIDE DEF a, n, L
  <2>2. n * P \in Nat
    BY <1>1, <2>1
  <2> QED BY <2>1, <2>2
<1>3. PICK h \in Nat : HIGHER_HALF_OFFSET = P * h
  BY HigherHalfBlocks
<1>4. PICK w \in Nat : WORD = P * w
  <2>1. PICK j \in Nat \ {0} : PML4_SPAN = P * j
    BY WholePages DEF Spans
  <2>2. ENTRIES \in Nat /\ WORD = 2 * (P * j) * ENTRIES
    BY <2>1, Geometry DEF WORD
  <2> HIDE DEF P
  <2>3. WORD = P * (2 * j * ENTRIES) /\ 2 * j * ENTRIES \in Nat
    BY <1>1, <2>2
  <2> QED BY <2>3
<1> HIDE DEF L
<1>5. HH(a) = 3 * L + a
  <2>1. 3 * L + a \in Nat /\ 3 * L + a < WORD
    BY <1>1, <1>2
  <2> QED BY <1>1, <2>1, Small DEF HH, Plus
<1>6. PICK q \in Nat : b = P * q
  <2>1. a \in Int
    BY <1>2
  <2>2. /\ a \div P \in Int /\ a % P \in 0..(P - 1)
        /\ a = P * (a \div P) + (a % P)
        /\ P * (a \div P) <= a /\ a < P * (a \div P) + P
        /\ a >= 0 => a \div P >= 0
    BY <1>1, <2>1, Quotient
  <2> DEFINE d0 == a \div P
  <2>3. d0 \in Nat /\ a = P * d0 + 0
    BY <1>1, <1>2, <2>2
  <2> HIDE DEF d0, a, P
  <2>5. PICK r \in Nat : a = P * r
    BY <1>1, <2>3
  <2>4. HH(a) = P * (h + r)
    BY <1>1, <1>3, <1>5, <2>5
  <2> QED BY <2>5, <2>4 DEF a
<1> HIDE DEF a, n, P
<1>7. b \in Nat /\ b < WORD /\ x \in Nat /\ x < WORD /\ n * P < WORD /\ b + n * P = x
  <2>1. b = a \/ b = HH(a)
    BY DEF a
  <2> QED BY <1>1, <1>2, <1>5, <2>1
<1>8. x = P * (q + n) /\ q + n \in Nat
  BY <1>1, <1>2, <1>6
<1> HIDE DEF x
<1>9. x + (P - 1) < WORD
  <2>1. q + n < w
    BY <1>1, <1>4, <1>7, <1>8, Order
  <2>2. P * (q + n + 1) <= P * w
    BY <1>1, <1>8, <2>1
  <2>3. P * (q + n + 1) = x + P
    BY <1>1, <1>8
  <2> QED BY <1>1, <1>4, <1>7, <2>2, <2>3
<1>10. Plus(b, n * P) = x /\ Plus(x, P - 1) = x + (P - 1)
  <2> DEFINE y == x + (P - 1)
  <2>1. y \in Nat /\ y < WORD
    BY <1>1, <1>7, <1>9
  <2>2. Plus(b, n * P) = x % WORD /\ Plus(x, P - 1) = y % WORD
    BY <1>7 DEF Plus
  <2> HIDE DEF y
  <2>3. x % WORD = x /\ y % WORD = y
    BY <1>1, <1>7, <2>1, Small
  <2> QED BY <2>2, <2>3 DEF y
<1>11. AlignDown(x + (P - 1), P) = x
  <2>1. /\ x + (P - 1) \in Nat /\ x + (P - 1) \in Int /\ q + n \in Int
        /\ P * (q + n) <= x + (P - 1) /\ x + (P - 1) < P * (q + n) + P
    BY <1>1, <1>7, <1>8
  <2> DEFINE y == x + (P - 1)
  <2> HIDE DEF y
  <2>2. y \in Nat /\ y \in Int /\ q + n \in Int /\ P * (q + n) <= y /\ y < P * (q + n) + P
    BY <2>1 DEF y
  <2>3. y \div P = q + n
    BY <1>1, <2>2, QuotientIs
  <2>4. AlignDown(y, P) = P * (y \div P)
    BY <1>1, <2>2, AlignedDown
  <2> QED BY <1>8, <2>3, <2>4 DEF y
<1>12. RoundUp(x) = x
  BY <1>10, <1>11 DEF RoundUp, P
<1>13. Minus(x, b) = n * P
  <2>1. x - b = n * P
    BY <1>2, <1>7
  <2> QED BY <1>1, <1>2, <1>7, <2>1, Small DEF Minus
<1>14. b % P = 0
  BY <1>1, <1>6, Multiple
<1> DEFINE c == Identity(d, b)
<1>15. c.op = "map_range" /\ c.virt = b /\ c.size = Minus(RoundUp(Plus(b, n * P)), b)
  BY DEF Identity, map_range, Call, n, P
<1> HIDE DEF c
<1>16. c.size = n * P
  BY <1>10, <1>12, <1>13, <1>15
<1> QED
  BY <1>7, <1>14, <1>15, <1>16 DEF c, n, P

\* What is left when the first of the things to do is taken.
LEMMA TodoParts ==
  ASSUME todo \in Seq(Items), todo # <<>>
  PROVE  /\ Head(todo) \in Items /\ Tail(todo) \in Seq(Items)
         /\ Range(todo) = {Head(todo)} \cup Range(Tail(todo))
         /\ Range(<<>> \o Tail(todo)) = Range(Tail(todo))
         /\ \A x \in Items : Range(<<x>> \o Tail(todo)) = {x} \cup Range(Tail(todo))
<1> DEFINE h == Head(todo)
           t == Tail(todo)
<1>1. h \in Items /\ t \in Seq(Items) /\ Len(t) = Len(todo) - 1
      /\ \A i \in 1..Len(t) : t[i] = todo[i + 1]
  BY HeadTailProperties
<1>2. Len(todo) \in Nat /\ DOMAIN todo = 1..Len(todo) /\ Len(todo) > 0
  BY EmptySeq, LenProperties
<1>3. DOMAIN t = 1..Len(t)
  BY <1>1, LenProperties
<1>4. todo[1] = h
  BY <1>2
<1> HIDE DEF h, t
<1>5. Range(todo) \subseteq {h} \cup Range(t)
  <2> SUFFICES ASSUME NEW i \in DOMAIN todo PROVE todo[i] \in {h} \cup Range(t)
    BY DEF Range
  <2>1. i # 1 => i - 1 \in DOMAIN t /\ t[i - 1] = todo[i]
    BY <1>1, <1>2, <1>3
  <2> QED BY <1>4, <2>1 DEF Range
<1>6. {h} \cup Range(t) \subseteq Range(todo)
  <2>1. \A i \in DOMAIN t : i + 1 \in DOMAIN todo /\ t[i] = todo[i + 1]
    BY <1>1, <1>2, <1>3
  <2>2. 1 \in DOMAIN todo
    BY <1>2
  <2> QED BY <1>4, <2>1, <2>2 DEF Range
<1>7. Range(<<>> \o t) = Range(t)
  <2>1. <<>> \in Seq(Items)
    BY EmptySeq
  <2>2. Range(<<>> \o t) = Range(<<>>) \cup Range(t)
    BY <1>1, <2>1, RangeConcatenation, ZenonT(60)
  <2> QED BY <2>2 DEF Range
<1>8. ASSUME NEW x \in Items PROVE Range(<<x>> \o t) = {x} \cup Range(t)
  <2>1. <<x>> \in Seq(Items)
    OBVIOUS
  <2>2. Range(<<x>> \o t) = Range(<<x>>) \cup Range(t)
    BY <1>1, <2>1, RangeConcatenation, ZenonT(60)
  <2>3. Range(<<x>>) = {x}
    BY DEF Range
  <2> QED BY <2>2, <2>3
<1> QED
  BY <1>1, <1>5, <1>6, <1>7, <1>8 DEF h, t

\* The two addresses of a page a descriptor describes.
LEMMA Described ==
  ASSUME info \in Infos, NEW k \in DOMAIN info.memoryMap, NEW p \in Nat,
         Describes(info.memoryMap[k], p)
  PROVE  /\ p \in Address /\ Going(IdentityOf(k), p) /\ Straight(p) = p
         /\ HH(p) \in Address /\ Going(HigherHalfOf(k), HH(p)) /\ Straight(HH(p)) = p
<1> DEFINE d == info.memoryMap[k]
           a == d.physicalStart
           z == d.numberOfPages * PAGE_SIZE
           L == PML4_SPAN * (ENTRIES \div 2)
<1>1. MemoryFits(d)
  BY AddressAssumption
<1> HIDE DEF d
<1>2. /\ a \in Nat /\ a + z < L /\ p >= a /\ p < a + z /\ d.numberOfPages \in Nat
  BY <1>1 DEF MemoryFits, DescriptorFits, LowAddress, Describes, d
<1>3. /\ L \in Nat /\ WORD = 4 * L /\ HIGHER_HALF_OFFSET = 3 * L /\ WORD \in Nat \ {0}
      /\ PAGE_SIZE \in Nat \ {0}
  BY HigherHalfAt, Geometry
<1>4. z \in Nat
  <2> DEFINE n == d.numberOfPages
  <2>1. n \in Nat
    BY <1>2
  <2> HIDE DEF n
  <2>2. n * PAGE_SIZE \in Nat
    BY <1>3, <2>1
  <2> QED BY <2>2 DEF n
<1> HIDE DEF z
<1>5. p < L
  BY <1>2, <1>3, <1>4
<1>6. LowAddress(p) /\ LowAddress(a)
  BY <1>1, <1>5 DEF LowAddress, MemoryFits, DescriptorFits
<1> HIDE DEF L, a
<1>7. HH(p) = 3 * L + p /\ HH(a) = 3 * L + a
  <2>1. ASSUME NEW x \in Nat, x < L PROVE HH(x) = 3 * L + x
    <3>1. 3 * L + x \in Nat /\ 3 * L + x < WORD
      BY <1>3, <2>1
    <3> QED BY <1>3, <3>1, Small DEF HH, Plus
  <2> QED BY <1>2, <1>3, <1>4, <1>5, <2>1
<1>8. ASSUME NEW b \in {a, HH(a)}, NEW u \in Nat, u >= b, u < b + z
      PROVE  u \in Address /\ Going(Identity(d, b), u)
  <2> DEFINE c == Identity(d, b)
  <2>1. c.op = "map_range" /\ c.virt = b /\ c.size = z /\ b \in Nat /\ b % PAGE_SIZE = 0
    BY <1>1, IdentityIs DEF a, z
  <2>2. Fits(c)
    BY <1>1 DEF MemoryFits, DescriptorFits, a
  <2> HIDE DEF c
  <2>3. Going(c, u)
    BY <1>8, <2>1 DEF Going
  <2>4. b + z <= WORD /\ \A x \in b..(b + z - 1) : Usable(x)
    BY <2>1, <2>2 DEF Fits
  <2>5. u \in Address
    BY <1>3, <1>4, <1>8, <2>1, <2>4 DEF Address
  <2> QED BY <2>3, <2>5 DEF c
<1>9. p \in Address /\ Going(Identity(d, a), p)
  BY <1>2, <1>8
<1>10. HH(p) \in Address /\ Going(Identity(d, HH(a)), HH(p))
  <2>1. HH(p) \in Nat /\ HH(p) >= HH(a) /\ HH(p) < HH(a) + z
    BY <1>2, <1>3, <1>4, <1>7
  <2> QED BY <1>8, <2>1
<1> QED
  BY <1>6, <1>9, <1>10, LowStraight DEF IdentityOf, HigherHalfOf, a, d

\* The neighbours of a mapped address in the same page or huge page are mapped.
LEMMA HugeNeighbour ==
  ASSUME NEW u \in Address, NEW v \in Address, u \div PAGE_SIZE = v \div PAGE_SIZE,
         Lookup(v).size = HUGE_SIZE
  PROVE  Lookup(u) # NoPage
<1>1. HugePage(mem, g_pml4_p, v)
  BY Sizes
<1>2. u \div HUGE_SIZE = v \div HUGE_SIZE
  BY SameBlock
<1>3. /\ E4(mem, g_pml4_p, u) = E4(mem, g_pml4_p, v)
      /\ E3(mem, g_pml4_p, u) = E3(mem, g_pml4_p, v)
      /\ E2(mem, g_pml4_p, u) = E2(mem, g_pml4_p, v)
  BY <1>2, SameEntries
<1>4. HugePage(mem, g_pml4_p, u)
  BY <1>1, <1>3 DEF HugePage, Upper
<1> QED
  BY <1>4, Sizes

\* What an iteration of map_range is about to map, and what it leaves for later.
LEMMA GoingOn ==
  ASSUME Fits(call), call.op = "map_range", NEW n \in {PAGE_SIZE, HUGE_SIZE},
         call.size >= n, n = HUGE_SIZE => call.virt % HUGE_SIZE = 0,
         NEW u \in Address, Going(call, u)
  PROVE  u \div n = call.virt \div n \/ Going(Advance(n), u)
<1> DEFINE v == call.virt
           d == Advance(n)
           q == v \div n
<1>1. n \in Nat \ {0} /\ WORD \in Nat \ {0} /\ PAGE_SIZE \in Nat \ {0} /\ u \in Nat
  BY Geometry DEF Address
<1>2. /\ v \in Nat /\ v \in Int /\ call.size \in Nat /\ v + call.size <= WORD
  BY <1>1 DEF Fits
<1>3. v % n = 0 /\ v % PAGE_SIZE = 0 /\ u >= v /\ u < v + call.size
  BY DEF Going
<1>4. /\ v \div n \in Int /\ v % n \in 0..(n - 1)
      /\ v = n * (v \div n) + (v % n)
      /\ n * (v \div n) <= v /\ v < n * (v \div n) + n
      /\ v >= 0 => v \div n >= 0
  BY <1>1, <1>2, Quotient
<1>5. q \in Nat /\ v = n * q + 0
  BY <1>2, <1>3, <1>4
<1> HIDE DEF q
<1>6. n * q = v
  BY <1>1, <1>5
<1>7. CASE u < v + n
  <2>1. u >= n * q /\ u < n * q + n
    BY <1>3, <1>6, <1>7
  <2>2. u \div n = q
    BY <1>1, <1>5, <2>1, InBlock
  <2> QED BY <2>2 DEF q
<1>8. CASE u >= v + n
  <2>1. /\ d.op = "map_range" /\ d.size = call.size - n
        /\ d.virt = IF v + n = WORD THEN 0 ELSE v + n
    BY AdvanceFits
  <2> HIDE DEF d
  <2>2. d.virt = v + n /\ u < d.virt + d.size
    BY <1>1, <1>2, <1>3, <1>8, <2>1
  <2>3. (v + n) % PAGE_SIZE = 0
    <3>1. PICK k \in Nat \ {0} : n = PAGE_SIZE * k
      BY WholePages DEF Spans
    <3>2. v + n = PAGE_SIZE * (k * (q + 1)) /\ k * (q + 1) \in Int
      <4>1. v + n = n * (q + 1)
        BY <1>1, <1>5, <1>6
      <4> HIDE DEF v
      <4> QED BY <1>1, <1>5, <3>1, <4>1
    <3> QED BY <1>1, <3>2, Multiple
  <2>4. Going(d, u)
    BY <1>8, <2>1, <2>2, <2>3 DEF Going
  <2> QED BY <2>4 DEF d
<1> QED
  BY <1>1, <1>2, <1>7, <1>8

LEMMA BootStep ==
  FitInv /\ TreeInv /\ OffInv /\ StraightInv /\ BootInv /\ [Next]_vars => BootInv'
<1> SUFFICES ASSUME FitInv, TreeInv, OffInv, StraightInv, BootInv, [Next]_vars PROVE BootInv'
  OBVIOUS
<1> DEFINE Ordered == \A x \in Range(todo) : x.kind = "higher_half" => x.range = HigherHalfOf(x.n)
           Complete == \A k \in DOMAIN info.memoryMap, u \in Address : Assured(k, u)
<1>0. Fits(call)
  BY DEF FitInv
<1>1. /\ info \in Infos /\ todo \in Seq(Items) /\ Fits(call) /\ calls \in Nat
      /\ phase \in {"init", "ready"} => g_pml4_p # nullptr /\ Tree /\ FreeInv
      /\ calls = 0 => call.op # "unmap_range"
  BY DEF FitInv, TreeInv, StraightInv
<1>2. /\ phase \in {"off", "init"} => ~g_hh_enabled
      /\ phase = "ready" /\ calls = 0 => todo = <<>> /\ call = Idle
      /\ calls = 0 /\ phase = "faulted" => dropped \/ MapOverwritten
      /\ Undisturbed => Ordered /\ Complete
  BY DEF BootInv, FaultsHaveACause
<1>3. Idle.op = "none" /\ \A u : ~Going(Idle, u)
  BY DEF Idle, Call, Going
\* Nothing happens to what init has done and has to do.
<1>4. ASSUME UNCHANGED <<info, mem, g_pml4_p, g_hh_enabled, calls, dropped, todo, call, phase>>
      PROVE  BootInv'
  BY <1>4 DEF BootInv, FaultsHaveACause, Undisturbed, MapOverwritten, Assured, Left, Going,
              IdentityOf, HigherHalfOf, Lookup
\* Init is over.
<1>5. ASSUME calls' # 0, phase' \notin {"off", "init"} \/ UNCHANGED <<phase, g_hh_enabled>>
      PROVE  BootInv'
  BY <1>2, <1>5 DEF BootInv, FaultsHaveACause, Undisturbed
<1>6. ASSUME phase' \in {"failed", "runaway"} PROVE BootInv'
  BY <1>6 DEF BootInv, FaultsHaveACause, Undisturbed
\* Init goes on.
<1>7. ASSUME phase' = "init", ~g_hh_enabled', Undisturbed' => Ordered' /\ Complete'
      PROVE  BootInv'
  BY <1>7 DEF BootInv, FaultsHaveACause
<1>8. CASE UNCHANGED vars
  BY <1>4, <1>8 DEF vars
<1>9. CASE init_root
  <2>1. phase' = "init" /\ ~g_hh_enabled' /\ todo' = Program(info) /\ info' = info
    BY <1>2, <1>9 DEF init_root, machine
  <2>2. /\ \A x \in Range(todo') : x.kind # "higher_half"
        /\ \A k \in DOMAIN info.memoryMap : Item("descriptor", k, Idle) \in Range(todo')
    BY <1>1, <2>1, ProgramItems
  <2>3. ASSUME NEW k \in DOMAIN info.memoryMap PROVE Left("descriptor", k)'
    <3>1. Item("descriptor", k, Idle).kind = "descriptor" /\ Item("descriptor", k, Idle).n = k
      BY DEF Item
    <3> QED BY <2>2, <3>1 DEF Left
  <2>4. Ordered' /\ Complete'
    BY <2>1, <2>2, <2>3 DEF Assured
  <2> QED BY <1>7, <2>1, <2>4
<1>10. CASE init_fails \/ map_range_runs_away
  BY <1>6, <1>10 DEF init_fails, map_range_runs_away
\* The next thing to do is taken; the tables stay as they are.
<1>11. ASSUME phase = "init", phase' = "init", call = Idle,
              UNCHANGED <<info, mem, g_pml4_p, g_hh_enabled, calls, dropped>>,
              Undisturbed => Ordered'
                /\ \A k \in DOMAIN info.memoryMap, u \in Address :
                     /\ Left("descriptor", k) =>
                          \/ Left("descriptor", k)'
                          \/ /\ Going(IdentityOf(k), u) => Going(call', u)
                             /\ Left("higher_half", k)'
                     /\ Left("higher_half", k) =>
                          \/ Left("higher_half", k)'
                          \/ is_mappable(info.memoryMap[k].type) /\ Going(HigherHalfOf(k), u)
                               => Going(call', u)
       PROVE  BootInv'
  <2>1. Undisturbed' => Undisturbed
    BY <1>11 DEF Undisturbed, MapOverwritten
  <2>2. ASSUME Undisturbed, NEW k \in DOMAIN info.memoryMap, NEW u \in Address
        PROVE  Assured(k, u)'
    <3>1. /\ (Going(IdentityOf(k), u))' <=> Going(IdentityOf(k), u)
          /\ (Going(HigherHalfOf(k), u))' <=> Going(HigherHalfOf(k), u)
          /\ Lookup(u)' = Lookup(u) /\ Going(call, u)' = Going(call', u)
      BY <1>11 DEF Going, IdentityOf, HigherHalfOf, Lookup
    <3>2. ~Going(call, u)
      BY <1>3, <1>11
    <3>3. Assured(k, u)
      BY <1>2, <2>2
    <3> QED BY <1>11, <2>2, <3>1, <3>2, <3>3 DEF Assured
  <2>3. Undisturbed' => Ordered' /\ Complete'
    BY <1>11, <2>1, <2>2
  <2> QED BY <1>2, <1>7, <1>11, <2>3
<1> DEFINE h == Head(todo)
           rest == Tail(todo)
<1>12. ASSUME todo # <<>>
       PROVE  /\ h \in Items /\ rest \in Seq(Items)
              /\ Range(todo) = {h} \cup Range(rest)
              /\ Range(<<>> \o rest) = Range(rest)
              /\ \A x \in Items : Range(<<x>> \o rest) = {x} \cup Range(rest)
  BY <1>1, <1>12, TodoParts
<1>13. CASE init_range
  <2>1. /\ phase = "init" /\ phase' = "init" /\ call = Idle /\ todo # <<>> /\ h.kind = "range"
        /\ todo' = rest
        /\ UNCHANGED <<info, mem, g_pml4_p, g_hh_enabled, calls, dropped>>
    BY <1>13 DEF init_range, machine, history
  <2>2. Undisturbed => Ordered'
    BY <1>2, <1>12, <2>1 DEF HigherHalfOf
  <2>3. ASSUME NEW kind \in {"descriptor", "higher_half"}, NEW k, Left(kind, k)
        PROVE  Left(kind, k)'
    BY <1>12, <2>1, <2>3 DEF Left
  <2> QED BY <1>11, <2>1, <2>2, <2>3
\* A descriptor is read as it is, unless the map was overwritten.
<1>14. ASSUME Undisturbed, todo # <<>>, h.kind # "range", NEW d \in Descriptors(h.n)
       PROVE  d = info.memoryMap[h.n]
  BY <1>14 DEF Undisturbed, Descriptors
<1>15. CASE init_descriptor
  <2>1. /\ phase = "init" /\ phase' = "init" /\ call = Idle /\ todo # <<>>
        /\ h.kind = "descriptor"
        /\ UNCHANGED <<info, mem, g_pml4_p, g_hh_enabled, calls, dropped>>
    BY <1>15 DEF init_descriptor, reads, machine, history
  <2>2. PICK d \in Descriptors(h.n) :
          /\ call' = Identity(d, d.physicalStart)
          /\ todo' = << Item("higher_half", h.n, Identity(d, HH(d.physicalStart))) >> \o rest
    BY <1>15 DEF init_descriptor, reads, HigherHalf
  <2> DEFINE x == Item("higher_half", h.n, Identity(d, HH(d.physicalStart)))
  <2>3. x.kind = "higher_half" /\ x.n = h.n /\ x.range = Identity(d, HH(d.physicalStart))
    BY DEF Item
  <2>4. x \in Items
    <3>1. DescriptorFits(d) /\ h.n \in Nat /\ h.n \in DOMAIN info.memoryMap
      BY <2>1, Read
    <3>2. Identity(d, HH(d.physicalStart)) \in RangeCalls
      BY <3>1, IdentityTyped
    <3> QED BY <3>1, <3>2, ItemTyped
  <2>5. todo' = <<x>> \o rest
    BY <2>2
  <2> HIDE DEF x
  <2>6. Range(todo') = {x} \cup Range(rest)
    BY <1>12, <2>1, <2>4, <2>5
  <2>7. Undisturbed => d = info.memoryMap[h.n]
    BY <1>14, <2>1
  <2>8. Undisturbed => x.range = HigherHalfOf(x.n) /\ call' = IdentityOf(h.n)
    BY <2>2, <2>3, <2>7 DEF HigherHalfOf, IdentityOf
  <2>9. Undisturbed => Ordered'
    BY <1>2, <1>12, <2>1, <2>6, <2>8 DEF HigherHalfOf
  <2>10. ASSUME NEW k, Left("higher_half", k) PROVE Left("higher_half", k)'
    BY <1>12, <2>1, <2>6, <2>10 DEF Left
  <2>11. ASSUME NEW k, Left("descriptor", k)
         PROVE  Left("descriptor", k)' \/ (k = h.n /\ Left("higher_half", k)')
    BY <1>12, <2>1, <2>3, <2>6, <2>11 DEF Left
  <2> HIDE DEF h, rest
  <2> QED BY <1>11, <2>1, <2>8, <2>9, <2>10, <2>11
<1>16. CASE init_higher_half
  <2>1. /\ phase = "init" /\ phase' = "init" /\ call = Idle /\ todo # <<>>
        /\ h.kind = "higher_half"
        /\ UNCHANGED <<info, mem, g_pml4_p, g_hh_enabled, calls, dropped>>
    BY <1>16 DEF init_higher_half, reads, machine, history
  <2>2. PICK d \in Descriptors(h.n) :
          /\ call' = (IF is_mappable(d.type) THEN h.range ELSE Idle)
          /\ todo' = <<>> \o rest
    BY <1>16 DEF init_higher_half, reads
  <2>3. Range(todo') = Range(rest)
    BY <1>12, <2>1, <2>2
  <2>4. Undisturbed => d = info.memoryMap[h.n] /\ h.range = HigherHalfOf(h.n)
    BY <1>2, <1>12, <1>14, <2>1
  <2>5. Undisturbed => Ordered'
    BY <1>2, <1>12, <2>1, <2>3 DEF HigherHalfOf
  <2>6. ASSUME NEW k, Left("descriptor", k) PROVE Left("descriptor", k)'
    BY <1>12, <2>1, <2>3, <2>6 DEF Left
  <2>7. ASSUME NEW k, Left("higher_half", k) PROVE Left("higher_half", k)' \/ k = h.n
    BY <1>12, <2>1, <2>3, <2>7 DEF Left
  <2>8. Undisturbed /\ is_mappable(info.memoryMap[h.n].type) => call' = HigherHalfOf(h.n)
    BY <2>2, <2>4
  <2> HIDE DEF h, rest
  <2> QED BY <1>11, <2>1, <2>5, <2>6, <2>7, <2>8
\* What is left to do when there is nothing left to do.
<1>17. CASE init_switch
  <2>1. /\ phase = "init" /\ call = Idle /\ todo = <<>>
        /\ UNCHANGED <<info, mem, g_pml4_p, todo, call, calls, dropped>>
    BY <1>17 DEF init_switch, machine, history
  <2>2. CASE \A p \in info.running : Lookup(p).phys = p
    <3>1. phase' = "ready"
      BY <1>17, <2>2 DEF init_switch
    <3>2. Undisturbed' => Undisturbed
      BY <2>1 DEF Undisturbed, MapOverwritten
    <3>3. Undisturbed => Ordered' /\ Complete'
      BY <1>2, <2>1 DEF Assured, Left, Going, IdentityOf, HigherHalfOf, Lookup
    <3> QED BY <2>1, <3>1, <3>2, <3>3 DEF BootInv, FaultsHaveACause
  <2>3. ASSUME NEW p \in info.running, Lookup(p).phys # p, Undisturbed PROVE FALSE
    <3>1. PICK k \in DOMAIN info.memoryMap : p \in Nat /\ Describes(info.memoryMap[k], p)
      BY <1>1, <2>3, AddressAssumption
    <3>2. p \in Address /\ Going(IdentityOf(k), p) /\ Straight(p) = p
      BY <1>1, <3>1, Described
    <3>3. Assured(k, p) /\ ~Going(call, p) /\ ~Left("descriptor", k)
      BY <1>2, <1>3, <2>1, <2>3, <3>1, <3>2 DEF Left, Range
    <3>4. Lookup(p) # NoPage
      BY <3>2, <3>3 DEF Assured
    <3>5. StraightAt(p)
      BY <1>1, <2>1, <2>3, <3>2 DEF StraightInv, Undisturbed
    <3> QED BY <2>3, <3>2, <3>4, <3>5 DEF StraightAt
  <2>4. CASE ~(\A p \in info.running : Lookup(p).phys = p)
    <3>1. phase' = "faulted" /\ (calls = 0 => dropped \/ MapOverwritten)
      BY <1>17, <2>1, <2>3, <2>4 DEF init_switch, Undisturbed
    <3> QED BY <2>1, <3>1 DEF BootInv, FaultsHaveACause, Undisturbed, MapOverwritten
  <2> QED BY <2>2, <2>4
\* map_range maps the page or huge page it is at and goes on behind it.
<1>18. ASSUME Running("map_range"), NEW n \in {PAGE_SIZE, HUGE_SIZE}, call.size >= n,
              n = HUGE_SIZE => call.virt % HUGE_SIZE = 0,
              NEW s, Effect(s, call.virt, n), s.at # nullptr => call' = Advance(n),
              UNCHANGED <<info, g_pml4_p, g_hh_enabled, calls, todo>>,
              Maps(s, call.virt, n), Does(s, call.virt, call.phys, call.flags, n)
       PROVE  BootInv'
  <2> DEFINE v == call.virt
  <2>1. /\ mem' = s.mem /\ dropped' = (dropped \/ s.at = nullptr)
        /\ phase' = IF s.fault THEN Missing(s.missed) ELSE IF s.huge THEN Strayed(s.at) ELSE phase
    BY <1>18 DEF Effect
  <2>2. CASE calls # 0
    <3>1. \/ phase' \in {"faulted", "misdirected", "overwritten"}
          \/ UNCHANGED <<phase, g_hh_enabled>>
      BY <1>18, <2>1 DEF Strayed, Missing
    <3> QED BY <1>5, <1>18, <2>2, <3>1
  <2>3. CASE calls = 0
    <3>1. phase = "init" /\ call.op = "map_range"
      BY <1>2, <1>3, <1>18, <2>3 DEF Running
    <3>2. ~g_hh_enabled /\ ~s.fault
      BY <1>2, <1>18, <3>1 DEF Does, Reasons
    <3>3. phase' \in {"init", "overwritten"}
      BY <2>1, <3>1, <3>2 DEF Strayed
    <3>4. Undisturbed' => Undisturbed /\ s.at # nullptr
      <4>1. DOMAIN mem \subseteq DOMAIN mem'
        BY <1>18, <2>1 DEF Does, Reasons
      <4> QED BY <1>18, <2>1, <2>3, <3>1, <4>1 DEF Undisturbed, MapOverwritten
    <3>5. ASSUME s.at # nullptr, NEW u \in Address
          PROVE  /\ Lookup(u) # NoPage => Lookup(u)' # NoPage
                 /\ Going(call, u) => Going(call', u) \/ Lookup(u)' # NoPage
      <4>1. Lookup(u)' = Translate(s.mem, g_pml4_p, u) /\ v \in Address
        <5>1. call.size > 0
          BY <1>0, <1>18, Geometry DEF Fits
        <5> QED BY <1>1, <1>18, <2>1, <3>1, <5>1, MappingAt DEF Lookup
      <4>2. CASE u \div n # v \div n
        <5>1. Lookup(u)' = Lookup(u)
          BY <1>18, <4>1, <4>2 DEF Maps
        <5>2. Going(call, u) => Going(call', u)
          BY <1>1, <1>18, <3>1, <3>5, <4>2, GoingOn
        <5> QED BY <5>1, <5>2
      <4>3. CASE u \div n = v \div n /\ s.huge
        <5>1. Lookup(u)' = Lookup(u) /\ n = PAGE_SIZE /\ Lookup(v).size = HUGE_SIZE
          BY <1>18, <4>1, <4>3 DEF Does, Reasons
        <5>2. Lookup(u) # NoPage
          BY <4>1, <4>3, <5>1, HugeNeighbour
        <5> QED BY <5>1, <5>2
      <4>4. CASE u \div n = v \div n /\ ~s.huge
        <5> DEFINE fl == (IF n = HUGE_SIZE THEN call.flags \ {"PS"} ELSE call.flags) \cup {"P"}
                   a == AlignDown(call.phys, n) + (u % n)
        <5>1. Translate(s.mem, g_pml4_p, u) = [phys |-> a, flags |-> fl, size |-> n]
          BY <1>18, <3>2, <3>5, <4>4 DEF Does
        <5> HIDE DEF fl, a
        <5>2. Lookup(u)'.size = n
          BY <4>1, <5>1
        <5> QED BY <5>2, Sizes
      <4> QED BY <4>2, <4>3, <4>4
    <3>6. ASSUME Undisturbed, s.at # nullptr, NEW k \in DOMAIN info.memoryMap, NEW u \in Address
          PROVE  Assured(k, u)'
      <4>1. /\ (Going(IdentityOf(k), u))' <=> Going(IdentityOf(k), u)
            /\ (Going(HigherHalfOf(k), u))' <=> Going(HigherHalfOf(k), u)
            /\ Left("descriptor", k)' = Left("descriptor", k)
            /\ Left("higher_half", k)' = Left("higher_half", k)
            /\ Going(call, u)' = Going(call', u)
        BY <1>18 DEF Going, IdentityOf, HigherHalfOf, Left
      <4>2. Assured(k, u)
        BY <1>2, <3>6
      <4> QED BY <1>18, <3>5, <3>6, <4>1, <4>2 DEF Assured
    <3>7. Undisturbed => Ordered'
      BY <1>2, <1>18 DEF HigherHalfOf
    <3>8. Undisturbed' => Ordered' /\ Complete'
      BY <1>18, <3>4, <3>6, <3>7
    <3>9. CASE phase' = "overwritten"
      BY <3>9 DEF BootInv, FaultsHaveACause, Undisturbed
    <3> QED BY <1>7, <1>18, <3>2, <3>3, <3>8, <3>9
  <2> QED BY <2>2, <2>3
<1>19. ASSUME Running("map_range"), call.size >= PAGE_SIZE
       PROVE  /\ Tree /\ FreeInv
              /\ call.virt \in Address /\ call.phys \in Nat /\ call.flags \in SUBSET PageFlags
  <2>1. call.size > 0
    BY <1>0, <1>19, Geometry DEF Fits
  <2> QED BY <1>1, <1>19, <2>1, MappingAt DEF Running
<1>20. CASE map_range_huge
  <2>1. /\ Running("map_range") /\ call.size >= HUGE_SIZE /\ call.virt % HUGE_SIZE = 0
        /\ UNCHANGED <<info, g_pml4_p, g_hh_enabled, calls, todo>>
    BY <1>20 DEF map_range_huge, Huge, machine
  <2>2. PICK s \in map_huge(call.virt, call.phys, call.flags) :
          /\ Effect(s, call.virt, HUGE_SIZE)
          /\ call' = IF s.at = nullptr THEN Idle ELSE Advance(HUGE_SIZE)
    BY <1>20 DEF map_range_huge
  <2>3. call.size >= PAGE_SIZE
    BY <1>0, <2>1, SpansGrow, Geometry DEF Fits
  <2>4. /\ Maps(s, call.virt, HUGE_SIZE)
        /\ Does(s, call.virt, call.phys, call.flags, HUGE_SIZE)
    BY <1>19, <2>1, <2>3, MapHugeMaps, MapHugeDoes
  <2> QED BY <1>18, <2>1, <2>2, <2>4
<1>21. CASE map_range_page
  <2>1. /\ Running("map_range") /\ call.size >= PAGE_SIZE /\ call' = Advance(PAGE_SIZE)
        /\ UNCHANGED <<info, g_pml4_p, g_hh_enabled, calls, todo>>
    BY <1>21 DEF map_range_page, machine
  <2>2. PICK s \in map_page(call.virt, call.phys, call.flags) : Effect(s, call.virt, PAGE_SIZE)
    BY <1>21 DEF map_range_page
  <2>3. /\ Maps(s, call.virt, PAGE_SIZE)
        /\ Does(s, call.virt, call.phys, call.flags, PAGE_SIZE)
    BY <1>19, <2>1, MapPageMaps, MapPageDoes
  <2>4. PAGE_SIZE # HUGE_SIZE
    BY Sizes
  <2> QED BY <1>18, <2>1, <2>2, <2>3, <2>4
<1>22. CASE range_done
  <2>1. /\ phase \in {"init", "ready"} /\ call' = Idle
        /\ UNCHANGED <<info, mem, g_pml4_p, g_hh_enabled, calls, dropped, todo, phase>>
        /\ call.op = "unmap_range" \/ (call.op = "map_range" /\ call.size = 0)
    BY <1>22 DEF range_done, Running, machine, history
  <2>2. CASE calls # 0
    BY <1>5, <2>1, <2>2
  <2>3. CASE calls = 0
    <3>1. phase = "init" /\ call.size = 0 /\ call.op = "map_range"
      BY <1>1, <1>2, <1>3, <2>1, <2>3
    <3>2. ASSUME NEW u \in Address PROVE ~Going(call, u)
      <4>1. call.virt \in Nat /\ u \in Nat
        BY <1>1, Geometry DEF Fits, Address
      <4> QED BY <3>1, <4>1 DEF Going
    <3>3. Undisturbed' => Undisturbed
      BY <2>1 DEF Undisturbed, MapOverwritten
    <3>4. Undisturbed => Ordered'
      BY <1>2, <2>1 DEF HigherHalfOf
    <3>5. ASSUME Undisturbed, NEW k \in DOMAIN info.memoryMap, NEW u \in Address
          PROVE  Assured(k, u)'
      <4>1. /\ (Going(IdentityOf(k), u))' <=> Going(IdentityOf(k), u)
            /\ (Going(HigherHalfOf(k), u))' <=> Going(HigherHalfOf(k), u)
            /\ Left("descriptor", k)' = Left("descriptor", k)
            /\ Left("higher_half", k)' = Left("higher_half", k)
            /\ Lookup(u)' = Lookup(u)
        BY <2>1 DEF Going, IdentityOf, HigherHalfOf, Left, Lookup
      <4>2. Assured(k, u) /\ ~Going(call, u)
        BY <1>2, <3>2, <3>5
      <4> QED BY <2>1, <4>1, <4>2 DEF Assured
    <3>6. Undisturbed' => Ordered' /\ Complete'
      BY <2>1, <3>3, <3>4, <3>5
    <3> QED BY <1>2, <1>7, <2>1, <3>1, <3>6
  <2> QED BY <2>2, <2>3
<1>23. CASE \/ unmap_range_skip \/ unmap_range_wraps \/ unmap_range_huge
            \/ unmap_range_page \/ unmap_range_fault
  <2>1. /\ call.op = "unmap_range" /\ calls' = calls
        /\ phase' \notin {"off", "init"} \/ UNCHANGED <<phase, g_hh_enabled>>
    BY <1>23 DEF unmap_range_skip, skips_to, unmap_range_wraps, unmap_range_huge,
                 unmap_range_page, removes_page, unmap_range_fault, Missing, Unmapping, Running,
                 machine
  <2> QED BY <1>1, <1>5, <2>1
\* The kernel's calls come later.
<1>24. CASE \E c \in Calls : api(c)
  <2>1. PICK c \in Calls : api(c)
    BY <1>24
  <2>2. calls' = calls + 1 /\ phase = "ready"
    BY <2>1 DEF api, call_range, call_map_page, call_unmap_page, call_get_phys, call_faults, Begin
  <2>3. phase' \in {"ready", "faulted", "misdirected", "overwritten"}
    <3>1. CASE call_range(c) \/ call_get_phys(c) \/ call_faults(c)
      BY <2>2, <3>1 DEF call_range, call_get_phys, call_faults, Missing
    <3>2. CASE call_map_page(c)
      <4>1. PICK s : Effect(s, c.virt, PAGE_SIZE)
        BY <3>2 DEF call_map_page
      <4> QED BY <2>2, <4>1 DEF Effect, Strayed, Missing
    <3>3. CASE call_unmap_page(c)
      BY <2>2, <3>3 DEF call_unmap_page, unmap_page_clears, unmap_page_ignores, Strayed
    <3> QED BY <2>1, <3>1, <3>2, <3>3 DEF api
  <2> QED BY <1>1, <1>5, <2>2, <2>3
<1>25. CASE tlb_fill
  BY <1>4, <1>25 DEF tlb_fill, machine, history
<1>26. CASE Stopped
  BY <1>4, <1>26 DEF Stopped, vars
<1> QED
  BY <1>8, <1>9, <1>10, <1>13, <1>15, <1>16, <1>17, <1>20, <1>21, <1>22, <1>23, <1>24, <1>25,
     <1>26 DEF Next, init, range_step

------------------------------------------------------------------------------
(* The order in which init maps: what was mapped last, and where huge      *)
(* pages are.                                                              *)

\* What init has to do from item m of its program on.
After(m) == SubSeq(Program(info), m, Len(info.memoryMap) + 7)

\* The rank of the last range before the images, as Wanted numbers them.
LastOfMap == 4 + 2 * Len(info.memoryMap)

\* With s left to do the range of rank q is the next to be mapped.
Place(q, s) ==
  \/ q \in 1..4 /\ s = After(q)
  \/ \E k \in DOMAIN info.memoryMap : q = 3 + 2 * k /\ s = After(4 + k)
  \/ \E k \in DOMAIN info.memoryMap :
       q = 4 + 2 * k /\ s = <<Item("higher_half", k, HigherHalfOf(k))>> \o After(5 + k)
  \/ \E k \in 1..4 : q = LastOfMap + k /\ s = After(4 + Len(info.memoryMap) + k)

\* The call is what is left of range r.
RestOf(c, r) ==
  /\ c.op = "map_range" /\ c.flags = r.flags /\ c.opts = r.opts
  /\ c.size > 0 => c.virt >= r.virt /\ c.virt + c.size = r.virt + r.size

Doing(q) == call = Idle \/ \E w \in Wanted : w[1] = q - 1 /\ RestOf(call, w[2])

\* u was mapped for range w, the next range being that of rank q.
Behind(q, w, u) ==
  w \in Wanted /\ w[1] < q /\ Covers(w[2], u) /\ (w[1] = q - 1 => ~Covers(call, u))

\* Huge pages are where a range asked for them.
HugeAt(q, u) ==
  Lookup(u).size = HUGE_SIZE => \E w : Behind(q, w, u) /\ "MAP_HUGE" \in w[2].opts

\* An address is mapped as the latest range says that covers it, and not at all if
\* there is none.
LatestAt(q, u) ==
  \/ Lookup(u) = NoPage /\ \A w : ~Behind(q, w, u)
  \/ /\ Lookup(u) # NoPage
     /\ \E w : /\ Behind(q, w, u) /\ Lookup(u).flags = w[2].flags
               /\ \A x : Behind(q, x, u) => x[1] <= w[1]

\* A range that does not begin on a page never ends.
Crooked == call.size > 0 /\ call.virt % PAGE_SIZE # 0

InOrder(q) ==
  /\ Place(q, todo) /\ Doing(q)
  /\ \A u \in Address : HugeAt(q, u)
  /\ ~dropped => (phase = "init" /\ Crooked) \/ \A u \in Address : LatestAt(q, u)

OrderInv ==
  /\ phase = "off" => stray = {}
  /\ calls = 0 /\ ~MapOverwritten =>
       /\ stray = {}
       /\ phase \in {"init", "ready"} => \E q \in 1..(LastOfMap + 4) : InOrder(q)

\* The ranges of init, by their rank.
LEMMA WantedForms ==
  ASSUME NEW w \in Wanted
  PROVE  \/ w[1] \in 1..4 /\ w[2] = MmioRanges[w[1]]
         \/ \E k \in DOMAIN info.memoryMap : w[1] = 3 + 2 * k /\ w[2] = IdentityOf(k)
         \/ \E k \in DOMAIN info.memoryMap :
              /\ w[1] = 4 + 2 * k /\ w[2] = HigherHalfOf(k)
              /\ is_mappable(info.memoryMap[k].type)
         \/ \E k \in 1..3 : w[1] = LastOfMap + k /\ w[2] = ImageRanges(info)[k]
BY DEF Wanted, IdentityOf, HigherHalfOf, LastOfMap

LEMMA WantedAre ==
  /\ \A k \in 1..4 : <<k, MmioRanges[k]>> \in Wanted
  /\ \A k \in DOMAIN info.memoryMap : <<3 + 2 * k, IdentityOf(k)>> \in Wanted
  /\ \A k \in DOMAIN info.memoryMap : is_mappable(info.memoryMap[k].type) =>
       <<4 + 2 * k, HigherHalfOf(k)>> \in Wanted
  /\ \A k \in 1..3 : <<LastOfMap + k, ImageRanges(info)[k]>> \in Wanted
BY DEF Wanted, IdentityOf, HigherHalfOf, LastOfMap

\* No two ranges have the same rank.
LEMMA WantedRanked ==
  ASSUME info \in Infos, NEW w \in Wanted, NEW x \in Wanted
  PROVE  /\ w[1] \in 1..(LastOfMap + 3)
         /\ w[1] = x[1] => w[2] = x[2]
         /\ \A k \in DOMAIN info.memoryMap :
              w[1] = 4 + 2 * k => is_mappable(info.memoryMap[k].type)
<1> DEFINE n == Len(info.memoryMap)
<1>1. n \in Nat /\ DOMAIN info.memoryMap = 1..n /\ LastOfMap = 4 + 2 * n
  BY AddressAssumption DEF LastOfMap
<1> HIDE DEF n
<1>2. ASSUME NEW y \in Wanted
      PROVE  \/ y[1] \in 1..4 /\ y[2] = MmioRanges[y[1]]
             \/ \E k \in 1..n : y[1] = 3 + 2 * k /\ y[2] = IdentityOf(k)
             \/ \E k \in 1..n : /\ y[1] = 4 + 2 * k /\ y[2] = HigherHalfOf(k)
                                /\ is_mappable(info.memoryMap[k].type)
             \/ \E k \in 1..3 : y[1] = 4 + 2 * n + k /\ y[2] = ImageRanges(info)[k]
  BY <1>1, WantedForms
<1>3. w[1] \in 1..(4 + 2 * n + 3)
  BY <1>1, <1>2
<1>4. \A k \in 1..n : w[1] = 4 + 2 * k => is_mappable(info.memoryMap[k].type)
  <2> SUFFICES ASSUME NEW k \in 1..n, w[1] = 4 + 2 * k
               PROVE  is_mappable(info.memoryMap[k].type)
    OBVIOUS
  <2>1. w[1] \notin 1..4 /\ (\A j \in 1..n : w[1] # 3 + 2 * j)
        /\ \A j \in 1..3 : w[1] # 4 + 2 * n + j
    BY <1>1
  <2>2. PICK j \in 1..n : w[1] = 4 + 2 * j /\ is_mappable(info.memoryMap[j].type)
    BY <1>2, <2>1
  <2> QED BY <1>1, <2>2
<1>5. ASSUME w[1] = x[1] PROVE w[2] = x[2]
  <2>1. CASE w[1] \in 1..4
    <3>1. \A j \in 1..n : w[1] # 3 + 2 * j /\ w[1] # 4 + 2 * j
      BY <1>1, <2>1
    <3>2. \A j \in 1..3 : w[1] # 4 + 2 * n + j
      BY <1>1, <2>1
    <3>3. w[2] = MmioRanges[w[1]] /\ x[2] = MmioRanges[w[1]]
      BY <1>2, <1>5, <3>1, <3>2
    <3> QED BY <3>3
  <2>2. ASSUME NEW k \in 1..n, w[1] = 3 + 2 * k PROVE w[2] = x[2]
    <3>1. w[1] \notin 1..4 /\ (\A j \in 1..n : w[1] # 4 + 2 * j)
          /\ \A j \in 1..3 : w[1] # 4 + 2 * n + j
      BY <1>1, <2>2
    <3>2. (\E j \in 1..n : w[1] = 3 + 2 * j /\ w[2] = IdentityOf(j))
          /\ \E j \in 1..n : x[1] = 3 + 2 * j /\ x[2] = IdentityOf(j)
      BY <1>2, <1>5, <3>1
    <3>3. \A j \in 1..n : w[1] = 3 + 2 * j => j = k
      BY <1>1, <2>2
    <3> QED BY <1>5, <3>2, <3>3
  <2>3. ASSUME NEW k \in 1..n, w[1] = 4 + 2 * k PROVE w[2] = x[2]
    <3>1. w[1] \notin 1..4 /\ (\A j \in 1..n : w[1] # 3 + 2 * j)
          /\ \A j \in 1..3 : w[1] # 4 + 2 * n + j
      BY <1>1, <2>3
    <3>2. (\E j \in 1..n : w[1] = 4 + 2 * j /\ w[2] = HigherHalfOf(j))
          /\ \E j \in 1..n : x[1] = 4 + 2 * j /\ x[2] = HigherHalfOf(j)
      BY <1>2, <1>5, <3>1
    <3>3. \A j \in 1..n : w[1] = 4 + 2 * j => j = k
      BY <1>1, <2>3
    <3> QED BY <1>5, <3>2, <3>3
  <2>4. ASSUME NEW k \in 1..3, w[1] = 4 + 2 * n + k PROVE w[2] = x[2]
    <3>1. w[1] \notin 1..4 /\ \A j \in 1..n : w[1] # 3 + 2 * j /\ w[1] # 4 + 2 * j
      BY <1>1, <2>4
    <3>2. (\E j \in 1..3 : w[1] = 4 + 2 * n + j /\ w[2] = ImageRanges(info)[j])
          /\ \E j \in 1..3 : x[1] = 4 + 2 * n + j /\ x[2] = ImageRanges(info)[j]
      BY <1>2, <1>5, <3>1
    <3>3. \A j \in 1..3 : w[1] = 4 + 2 * n + j => j = k
      BY <1>1, <2>4
    <3> QED BY <1>5, <3>2, <3>3
  <2> QED BY <1>2, <2>1, <2>2, <2>3, <2>4
<1> QED
  BY <1>1, <1>3, <1>4, <1>5

\* map_range rounds the end of a range up to a page.
LEMMA RangeEnd ==
  ASSUME NEW v, NEW p, NEW s \in Nat, NEW f, NEW o, Fits(map_range(v, p, s, f, o))
  PROVE  LET c == map_range(v, p, s, f, o) IN (c.virt + c.size) % PAGE_SIZE = 0
<1> DEFINE c == map_range(v, p, s, f, o)
           P == PAGE_SIZE
           y == Plus(Plus(v, s), P - 1)
           e == AlignDown(y, P)
<1>1. P \in Nat \ {0} /\ WORD \in Nat \ {0}
  BY Geometry
<1>2. c.op = "map_range" /\ c.virt = v /\ c.size = Minus(e, v)
  BY DEF map_range, Call, RoundUp
<1>3. v \in Nat /\ v < WORD /\ v + c.size <= WORD /\ c.size \in Nat
  <2> HIDE DEF c
  <2> QED BY <1>1, <1>2 DEF Fits, c
<1> HIDE DEF c
<1>4. y \in Nat /\ y < WORD
  <2>1. Plus(v, s) \in Nat
    <3>1. v + s \in Int
      BY <1>3
    <3> HIDE DEF P
    <3> QED BY <1>1, <3>1, Quotient DEF Plus
  <2>2. Plus(v, s) + (P - 1) \in Int
    BY <1>1, <2>1
  <2> HIDE DEF P
  <2> QED BY <1>1, <2>2, Quotient DEF Plus
<1>5. e \in Nat /\ e % P = 0 /\ e = P * (y \div P) /\ y \div P \in Nat /\ e <= y
  <2> HIDE DEF P, y
  <2>1. y \in Int
    BY <1>4
  <2>2. P * (y \div P) <= y
    BY <1>1, <2>1, Quotient
  <2> QED BY <1>1, <1>4, <2>2, AlignedDown
<1>6. PICK m \in Nat : WORD = P * m
  <2>1. PICK j \in Nat \ {0} : PML4_SPAN = P * j
    BY WholePages DEF Spans
  <2>2. ENTRIES \in Nat /\ WORD = 2 * (P * j) * ENTRIES
    BY <2>1, Geometry DEF WORD
  <2> HIDE DEF P
  <2>3. WORD = P * (2 * j * ENTRIES) /\ 2 * j * ENTRIES \in Nat
    BY <1>1, <2>2
  <2> QED BY <2>3
<1> HIDE DEF P, y, e
<1>7. CASE e >= v
  <2>1. e - v \in Nat /\ e - v < WORD
    BY <1>1, <1>3, <1>4, <1>5, <1>7
  <2>2. c.size = e - v
    BY <1>1, <1>2, <2>1, Small DEF Minus
  <2> QED BY <1>2, <1>3, <1>5, <2>2 DEF c, P
<1>8. CASE e < v
  <2>1. /\ e - v \in Int /\ WORD * (0 - 1) <= e - v /\ e - v < WORD * (0 - 1) + WORD
        /\ 0 - 1 \in Int
    BY <1>1, <1>3, <1>5, <1>8
  <2>2. (e - v) \div WORD = 0 - 1
    BY <1>1, <2>1, QuotientIs
  <2>3. e - v = WORD * ((e - v) \div WORD) + ((e - v) % WORD)
    BY <1>1, <2>1, Quotient
  <2>4. (e - v) % WORD \in Int
    BY <1>1, <2>1, Quotient
  <2>5. WORD * (0 - 1) = 0 - WORD
    BY <1>1
  <2>6. c.size = e - v + WORD
    BY <1>1, <1>2, <1>3, <1>5, <2>2, <2>3, <2>4, <2>5 DEF Minus
  <2>7. v + c.size = WORD
    BY <1>1, <1>3, <1>5, <2>6
  <2>8. (P * m) % P = 0
    BY <1>1, <1>6, Multiple
  <2> QED BY <1>2, <1>6, <2>7, <2>8 DEF c, P
<1> QED
  BY <1>3, <1>5, <1>7, <1>8

\* A range keeps its half: all of it is mapped straight.
LEMMA RangeStraight ==
  ASSUME NEW r \in RangeCalls, r.op = "map_range", NEW u \in Nat, Covers(r, u)
  PROVE  /\ r.phys + (u - r.virt) = Straight(u) /\ r.phys \in Nat
         /\ Straight(u) >= r.phys /\ Straight(u) < r.phys + r.size /\ u \in Address
<1> DEFINE L == PML4_SPAN * (ENTRIES \div 2)
           v == r.virt
<1>1. L \in Nat \ {0} /\ WORD = 4 * L /\ HIGHER_HALF_OFFSET = 3 * L
  BY HigherHalfAt, Geometry
<1>2. /\ v \in Nat /\ v < WORD /\ r.size \in Nat /\ v + r.size <= WORD /\ r.phys \in Nat
      /\ \A a \in v..(v + r.size - 1) : Usable(a)
  BY <1>1 DEF Fits, RangeCalls
<1>3. u >= v /\ u < v + r.size
  BY DEF Covers
<1>4. r.size > 0 /\ r.phys = Straight(v)
  BY <1>2, <1>3 DEF RangeCalls, StraightCall
<1>5. ~(v < HIGHER_HALF_OFFSET /\ u >= HIGHER_HALF_OFFSET)
  <2>1. SUFFICES ASSUME v < 3 * L, u >= 3 * L PROVE FALSE
    BY <1>1
  <2>2. Usable(3 * L - 1)
    BY <1>1, <1>2, <1>3, <2>1
  <2>3. 3 * L - 1 < L \/ 3 * L - 1 >= 3 * L
    BY <1>1, <2>2 DEF Usable, Canonical
  <2> HIDE DEF L
  <2> QED BY <1>1, <2>3
<1>6. Usable(u) /\ u \in 0..(WORD - 1)
  BY <1>1, <1>2, <1>3
<1> HIDE DEF L
<1>7. Straight(u) = Straight(v) + (u - v)
  BY <1>1, <1>2, <1>3, <1>5 DEF Straight
<1>8. u \in Address
  BY <1>6 DEF Address
<1> QED
  BY <1>2, <1>3, <1>4, <1>7, <1>8

\* Two ranges that cover an address map the same memory there.
LEMMA SameMemory ==
  ASSUME NEW r \in RangeCalls, r.op = "map_range", NEW s \in RangeCalls, s.op = "map_range",
         NEW u \in Nat, Covers(r, u), Covers(s, u)
  PROVE  ~Apart(r, s) /\ ~Apart(s, r)
<1>1. /\ r.phys \in Nat /\ s.phys \in Nat /\ Straight(u) \in Int
      /\ Straight(u) >= r.phys /\ Straight(u) < r.phys + r.size
      /\ Straight(u) >= s.phys /\ Straight(u) < s.phys + s.size
      /\ r.size \in Nat /\ s.size \in Nat
  <2>1. Straight(u) \in Int
    BY HigherHalfAt DEF Straight
  <2> QED BY <2>1, RangeStraight DEF RangeCalls
<1> QED
  BY <1>1 DEF Apart

\* The ranges begin and end in the address space, and their flags are those of the entries.
LEMMA WantedTyped ==
  ASSUME info \in Infos, NEW w \in Wanted
  PROVE  /\ w[2] \in RangeCalls /\ w[2].op = "map_range"
         /\ (w[2].virt + w[2].size) % PAGE_SIZE = 0
         /\ "P" \in w[2].flags /\ "PS" \notin w[2].flags
<1> DEFINE r == w[2]
<1>1. /\ MMIO_SIZE \in Nat /\ PCI_MMIO_SIZE \in Nat
      /\ info.frameBufferSize \in Nat /\ info.kernelSize \in Nat
      /\ \A k \in 1..4 : Fits(MmioRanges[k])
      /\ \A k \in 1..3 : Fits(ImageRanges(info)[k])
      /\ \A k \in DOMAIN info.memoryMap : MemoryFits(info.memoryMap[k])
      /\ \A a \in {LAPIC_BASE, IOAPIC_BASE, PCI_MMIO_BASE, info.frameBufferBase,
                   info.kernelBase} : a = Straight(a) /\ a = Straight(HH(a))
      /\ "RW" \in MMIO
  BY AddressAssumption, LowStraight DEF MMIO
<1> DEFINE Good(c) ==
             /\ c \in RangeCalls /\ c.op = "map_range" /\ (c.virt + c.size) % PAGE_SIZE = 0
             /\ "P" \in c.flags /\ "PS" \notin c.flags
<1>2. ASSUME NEW v, NEW p, NEW s \in Nat, NEW f, NEW o \in SUBSET {"MAP_HUGE"},
             Fits(map_range(v, p, s, f, o)), p = Straight(v), {"P", "RW"} \subseteq f,
             "PS" \notin f
      PROVE  Good(map_range(v, p, s, f, o))
  <2>1. map_range(v, p, s, f, o).op = "map_range" /\ map_range(v, p, s, f, o).flags = f
    BY DEF map_range, Call
  <2>2. map_range(v, p, s, f, o) \in RangeCalls
    BY <1>2, RangeTyped
  <2> QED BY <1>2, <2>1, <2>2, RangeEnd
<1>3. ASSUME NEW k \in 1..4 PROVE Good(MmioRanges[k])
  <2> DEFINE fl == MMIO \cup {"NX"}
  <2>1. /\ {"P", "RW"} \subseteq MMIO /\ "PS" \notin MMIO
        /\ {"P", "RW"} \subseteq fl /\ "PS" \notin fl
    BY DEF MMIO
  <2>2. /\ MmioRanges[1] = map_range(LAPIC_BASE, LAPIC_BASE, MMIO_SIZE, MMIO, {})
        /\ MmioRanges[2] = map_range(IOAPIC_BASE, IOAPIC_BASE, MMIO_SIZE, MMIO, {})
        /\ MmioRanges[3] = map_range(PCI_MMIO_BASE, PCI_MMIO_BASE, PCI_MMIO_SIZE, fl, {})
        /\ MmioRanges[4] = map_range(HH(PCI_MMIO_BASE), PCI_MMIO_BASE, PCI_MMIO_SIZE, fl, {})
    BY DEF MmioRanges
  <2> HIDE DEF Good, fl
  <2>3. Good(MmioRanges[1])
    BY <1>1, <1>2, <2>1, <2>2
  <2>4. Good(MmioRanges[2])
    BY <1>1, <1>2, <2>1, <2>2
  <2>5. Good(MmioRanges[3])
    BY <1>1, <1>2, <2>1, <2>2
  <2>6. Good(MmioRanges[4])
    BY <1>1, <1>2, <2>1, <2>2
  <2>7. k = 1 \/ k = 2 \/ k = 3 \/ k = 4
    OBVIOUS
  <2> QED BY <2>3, <2>4, <2>5, <2>6, <2>7
<1>4. ASSUME NEW k \in 1..3 PROVE Good(ImageRanges(info)[k])
  <2> DEFINE i == ImageRanges(info)
             fl == {"P", "RW", "NX"}
             fb == info.frameBufferBase
  <2>1. /\ i[1] = map_range(fb, fb, info.frameBufferSize, fl, {"MAP_HUGE"})
        /\ i[2] = map_range(HH(info.kernelBase), info.kernelBase, info.kernelSize,
                            {"P", "RW"}, {"MAP_HUGE"})
        /\ i[3] = map_range(HH(fb), fb, info.frameBufferSize, fl, {"MAP_HUGE"})
    BY DEF ImageRanges, FrameBuffer
  <2>2. /\ {"P", "RW"} \subseteq fl /\ "PS" \notin fl /\ "PS" \notin {"P", "RW"}
        /\ Fits(i[1]) /\ Fits(i[2]) /\ Fits(i[3])
    BY <1>1
  <2> HIDE DEF Good, fl, i
  <2>3. Good(i[1])
    BY <1>1, <1>2, <2>1, <2>2
  <2>4. Good(i[2])
    BY <1>1, <1>2, <2>1, <2>2
  <2>5. Good(i[3])
    BY <1>1, <1>2, <2>1, <2>2
  <2>6. k = 1 \/ k = 2 \/ k = 3
    OBVIOUS
  <2> QED BY <2>3, <2>4, <2>5, <2>6 DEF i
<1>5. ASSUME NEW k \in DOMAIN info.memoryMap PROVE Good(IdentityOf(k)) /\ Good(HigherHalfOf(k))
  <2> DEFINE d == info.memoryMap[k]
             a == d.physicalStart
             n == d.numberOfPages * PAGE_SIZE
             o == IF d.type \in HugeTypes THEN {"MAP_HUGE"} ELSE {}
  <2>1. MemoryFits(d) /\ DescriptorFits(d) /\ n \in Nat
    BY <1>1, Geometry DEF MemoryFits
  <2>2. a = Straight(a) /\ a = Straight(HH(a))
    BY <2>1, LowStraight DEF DescriptorFits
  <2>3. /\ IdentityOf(k) = map_range(a, a, n, {"P", "RW"}, o)
        /\ HigherHalfOf(k) = map_range(HH(a), a, n, {"P", "RW"}, o)
    BY DEF IdentityOf, HigherHalfOf, Identity
  <2>4. Fits(IdentityOf(k)) /\ Fits(HigherHalfOf(k))
    BY <2>1 DEF DescriptorFits, IdentityOf, HigherHalfOf
  <2>5. o \in SUBSET {"MAP_HUGE"} /\ "PS" \notin {"P", "RW"}
    OBVIOUS
  <2> HIDE DEF Good, a, n, o
  <2> QED BY <1>2, <2>1, <2>2, <2>3, <2>4, <2>5
<1>6. Good(r)
  <2> HIDE DEF Good
  <2> QED BY <1>3, <1>4, <1>5, WantedForms
<1> QED
  BY <1>6

LEMMA HigherIs ==
  ASSUME NEW a, LowAddress(a)
  PROVE  HH(a) = HIGHER_HALF_OFFSET + a /\ HH(a) \in Nat
<1> DEFINE L == PML4_SPAN * (ENTRIES \div 2)
<1>1. L \in Nat /\ WORD = 4 * L /\ HIGHER_HALF_OFFSET = 3 * L /\ WORD \in Nat \ {0}
  BY HigherHalfAt, Geometry
<1>2. a \in Nat /\ a < L
  BY DEF LowAddress
<1> HIDE DEF L
<1>3. 3 * L + a \in Nat /\ 3 * L + a < WORD
  BY <1>1, <1>2
<1> QED
  BY <1>1, <1>3, Small DEF HH, Plus

\* No range covers an address where an earlier one has a huge page: they are apart, or in
\* different halves.
LEMMA HugeAlone ==
  ASSUME info \in Infos, NEW x \in Wanted, NEW w \in Wanted, x[1] < w[1],
         NEW u \in Nat, Covers(x[2], u), Covers(w[2], u)
  PROVE  "MAP_HUGE" \notin x[2].opts
<1> DEFINE m == info.memoryMap
           n == Len(info.memoryMap)
           im == ImageRanges(info)
<1> SUFFICES ASSUME "MAP_HUGE" \in x[2].opts PROVE FALSE
  OBVIOUS
<1>1. n \in Nat /\ DOMAIN m = 1..n /\ LastOfMap = 4 + 2 * n
  BY AddressAssumption DEF LastOfMap
<1>2. ~Apart(x[2], w[2]) /\ ~Apart(w[2], x[2])
  BY SameMemory, WantedTyped
<1>3. ASSUME NEW k \in DOMAIN m
      PROVE  /\ IdentityOf(k).phys = m[k].physicalStart
             /\ HigherHalfOf(k).phys = m[k].physicalStart
             /\ IdentityOf(k).virt = m[k].physicalStart
             /\ HigherHalfOf(k).virt = HIGHER_HALF_OFFSET + m[k].physicalStart
             /\ IdentityOf(k).size = HigherHalfOf(k).size /\ m[k].physicalStart \in Nat
             /\ "MAP_HUGE" \in IdentityOf(k).opts \cup HigherHalfOf(k).opts
                  => m[k].type \in HugeTypes
  <2> DEFINE d == m[k]
  <2>1. MemoryFits(d) /\ LowAddress(d.physicalStart)
    BY AddressAssumption DEF MemoryFits, DescriptorFits
  <2>2. /\ Identity(d, d.physicalStart).virt = d.physicalStart
        /\ Identity(d, d.physicalStart).size = d.numberOfPages * PAGE_SIZE
        /\ Identity(d, HH(d.physicalStart)).virt = HH(d.physicalStart)
        /\ Identity(d, HH(d.physicalStart)).size = d.numberOfPages * PAGE_SIZE
    BY <2>1, IdentityIs
  <2>3. HH(d.physicalStart) = HIGHER_HALF_OFFSET + d.physicalStart /\ d.physicalStart \in Nat
    BY <2>1, HigherIs DEF LowAddress
  <2>4. ASSUME NEW b PROVE /\ Identity(d, b).phys = d.physicalStart
                           /\ "MAP_HUGE" \in Identity(d, b).opts => d.type \in HugeTypes
    BY DEF Identity, map_range, Call
  <2> QED BY <2>2, <2>3, <2>4 DEF IdentityOf, HigherHalfOf
<1>4. ASSUME NEW j \in DOMAIN m, NEW k \in DOMAIN m, j # k
      PROVE  Apart(IdentityOf(j), IdentityOf(k))
  BY <1>4, ApartAssumption DEF IdentityOf
<1>5. ASSUME NEW k \in DOMAIN m, NEW l \in 1..3, m[k].type \in HugeTypes
      PROVE  Apart(IdentityOf(k), im[l])
  BY <1>5, ApartAssumption DEF IdentityOf
<1>6. Apart(im[2], im[1]) /\ Apart(im[2], im[3])
  BY ApartAssumption
\* An identity mapping lies below the higher half.
<1>7. ASSUME NEW y \in Wanted, Covers(y[2], u), y[2].phys = y[2].virt
      PROVE  u < HIGHER_HALF_OFFSET
  <2>1. y[2].phys + (u - y[2].virt) = Straight(u) /\ y[2].virt \in Nat
    BY <1>7, WantedTyped, RangeStraight DEF RangeCalls
  <2>2. u = Straight(u)
    BY <1>7, <2>1
  <2>3. HIGHER_HALF_OFFSET \in Nat \ {0}
    BY HigherHalfAt, Geometry
  <2> QED BY <2>2, <2>3 DEF Straight
<1>8. x[1] \notin 1..4
  <2>1. \A k \in 1..4 : MmioRanges[k].opts = {}
    <3>1. /\ MmioRanges[1].opts = {} /\ MmioRanges[2].opts = {}
          /\ MmioRanges[3].opts = {} /\ MmioRanges[4].opts = {}
      BY DEF MmioRanges, map_range, Call
    <3>2. \A k \in 1..4 : k = 1 \/ k = 2 \/ k = 3 \/ k = 4
      OBVIOUS
    <3> QED BY <3>1, <3>2
  <2> SUFFICES ASSUME x[1] \in 1..4 PROVE FALSE
    OBVIOUS
  <2>2. x[2] = MmioRanges[x[1]]
    <3>1. <<x[1], MmioRanges[x[1]]>> \in Wanted
      BY WantedAre
    <3> QED BY <3>1, WantedRanked
  <2> QED BY <2>1, <2>2
<1>9. w[1] \notin 1..4
  BY <1>1, <1>8, WantedRanked
<1>10. ASSUME NEW j \in DOMAIN m, x[2] = IdentityOf(j) \/ x[2] = HigherHalfOf(j)
       PROVE  m[j].type \in HugeTypes /\ x[2].phys = IdentityOf(j).phys
              /\ x[2].size = IdentityOf(j).size
  BY <1>3, <1>10
<1>11. ASSUME NEW j \in DOMAIN m, NEW k \in DOMAIN m,
              x[2] = IdentityOf(j) \/ x[2] = HigherHalfOf(j),
              w[2] = IdentityOf(k) \/ w[2] = HigherHalfOf(k)
       PROVE  j = k
  <2> SUFFICES ASSUME j # k PROVE FALSE
    OBVIOUS
  <2>1. Apart(IdentityOf(j), IdentityOf(k))
    BY <1>4
  <2>2. w[2].phys = IdentityOf(k).phys /\ w[2].size = IdentityOf(k).size
    BY <1>3, <1>11
  <2> QED BY <1>2, <1>10, <1>11, <2>1, <2>2 DEF Apart
<1>12. ASSUME NEW j \in DOMAIN m, NEW l \in 1..3,
              x[2] = IdentityOf(j) \/ x[2] = HigherHalfOf(j), w[2] = im[l]
       PROVE  FALSE
  <2>1. Apart(IdentityOf(j), im[l])
    BY <1>5, <1>10, <1>12
  <2> QED BY <1>2, <1>10, <1>12, <2>1 DEF Apart
\* The two ranges of one descriptor, and of the frame buffer, lie in different halves.
<1>13. ASSUME NEW j \in DOMAIN m, x[2] = IdentityOf(j), w[2] = HigherHalfOf(j) PROVE FALSE
  <2>1. u < HIGHER_HALF_OFFSET
    BY <1>3, <1>7, <1>13
  <2>2. u >= HIGHER_HALF_OFFSET + m[j].physicalStart
    BY <1>3, <1>13 DEF Covers
  <2>3. HIGHER_HALF_OFFSET \in Nat
    BY HigherHalfAt
  <2> QED BY <1>3, <2>1, <2>2, <2>3
<1>14. ASSUME x[2] = im[1], w[2] = im[3] PROVE FALSE
  <2> DEFINE fb == info.frameBufferBase
  <2>1. im[1].virt = fb /\ im[1].phys = fb /\ im[3].virt = HH(fb)
    BY DEF ImageRanges, FrameBuffer, map_range, Call
  <2>2. HH(fb) = HIGHER_HALF_OFFSET + fb /\ fb \in Nat /\ HIGHER_HALF_OFFSET \in Nat
    BY HigherIs, HigherHalfAt, AddressAssumption DEF LowAddress
  <2>3. u < HIGHER_HALF_OFFSET
    BY <1>7, <1>14, <2>1
  <2>4. u >= HH(fb)
    BY <1>14, <2>1 DEF Covers
  <2> QED BY <2>2, <2>3, <2>4
<1>15. CASE \E j \in DOMAIN m : x[1] = 3 + 2 * j /\ x[2] = IdentityOf(j)
  <2>1. PICK j \in DOMAIN m : x[1] = 3 + 2 * j /\ x[2] = IdentityOf(j)
    BY <1>15
  <2>2. ASSUME NEW k \in DOMAIN m, w[1] = 3 + 2 * k, w[2] = IdentityOf(k) PROVE FALSE
    BY <1>1, <1>11, <2>1, <2>2
  <2>3. ASSUME NEW k \in DOMAIN m, w[1] = 4 + 2 * k, w[2] = HigherHalfOf(k) PROVE FALSE
    BY <1>11, <1>13, <2>1, <2>3
  <2> QED BY <1>9, <1>12, <2>1, <2>2, <2>3, WantedForms
<1>16. CASE \E j \in DOMAIN m : x[1] = 4 + 2 * j /\ x[2] = HigherHalfOf(j)
  <2>1. PICK j \in DOMAIN m : x[1] = 4 + 2 * j /\ x[2] = HigherHalfOf(j)
    BY <1>16
  <2>2. ASSUME NEW k \in DOMAIN m, w[1] = 3 + 2 * k, w[2] = IdentityOf(k) PROVE FALSE
    BY <1>1, <1>11, <2>1, <2>2
  <2>3. ASSUME NEW k \in DOMAIN m, w[1] = 4 + 2 * k, w[2] = HigherHalfOf(k) PROVE FALSE
    BY <1>1, <1>11, <2>1, <2>3
  <2> QED BY <1>9, <1>12, <2>1, <2>2, <2>3, WantedForms
<1>17. CASE \E l \in 1..3 : x[1] = LastOfMap + l /\ x[2] = im[l]
  <2>1. PICK l \in 1..3 : x[1] = LastOfMap + l /\ x[2] = im[l]
    BY <1>17
  <2>2. \A k \in DOMAIN m : w[1] # 3 + 2 * k /\ w[1] # 4 + 2 * k
    BY <1>1, <2>1, WantedRanked, SMTT(30)
  <2>3. PICK h \in 1..3 : w[1] = LastOfMap + h /\ w[2] = im[h]
    BY <1>9, <2>2, WantedForms
  <2>4. l < h
    BY <1>1, <2>1, <2>3
  <2>5. (l = 1 /\ h = 2) \/ (l = 1 /\ h = 3) \/ (l = 2 /\ h = 3)
    BY <2>4
  <2> QED BY <1>2, <1>6, <1>14, <2>1, <2>3, <2>5
<1> QED
  BY <1>8, <1>15, <1>16, <1>17, WantedForms

\* The items of init's program, in order.
LEMMA ProgramAt ==
  ASSUME info \in Infos
  PROVE  LET n == Len(info.memoryMap) IN
         /\ n \in Nat /\ DOMAIN info.memoryMap = 1..n
         /\ Program(info) \in Seq(Items) /\ Len(Program(info)) = n + 7
         /\ \A k \in 1..4 : Program(info)[k] = Item("range", 0, MmioRanges[k])
         /\ \A k \in 1..n : Program(info)[4 + k] = Item("descriptor", k, Idle)
         /\ \A k \in 1..3 : Program(info)[4 + n + k] = Item("range", 0, ImageRanges(info)[k])
<1> DEFINE n == Len(info.memoryMap)
           mm == Ranges(MmioRanges)
           dm == DescriptorItems
           im == Ranges(ImageRanges(info))
<1>1. n \in Nat /\ DOMAIN info.memoryMap = 1..n
  BY AddressAssumption
<1>2. /\ Program(info) = (mm \o dm) \o im
      /\ mm \in Seq(Items) /\ dm \in Seq(Items) /\ im \in Seq(Items) /\ mm \o dm \in Seq(Items)
      /\ Program(info) \in Seq(Items)
  BY ProgramParts
<1>3. DOMAIN mm = 1..4 /\ \A k \in 1..4 : mm[k] = Item("range", 0, MmioRanges[k])
  <2>1. DOMAIN MmioRanges = 1..4
    BY DEF MmioRanges
  <2> QED BY <2>1 DEF Ranges
<1>4. DOMAIN im = 1..3 /\ \A k \in 1..3 : im[k] = Item("range", 0, ImageRanges(info)[k])
  <2>1. DOMAIN ImageRanges(info) = 1..3
    BY DEF ImageRanges
  <2> QED BY <2>1 DEF Ranges
<1>5. DOMAIN dm = 1..n /\ \A k \in 1..n : dm[k] = Item("descriptor", k, Idle)
  BY <1>1 DEF DescriptorItems
<1> HIDE DEF n, mm, dm, im
<1>6. Len(mm) = 4 /\ Len(dm) = n /\ Len(im) = 3
  <2>1. /\ Len(mm) \in Nat /\ DOMAIN mm = 1..Len(mm)
        /\ Len(dm) \in Nat /\ DOMAIN dm = 1..Len(dm)
        /\ Len(im) \in Nat /\ DOMAIN im = 1..Len(im)
    BY <1>2, LenProperties
  <2> QED BY <1>1, <1>3, <1>4, <1>5, <2>1
<1>7. /\ Len(mm \o dm) = 4 + n
      /\ \A i \in 1..(4 + n) : (mm \o dm)[i] = IF i <= 4 THEN mm[i] ELSE dm[i - 4]
  <2>1. /\ Len(mm \o dm) = Len(mm) + Len(dm)
        /\ \A i \in 1..(Len(mm) + Len(dm)) :
             (mm \o dm)[i] = IF i <= Len(mm) THEN mm[i] ELSE dm[i - Len(mm)]
    BY <1>2, ConcatProperties
  <2> QED BY <1>6, <2>1
<1>8. /\ Len(Program(info)) = 4 + n + 3
      /\ \A i \in 1..(4 + n + 3) :
           Program(info)[i] = IF i <= 4 + n THEN (mm \o dm)[i] ELSE im[i - (4 + n)]
  <2> DEFINE md == mm \o dm
  <2>1. md \in Seq(Items) /\ Program(info) = md \o im /\ Len(md) = 4 + n
    BY <1>2, <1>7
  <2> HIDE DEF md
  <2>2. /\ Len(md \o im) = Len(md) + Len(im)
        /\ \A i \in 1..(Len(md) + Len(im)) :
             (md \o im)[i] = IF i <= Len(md) THEN md[i] ELSE im[i - Len(md)]
    BY <1>2, <2>1, ConcatProperties
  <2>3. /\ Len(Program(info)) = 4 + n + 3
        /\ \A i \in 1..(4 + n + 3) :
             Program(info)[i] = IF i <= 4 + n THEN md[i] ELSE im[i - (4 + n)]
    BY <1>6, <2>1, <2>2
  <2> QED BY <2>3 DEF md
<1>9. ASSUME NEW k \in 1..4 PROVE Program(info)[k] = Item("range", 0, MmioRanges[k])
  BY <1>1, <1>3, <1>7, <1>8
<1>10. ASSUME NEW k \in 1..n PROVE Program(info)[4 + k] = Item("descriptor", k, Idle)
  <2>1. /\ 4 + k \in 1..(4 + n) /\ 4 + k \in 1..(4 + n + 3) /\ 4 + k <= 4 + n
        /\ ~(4 + k <= 4) /\ 4 + k - 4 = k
    BY <1>1
  <2> QED BY <1>5, <1>7, <1>8, <2>1
<1>11. ASSUME NEW k \in 1..3
       PROVE  Program(info)[4 + n + k] = Item("range", 0, ImageRanges(info)[k])
  <2>1. /\ 4 + n + k \in 1..(4 + n + 3) /\ ~(4 + n + k <= 4 + n)
        /\ (4 + n + k) - (4 + n) = k
    BY <1>1
  <2>2. Program(info)[4 + n + k] = im[(4 + n + k) - (4 + n)]
    <3> DEFINE j == 4 + n + k
    <3>1. j \in 1..(4 + n + 3) /\ ~(j <= 4 + n)
      BY <2>1
    <3> HIDE DEF j
    <3>2. Program(info)[j] = im[j - (4 + n)]
      BY <1>8, <3>1
    <3> QED BY <3>2 DEF j
  <2> QED BY <1>4, <2>1, <2>2
<1>12. Len(Program(info)) = n + 7
  BY <1>1, <1>8
<1> QED
  BY <1>1, <1>2, <1>9, <1>10, <1>11, <1>12 DEF n

LEMMA AfterIs ==
  ASSUME info \in Infos
  PROVE  LET n == Len(info.memoryMap) IN
         /\ After(1) = Program(info) /\ After(n + 8) = <<>>
         /\ \A i \in 1..(n + 8) : After(i) \in Seq(Items)
         /\ \A i \in 1..(n + 7) : /\ After(i) # <<>> /\ Head(After(i)) = Program(info)[i]
                                  /\ Tail(After(i)) = After(i + 1)
<1> DEFINE n == Len(info.memoryMap)
           p == Program(info)
<1>1. n \in Nat /\ p \in Seq(Items) /\ Len(p) = n + 7
  BY ProgramAt
<1>2. After(1) = p
  BY <1>1, SubSeqFull DEF After
<1>3. After(n + 8) = <<>>
  BY <1>1, SubSeqEmpty DEF After
<1>4. \A i \in 1..(n + 7) : p[i] \in Items
  BY <1>1, ElementOfSeq
<1>5. ASSUME NEW i \in 1..(n + 8)
      PROVE  After(i) \in Seq(Items) /\ (i <= n + 7 => Len(After(i)) > 0)
  <2> DEFINE e == n + 7
             t == SubSeq(p, i, e)
  <2>1. /\ i \in Int /\ e \in Int /\ \A j \in i..e : p[j] \in Items
    BY <1>1, <1>4
  <2>2. After(i) = t /\ e = n + 7
    BY DEF After
  <2> HIDE DEF p, n, e
  <2>3. t \in Seq(Items) /\ Len(t) = IF i <= e THEN e - i + 1 ELSE 0
    BY <2>1, SubSeqProperties
  <2> HIDE DEF t
  <2> QED BY <1>1, <2>2, <2>3
<1>6. ASSUME NEW i \in 1..(n + 7)
      PROVE  After(i) # <<>> /\ Head(After(i)) = p[i] /\ Tail(After(i)) = After(i + 1)
  <2>1. i \in 1..Len(p) /\ n + 7 \in i..Len(p) /\ i \in 1..(n + 8)
    BY <1>1
  <2>2. Head(SubSeq(p, i, n + 7)) = p[i] /\ Tail(SubSeq(p, i, n + 7)) = SubSeq(p, i + 1, n + 7)
    <3> HIDE DEF p, n
    <3> QED BY <1>1, <2>1, HeadTailOfSubSeq
  <2>3. After(i) # <<>>
    BY <1>1, <1>5, <2>1, EmptySeq
  <2> QED BY <2>2, <2>3 DEF After
<1> QED
  BY <1>2, <1>3, <1>5, <1>6

LEMMA FirstOf ==
  ASSUME NEW x \in Items, NEW t \in Seq(Items)
  PROVE  <<x>> \o t # <<>> /\ Head(<<x>> \o t) = x /\ Tail(<<x>> \o t) = t
<1> DEFINE s == <<x>> \o t
<1>1. <<x>> \in Seq(Items) /\ Len(<<x>>) = 1 /\ <<x>>[1] = x
  OBVIOUS
<1>2. Len(t) \in Nat
  BY LenProperties
<1>3. /\ s \in Seq(Items) /\ Len(s) = 1 + Len(t)
      /\ \A i \in 1..(1 + Len(t)) : s[i] = IF i <= 1 THEN <<x>>[i] ELSE t[i - 1]
  BY <1>1, ConcatProperties
<1> HIDE DEF s
<1>4. s # <<>>
  BY <1>2, <1>3, EmptySeq
<1>5. s[1] = x
  BY <1>1, <1>2, <1>3
<1>6. /\ Tail(s) \in Seq(Items) /\ Len(Tail(s)) = Len(t)
      /\ \A i \in 1..Len(Tail(s)) : Tail(s)[i] = s[i + 1]
  BY <1>2, <1>3, <1>4, HeadTailProperties
<1>7. ASSUME NEW i \in 1..Len(t) PROVE Tail(s)[i] = t[i]
  <2>1. i + 1 \in 1..(1 + Len(t)) /\ ~(i + 1 <= 1) /\ i + 1 - 1 = i
    BY <1>2
  <2> QED BY <1>3, <1>6, <2>1
<1>8. Tail(s) = t
  BY <1>6, <1>7, SeqEqual
<1> QED
  BY <1>4, <1>5, <1>8 DEF s

\* What init does next, and where it is then.
LEMMA NextPlace ==
  ASSUME info \in Infos, NEW q, NEW s, Place(q, s)
  PROVE  LET h == Head(s)
             t == Tail(s)
         IN /\ q \in 1..(LastOfMap + 4) /\ (s = <<>> => q = LastOfMap + 4)
            /\ s # <<>> =>
                 /\ q < LastOfMap + 4
                 /\ h.kind = "range" => <<q, h.range>> \in Wanted /\ Place(q + 1, t)
                 /\ h.kind = "descriptor" =>
                      /\ <<q, IdentityOf(h.n)>> \in Wanted
                      /\ Place(q + 1, <<Item("higher_half", h.n, HigherHalfOf(h.n))>> \o t)
                 /\ h.kind = "higher_half" =>
                      /\ h.n \in DOMAIN info.memoryMap /\ h.range = HigherHalfOf(h.n)
                      /\ q = 4 + 2 * h.n /\ Place(q + 1, <<>> \o t)
<1> DEFINE m == info.memoryMap
           n == Len(m)
           h == Head(s)
           t == Tail(s)
           x(k) == Item("higher_half", k, HigherHalfOf(k))
<1>1. /\ n \in Nat /\ DOMAIN m = 1..n /\ LastOfMap = 4 + 2 * n
      /\ \A k \in 1..4 : Program(info)[k] = Item("range", 0, MmioRanges[k])
      /\ \A k \in 1..n : Program(info)[4 + k] = Item("descriptor", k, Idle)
      /\ \A k \in 1..3 : Program(info)[4 + n + k] = Item("range", 0, ImageRanges(info)[k])
  BY ProgramAt DEF LastOfMap
<1>2. /\ After(n + 8) = <<>>
      /\ \A i \in 1..(n + 8) : After(i) \in Seq(Items)
      /\ \A i \in 1..(n + 7) : /\ After(i) # <<>> /\ Head(After(i)) = Program(info)[i]
                               /\ Tail(After(i)) = After(i + 1)
  BY AfterIs
<1>3. ASSUME NEW kind, NEW k, NEW r
      PROVE  /\ Item(kind, k, r).kind = kind /\ Item(kind, k, r).n = k
             /\ Item(kind, k, r).range = r
  BY DEF Item
<1>4. /\ \A k \in 1..4 : <<k, MmioRanges[k]>> \in Wanted
      /\ \A k \in 1..n : <<3 + 2 * k, IdentityOf(k)>> \in Wanted
      /\ \A k \in 1..3 : <<LastOfMap + k, ImageRanges(info)[k]>> \in Wanted
  BY <1>1, WantedAre
<1>5. /\ q \in 1..4 /\ s = After(q) => Place(q, s)
      /\ \A k \in 1..n : Place(3 + 2 * k, After(4 + k))
      /\ \A k \in 1..n : Place(4 + 2 * k, <<x(k)>> \o After(5 + k))
      /\ \A k \in 1..4 : Place(LastOfMap + k, After(4 + n + k))
  BY <1>1 DEF Place
<1>6. \A k \in 1..4 : Place(k, After(k))
  BY DEF Place
<1> HIDE DEF m, n, x
<1>7. CASE q \in 1..4 /\ s = After(q)
  <2>1. q \in 1..(n + 7) /\ q \in 1..(LastOfMap + 4) /\ q < LastOfMap + 4
    BY <1>1, <1>7
  <2>2. s # <<>> /\ h = Item("range", 0, MmioRanges[q]) /\ t = After(q + 1)
    BY <1>1, <1>2, <1>7, <2>1
  <2>3. h.kind = "range" /\ <<q, h.range>> \in Wanted
    <3> HIDE DEF h
    <3>1. h.kind = "range" /\ h.range = MmioRanges[q]
      BY <1>3, <2>2
    <3> QED BY <1>4, <1>7, <3>1
  <2>4. Place(q + 1, After(q + 1))
    <3>1. CASE q < 4
      BY <1>6, <1>7, <3>1
    <3>2. CASE q = 4 /\ n > 0
      <4>1. 1 \in 1..n /\ 3 + 2 * 1 = q + 1 /\ 4 + 1 = q + 1
        BY <1>1, <3>2
      <4> QED BY <1>5, <4>1
    <3>3. CASE q = 4 /\ n = 0
      <4>1. 1 \in 1..4 /\ LastOfMap + 1 = q + 1 /\ 4 + n + 1 = q + 1
        BY <1>1, <3>3
      <4> QED BY <1>5, <4>1
    <3> QED BY <1>1, <1>7, <3>1, <3>2, <3>3
  <2> HIDE DEF h, t
  <2> QED BY <2>1, <2>2, <2>3, <2>4 DEF h, t
<1>8. ASSUME NEW k \in 1..n, q = 3 + 2 * k, s = After(4 + k)
      PROVE  /\ q \in 1..(LastOfMap + 4) /\ q < LastOfMap + 4
             /\ s # <<>> /\ h.kind = "descriptor" /\ <<q, IdentityOf(h.n)>> \in Wanted
             /\ Place(q + 1, <<x(h.n)>> \o t)
  <2>1. 4 + k \in 1..(n + 7) /\ 4 + k + 1 = 5 + k /\ q + 1 = 4 + 2 * k
        /\ q \in 1..(LastOfMap + 4) /\ q < LastOfMap + 4
    BY <1>1, <1>8
  <2>2. s # <<>> /\ h = Item("descriptor", k, Idle) /\ t = After(5 + k)
    BY <1>1, <1>2, <1>8, <2>1
  <2>3. h.kind = "descriptor" /\ h.n = k
    BY <1>3, <2>2
  <2>4. Place(q + 1, <<x(k)>> \o After(5 + k)) /\ <<q, IdentityOf(k)>> \in Wanted
    BY <1>4, <1>5, <1>8, <2>1
  <2> QED BY <2>1, <2>2, <2>3, <2>4
<1>9. ASSUME NEW k \in 1..n, q = 4 + 2 * k, s = <<x(k)>> \o After(5 + k)
      PROVE  /\ q \in 1..(LastOfMap + 4) /\ q < LastOfMap + 4
             /\ s # <<>> /\ h.kind = "higher_half" /\ h.n = k /\ h.range = HigherHalfOf(k)
             /\ Place(q + 1, <<>> \o t)
  <2>1. 5 + k \in 1..(n + 8) /\ q \in 1..(LastOfMap + 4) /\ q < LastOfMap + 4
    BY <1>1, <1>9
  <2>2. x(k) \in Items
    <3>1. HigherHalfOf(k) \in RangeCalls
      <4>1. DescriptorFits(info.memoryMap[k])
        BY <1>1, AddressAssumption DEF MemoryFits, m
      <4> QED BY <4>1, IdentityTyped DEF HigherHalfOf
    <3> QED BY <1>1, <3>1, ItemTyped DEF x, m
  <2>3. After(5 + k) \in Seq(Items)
    BY <1>2, <2>1
  <2>4. s # <<>> /\ h = x(k) /\ t = After(5 + k)
    BY <1>9, <2>2, <2>3, FirstOf
  <2>5. h.kind = "higher_half" /\ h.n = k /\ h.range = HigherHalfOf(k)
    BY <1>3, <2>4 DEF x
  <2>6. <<>> \o t = After(5 + k)
    BY <2>3, <2>4, ConcatEmptySeq
  <2>7. Place(q + 1, After(5 + k))
    <3>1. CASE k < n
      <4>1. k + 1 \in 1..n /\ 3 + 2 * (k + 1) = q + 1 /\ 4 + (k + 1) = 5 + k
        BY <1>1, <1>9, <3>1
      <4> QED BY <1>5, <4>1
    <3>2. CASE k = n
      <4>1. 1 \in 1..4 /\ LastOfMap + 1 = q + 1 /\ 4 + n + 1 = 5 + k
        BY <1>1, <1>9, <3>2
      <4> QED BY <1>5, <4>1
    <3> QED BY <1>1, <3>1, <3>2
  <2> QED BY <2>1, <2>4, <2>5, <2>6, <2>7
<1>10. ASSUME NEW k \in 1..3, q = LastOfMap + k, s = After(4 + n + k)
       PROVE  /\ q \in 1..(LastOfMap + 4) /\ q < LastOfMap + 4
              /\ s # <<>> /\ h.kind = "range" /\ <<q, h.range>> \in Wanted /\ Place(q + 1, t)
  <2>1. /\ 4 + n + k \in 1..(n + 7) /\ q \in 1..(LastOfMap + 4) /\ q < LastOfMap + 4
        /\ k + 1 \in 1..4 /\ q + 1 = LastOfMap + (k + 1) /\ 4 + n + k + 1 = 4 + n + (k + 1)
    BY <1>1, <1>10
  <2>2. s # <<>> /\ h = Item("range", 0, ImageRanges(info)[k]) /\ t = After(4 + n + k + 1)
    BY <1>1, <1>2, <1>10, <2>1
  <2>3. h.kind = "range" /\ h.range = ImageRanges(info)[k]
    BY <1>3, <2>2
  <2>4. Place(LastOfMap + (k + 1), After(4 + n + (k + 1))) /\ <<q, h.range>> \in Wanted
    BY <1>4, <1>5, <1>10, <2>1, <2>3
  <2> QED BY <2>1, <2>2, <2>3, <2>4
<1>11. CASE q = LastOfMap + 4 /\ s = After(4 + n + 4)
  <2>1. 4 + n + 4 = n + 8 /\ q \in 1..(LastOfMap + 4)
    BY <1>1, <1>11
  <2> QED BY <1>2, <1>11, <2>1
<1>12. \/ q \in 1..4 /\ s = After(q)
       \/ \E k \in 1..n : q = 3 + 2 * k /\ s = After(4 + k)
       \/ \E k \in 1..n : q = 4 + 2 * k /\ s = <<x(k)>> \o After(5 + k)
       \/ \E k \in 1..3 : q = LastOfMap + k /\ s = After(4 + n + k)
       \/ q = LastOfMap + 4 /\ s = After(4 + n + 4)
  <2>1. \A k \in 1..4 : k \in 1..3 \/ k = 4
    OBVIOUS
  <2> QED BY <1>1, <2>1 DEF Place, n, m, x
<1> HIDE DEF h, t
<1>13. CASE \E k \in 1..n : q = 3 + 2 * k /\ s = After(4 + k)
  <2>1. /\ q \in 1..(LastOfMap + 4) /\ q < LastOfMap + 4
        /\ s # <<>> /\ h.kind = "descriptor" /\ <<q, IdentityOf(h.n)>> \in Wanted
        /\ Place(q + 1, <<x(h.n)>> \o t)
    BY <1>8, <1>13
  <2> QED BY <2>1 DEF h, t, x
<1>14. CASE \E k \in 1..n : q = 4 + 2 * k /\ s = <<x(k)>> \o After(5 + k)
  <2>1. PICK k \in 1..n : q = 4 + 2 * k /\ s = <<x(k)>> \o After(5 + k)
    BY <1>14
  <2>2. /\ q \in 1..(LastOfMap + 4) /\ q < LastOfMap + 4
        /\ s # <<>> /\ h.kind = "higher_half" /\ h.n = k /\ h.range = HigherHalfOf(k)
        /\ Place(q + 1, <<>> \o t)
    BY <1>9, <2>1
  <2> QED BY <1>1, <2>1, <2>2 DEF h, t, m
<1>15. CASE \E k \in 1..3 : q = LastOfMap + k /\ s = After(4 + n + k)
  <2>1. /\ q \in 1..(LastOfMap + 4) /\ q < LastOfMap + 4
        /\ s # <<>> /\ h.kind = "range" /\ <<q, h.range>> \in Wanted /\ Place(q + 1, t)
    BY <1>10, <1>15
  <2> QED BY <2>1 DEF h, t
<1> QED
  BY <1>7, <1>11, <1>12, <1>13, <1>14, <1>15 DEF h, t

\* The page or huge page map_range is at is the next part of its range, and the rest of it
\* is what comes after.
LEMMA OneBlock ==
  ASSUME Fits(call), call.op = "map_range", NEW n \in {PAGE_SIZE, HUGE_SIZE}, call.size >= n,
         NEW u \in Address
  PROVE  /\ Covers(Advance(n), u) => Covers(call, u)
         /\ call.virt % n = 0 =>
              IF u \div n = call.virt \div n
              THEN Covers(call, u) /\ ~Covers(Advance(n), u)
              ELSE Covers(call, u) <=> Covers(Advance(n), u)
<1> DEFINE v == call.virt
           d == Advance(n)
           k == v \div n
<1>1. n \in Nat \ {0} /\ WORD \in Nat \ {0}
  BY Geometry
<1>2. v \in Nat /\ call.size \in Nat /\ v + call.size <= WORD /\ v < WORD
  BY <1>1 DEF Fits
<1>3. u \in Nat /\ u < WORD
  BY <1>1 DEF Address
<1>4. d.virt = (IF v + n = WORD THEN 0 ELSE v + n) /\ d.size = call.size - n
  BY AdvanceFits
<1> HIDE DEF d
<1>5. Covers(d, u) <=> u >= v + n /\ u < v + call.size
  <2>1. CASE v + n = WORD
    BY <1>1, <1>2, <1>3, <1>4, <2>1 DEF Covers
  <2>2. CASE v + n # WORD
    BY <1>1, <1>2, <1>3, <1>4, <2>2 DEF Covers
  <2> QED BY <2>1, <2>2
<1>6. Covers(call, u) <=> u >= v /\ u < v + call.size
  BY DEF Covers
<1>7. ASSUME v % n = 0 PROVE u \div n = k <=> u >= v /\ u < v + n
  <2>1. v \in Int
    BY <1>2
  <2>2. /\ v \div n \in Int /\ v = n * (v \div n) + (v % n)
        /\ v >= 0 => v \div n >= 0
    <3> HIDE DEF v
    <3> QED BY <1>1, <2>1, Quotient
  <2>3. k \in Nat /\ v = n * k + (v % n)
    BY <1>2, <2>2
  <2> HIDE DEF v, k
  <2>4. v = n * k
    BY <1>1, <1>7, <2>3
  <2> QED BY <1>1, <1>3, <2>3, <2>4, InBlock
<1> HIDE DEF v, k
<1>8. Covers(d, u) => Covers(call, u)
  BY <1>1, <1>2, <1>3, <1>5, <1>6
<1>9. ASSUME v % n = 0
      PROVE  IF u \div n = k THEN Covers(call, u) /\ ~Covers(d, u)
             ELSE Covers(call, u) <=> Covers(d, u)
  BY <1>1, <1>2, <1>3, <1>5, <1>6, <1>7, <1>9
<1> QED
  BY <1>8, <1>9 DEF v, d, k

\* What is left of a range stays what is left of it.
LEMMA RestOn ==
  ASSUME Fits(call), call.op = "map_range", NEW n \in {PAGE_SIZE, HUGE_SIZE}, call.size >= n,
         NEW r, r.virt \in Nat, RestOf(call, r)
  PROVE  RestOf(Advance(n), r)
<1> DEFINE d == Advance(n)
<1>1. n \in Nat \ {0} /\ WORD \in Nat \ {0}
  BY Geometry
<1>2. call.virt \in Nat /\ call.size \in Nat /\ call.virt + call.size <= WORD
  BY <1>1 DEF Fits
<1>3. /\ d.op = "map_range" /\ d.flags = call.flags
      /\ d.virt = (IF call.virt + n = WORD THEN 0 ELSE call.virt + n)
      /\ d.size = call.size - n
  BY AdvanceFits
<1>4. d.opts = call.opts
  <2>1. call = Call(call.op, call.virt, call.phys, call.size, call.end, call.flags, call.opts)
    BY DEF Fits
  <2> QED BY <2>1 DEF Advance, Call
<1> HIDE DEF d
<1>5. ASSUME d.size > 0 PROVE d.virt >= r.virt /\ d.virt + d.size = r.virt + r.size
  <2>1. call.virt >= r.virt /\ call.virt + call.size = r.virt + r.size /\ call.virt + n < WORD
    BY <1>1, <1>2, <1>3, <1>5 DEF RestOf
  <2>2. d.virt = call.virt + n /\ d.virt + d.size = call.virt + call.size
    BY <1>1, <1>2, <1>3, <2>1
  <2>3. r.virt + r.size \in Nat
    BY <1>2, <2>1
  <2>4. d.virt >= r.virt
    BY <1>1, <1>2, <2>1, <2>2
  <2> QED BY <2>1, <2>2, <2>4
<1> QED
  BY <1>3, <1>4, <1>5 DEF RestOf, d

\* Aligned to a huge page is aligned to a page.
LEMMA HugeAligned == ASSUME NEW v \in Nat, v % HUGE_SIZE = 0 PROVE v % PAGE_SIZE = 0
<1> DEFINE P == PAGE_SIZE
           H == HUGE_SIZE
           k == v \div H
<1>1. P \in Nat \ {0} /\ H \in Nat \ {0} /\ ENTRIES \in Nat /\ H = P * ENTRIES
  BY Geometry DEF HUGE_SIZE
<1>2. k \in Int /\ v = H * k + (v % H)
  <2> HIDE DEF H
  <2>1. v \in Int
    OBVIOUS
  <2> QED BY <1>1, <2>1, Quotient
<1>3. v % H = 0
  OBVIOUS
<1> HIDE DEF P, H, k
<1>4. v = P * (ENTRIES * k) /\ ENTRIES * k \in Int
  BY <1>1, <1>2, <1>3
<1>5. (P * (ENTRIES * k)) % P = 0
  BY <1>1, <1>4, Multiple
<1> QED
  BY <1>4, <1>5 DEF P

\* A range that does not begin on a page but ends with one has no last page.
LEMMA CrookedOn ==
  ASSUME Fits(call), call.op = "map_range", call.size >= PAGE_SIZE, Crooked,
         (call.virt + call.size) % PAGE_SIZE = 0
  PROVE  Advance(PAGE_SIZE).size > 0 /\ Advance(PAGE_SIZE).virt % PAGE_SIZE # 0
<1> DEFINE P == PAGE_SIZE
           v == call.virt
           d == Advance(P)
<1>1. P \in Nat \ {0} /\ WORD \in Nat \ {0}
  BY Geometry
<1>2. v \in Nat /\ call.size \in Nat /\ v + call.size <= WORD /\ v % P # 0
  BY <1>1 DEF Fits, Crooked
<1>3. d.virt = (IF v + P = WORD THEN 0 ELSE v + P) /\ d.size = call.size - P
  BY AdvanceFits
<1>4. (v + P) % P # 0
  <2> SUFFICES ASSUME (v + P) % P = 0 PROVE FALSE
    OBVIOUS
  <2> DEFINE m == (v + P) \div P
  <2>1. v + P \in Int
    BY <1>1, <1>2
  <2>2. m \in Int /\ v + P = P * m + ((v + P) % P)
    <3> HIDE DEF P, v
    <3> QED BY <1>1, <2>1, Quotient
  <2> HIDE DEF m, P, v
  <2>3. v = P * (m - 1) /\ m - 1 \in Int
    BY <1>1, <1>2, <2>2
  <2>4. (P * (m - 1)) % P = 0
    BY <1>1, <2>3, Multiple
  <2> QED BY <1>2, <2>3, <2>4
<1>5. call.size # P /\ (v + call.size) % P = 0 /\ call.size >= P
  BY <1>4
<1> HIDE DEF P, v, d
<1>6. call.size > P /\ v + P < WORD
  BY <1>1, <1>2, <1>5
<1> QED
  BY <1>1, <1>2, <1>3, <1>4, <1>6 DEF P, v, d

LEMMA InitOrder == Init => OrderInv
BY DEF Init, OrderInv

LEMMA OrderStep ==
  FitInv /\ TreeInv /\ OffInv /\ StraightInv /\ BootInv /\ OrderInv /\ [Next]_vars => OrderInv'
<1> SUFFICES ASSUME FitInv, TreeInv, OffInv, StraightInv, BootInv, OrderInv, [Next]_vars
             PROVE  OrderInv'
  OBVIOUS
<1>1. /\ info \in Infos /\ todo \in Seq(Items) /\ Fits(call) /\ calls \in Nat
      /\ phase \in {"init", "ready"} => g_pml4_p # nullptr /\ Tree /\ FreeInv
      /\ calls = 0 => call.op # "unmap_range"
  BY DEF FitInv, TreeInv, StraightInv
<1>2. /\ phase \in {"off", "init"} => ~g_hh_enabled
      /\ phase = "ready" /\ calls = 0 => todo = <<>> /\ call = Idle
  BY DEF BootInv
<1>3. /\ Idle.op = "none" /\ Idle.size = 0
      /\ \A u \in Address : ~Covers(Idle, u)
  <2>1. Idle.op = "none" /\ Idle.size = 0 /\ Idle.virt = 0
    BY DEF Idle, Call
  <2> QED BY <2>1 DEF Covers, Address
<1>4. /\ phase = "off" => stray = {}
      /\ calls = 0 /\ ~MapOverwritten =>
           /\ stray = {}
           /\ phase \in {"init", "ready"} => \E q \in 1..(LastOfMap + 4) : InOrder(q)
  BY DEF OrderInv
<1>5. LastOfMap \in Nat
  BY <1>1, AddressAssumption DEF LastOfMap
\* The order itself stays.
<1>6. ASSUME info' = info
      PROVE  /\ Wanted' = Wanted /\ LastOfMap' = LastOfMap
             /\ \A q, s : Place(q, s)' <=> Place(q, s)
  BY <1>6 DEF Wanted, LastOfMap, Place, After, HigherHalfOf
\* Nothing happens to the tables or the range being mapped.
<1>7. ASSUME UNCHANGED <<info, mem, g_pml4_p, calls, dropped, stray, todo>>, call' = call,
             phase' = phase \/ (phase = "init" /\ phase' = "ready" /\ call = Idle)
      PROVE  OrderInv'
  <2>1. MapOverwritten' <=> MapOverwritten
    BY <1>7 DEF MapOverwritten
  <2>2. ASSUME NEW q, InOrder(q) PROVE InOrder(q)'
    <3>1. Place(q, todo)' /\ Wanted' = Wanted
      BY <1>6, <1>7, <2>2 DEF InOrder
    <3>2. Doing(q)'
      BY <1>7, <2>2, <3>1 DEF InOrder, Doing, RestOf
    <3>3. \A w, u : Behind(q, w, u)' <=> Behind(q, w, u)
      BY <1>7, <3>1 DEF Behind, Covers
    <3>4. \A u : Lookup(u)' = Lookup(u)
      BY <1>7 DEF Lookup
    <3>5. \A u \in Address : HugeAt(q, u)'
      BY <2>2, <3>3, <3>4 DEF InOrder, HugeAt
    <3>6. ASSUME ~dropped' PROVE (phase' = "init" /\ Crooked') \/ \A u \in Address : LatestAt(q, u)'
      <4>1. Crooked => phase' = phase
        BY <1>3, <1>7 DEF Crooked
      <4>2. Crooked' <=> Crooked
        BY <1>7 DEF Crooked
      <4>3. ASSUME \A u \in Address : LatestAt(q, u) PROVE \A u \in Address : LatestAt(q, u)'
        BY <3>3, <3>4, <4>3 DEF LatestAt
      <4> QED BY <1>7, <2>2, <3>6, <4>1, <4>2, <4>3 DEF InOrder
    <3> QED BY <3>1, <3>2, <3>5, <3>6 DEF InOrder
  <2>3. LastOfMap' = LastOfMap
    BY <1>6, <1>7
  <2> QED BY <1>4, <1>7, <2>1, <2>2, <2>3 DEF OrderInv
\* Init is over, or stops.
<1>8. ASSUME calls' # 0, phase' # "off" PROVE OrderInv'
  BY <1>8 DEF OrderInv
<1>9. ASSUME UNCHANGED <<info, mem, calls, stray>>, phase' \notin {"off", "init", "ready"}
      PROVE  OrderInv'
  BY <1>4, <1>9 DEF OrderInv, MapOverwritten
<1>10. CASE UNCHANGED vars
  BY <1>7, <1>10 DEF vars
<1>11. CASE init_root
  <2>1. /\ call' = Idle /\ todo' = Program(info) /\ phase' = "init" /\ stray' = {}
        /\ UNCHANGED <<info, calls>>
    BY <1>4, <1>11 DEF init_root, OffInv, history
  <2>2. \A u \in Address : Lookup(u)' = NoPage
    <3>1. PICK root : g_pml4_p' = root /\ mem' = RootMemory(root)
      BY <1>11 DEF init_root, RootMemory
    <3>2. \A u : Lookup(u)' = Translate(RootMemory(root), root, u)
      BY <3>1 DEF Lookup
    <3> QED BY <3>2, RootMapsNothing
  <2>3. Wanted' = Wanted /\ LastOfMap' = LastOfMap /\ \A q, s : Place(q, s)' <=> Place(q, s)
    BY <1>6, <2>1
  <2>4. Place(1, todo)'
    <3>1. PICK t : t = todo'
      OBVIOUS
    <3>2. Place(1, t)
      BY <1>1, <2>1, <3>1, AfterIs DEF Place
    <3> QED BY <2>3, <3>1, <3>2
  <2>5. \A w, u : ~Behind(1, w, u)'
    BY <1>1, <2>3, WantedRanked DEF Behind
  <2>6. \A u \in Address : HugeAt(1, u)' /\ LatestAt(1, u)'
    BY <2>2, <2>5, Sizes DEF HugeAt, LatestAt
  <2>7. InOrder(1)'
    BY <2>1, <2>4, <2>6 DEF InOrder, Doing
  <2>8. 1 \in 1..(LastOfMap' + 4)
    BY <1>5, <2>3
  <2> QED BY <2>1, <2>7, <2>8 DEF OrderInv
<1>12. CASE init_fails \/ map_range_runs_away
  <2>1. /\ UNCHANGED <<info, mem, calls, stray>>
        /\ phase' \in {"failed", "runaway"}
    BY <1>12 DEF init_fails, map_range_runs_away, machine, history
  <2> QED BY <1>9, <2>1
<1> DEFINE h == Head(todo)
           rest == Tail(todo)
\* The next thing to do is taken: it is the next range, or a higher half init leaves out.
<1>13. ASSUME phase = "init", phase' = "init", call = Idle, todo # <<>>,
              UNCHANGED <<info, mem, g_pml4_p, calls, dropped, stray>>,
              NEW t, t = todo', NEW c, c = call',
              calls = 0 /\ ~MapOverwritten =>
                \A q : Place(q, todo) =>
                  /\ Place(q + 1, t)
                  /\ \/ <<q, c>> \in Wanted
                     \/ c = Idle /\ \A w \in Wanted : w[1] # q
       PROVE  OrderInv'
  <2>1. MapOverwritten' <=> MapOverwritten
    BY <1>13 DEF MapOverwritten
  <2> SUFFICES ASSUME calls = 0, ~MapOverwritten
               PROVE  stray = {} /\ \E q \in 1..(LastOfMap' + 4) : InOrder(q)'
    BY <1>13, <2>1 DEF OrderInv
  <2>2. PICK q \in 1..(LastOfMap + 4) : InOrder(q)
    BY <1>4, <1>13
  <2>3. q + 1 \in 1..(LastOfMap + 4)
    BY <1>1, <1>5, <1>13, <2>2, NextPlace DEF InOrder
  <2>4. /\ Place(q + 1, t)
        /\ \/ <<q, c>> \in Wanted
           \/ c = Idle /\ \A w \in Wanted : w[1] # q
    BY <1>13, <2>2 DEF InOrder
  <2>5. Wanted' = Wanted /\ LastOfMap' = LastOfMap /\ Place(q + 1, todo)'
    BY <1>6, <1>13, <2>4
  <2>6. Doing(q + 1)'
    <3>1. CASE <<q, c>> \in Wanted
      <4>1. <<q, c>>[1] = (q + 1) - 1 /\ <<q, c>>[2] = c
        BY <2>2
      <4>2. c.op = "map_range"
        BY <1>1, <3>1, <4>1, WantedTyped
      <4>3. RestOf(c, c)
        <5>1. c \in RangeCalls
          BY <1>1, <3>1, <4>1, WantedTyped
        <5> QED BY <4>2, <5>1 DEF RestOf, RangeCalls
      <4>4. RestOf(call, <<q, c>>[2])'
        BY <1>13, <4>1, <4>3 DEF RestOf
      <4> QED BY <2>5, <3>1, <4>1, <4>4 DEF Doing
    <3>2. CASE c = Idle
      BY <1>13, <3>2 DEF Doing
    <3> QED BY <2>4, <3>1, <3>2
  <2>7. ASSUME NEW w, NEW u \in Address
        PROVE  Behind(q + 1, w, u)' <=> Behind(q, w, u)
    <3>1. Behind(q + 1, w, u)' <=>
            w \in Wanted /\ w[1] < q + 1 /\ Covers(w[2], u) /\ (w[1] = q => ~Covers(c, u))
      BY <1>13, <2>2, <2>5 DEF Behind, Covers
    <3>2. Behind(q, w, u) <=> w \in Wanted /\ w[1] < q /\ Covers(w[2], u)
      BY <1>3, <1>13 DEF Behind
    <3>3. ASSUME w \in Wanted PROVE w[1] \in Nat /\ (w[1] = q => ~(Covers(w[2], u) /\ ~Covers(c, u)))
      <4>1. w[1] \in Nat
        BY <1>1, <3>3, WantedRanked
      <4>2. <<q, c>> \in Wanted /\ w[1] = q => w[2] = c
        BY <1>1, <3>3, WantedRanked
      <4> QED BY <2>4, <3>3, <4>1, <4>2
    <3> QED BY <2>2, <3>1, <3>2, <3>3
  <2>8. \A u : Lookup(u)' = Lookup(u)
    BY <1>13 DEF Lookup
  <2>9. \A u \in Address : HugeAt(q + 1, u)'
    BY <2>2, <2>7, <2>8 DEF InOrder, HugeAt
  <2>10. ASSUME ~dropped' PROVE \A u \in Address : LatestAt(q + 1, u)'
    <3>1. \A u \in Address : LatestAt(q, u)
      BY <1>3, <1>13, <2>2, <2>10 DEF InOrder, Crooked
    <3> QED BY <2>7, <2>8, <3>1 DEF LatestAt
  <2>11. InOrder(q + 1)'
    BY <2>5, <2>6, <2>9, <2>10 DEF InOrder
  <2> QED BY <1>4, <2>3, <2>5, <2>11
<1>14. CASE init_range
  <2>1. /\ phase = "init" /\ phase' = "init" /\ call = Idle /\ todo # <<>> /\ h.kind = "range"
        /\ call' = h.range /\ todo' = rest
        /\ UNCHANGED <<info, mem, g_pml4_p, calls, dropped, stray>>
    BY <1>14 DEF init_range, machine, history
  <2>2. PICK t, c : t = todo' /\ c = call'
    OBVIOUS
  <2>3. \A q : Place(q, todo) => Place(q + 1, t) /\ <<q, c>> \in Wanted
    BY <1>1, <2>1, <2>2, NextPlace
  <2> QED BY <1>13, <2>1, <2>2, <2>3
\* A descriptor is read as it is, unless the map was overwritten.
<1>15. ASSUME ~MapOverwritten, NEW d \in Descriptors(h.n)
       PROVE  d = info.memoryMap[h.n]
  BY <1>15 DEF Descriptors
<1>16. CASE init_descriptor
  <2>1. /\ phase = "init" /\ phase' = "init" /\ call = Idle /\ todo # <<>>
        /\ h.kind = "descriptor"
        /\ UNCHANGED <<info, mem, g_pml4_p, calls, dropped, stray>>
    BY <1>16 DEF init_descriptor, reads, machine, history
  <2>2. PICK d \in Descriptors(h.n) :
          /\ call' = Identity(d, d.physicalStart)
          /\ todo' = << Item("higher_half", h.n, Identity(d, HH(d.physicalStart))) >> \o rest
    BY <1>16 DEF init_descriptor, reads, HigherHalf
  <2>3. ~MapOverwritten => /\ call' = IdentityOf(h.n)
                           /\ todo' = << Item("higher_half", h.n, HigherHalfOf(h.n)) >> \o rest
    BY <1>15, <2>2 DEF IdentityOf, HigherHalfOf
  <2>4. PICK t, c : t = todo' /\ c = call'
    OBVIOUS
  <2>5. ~MapOverwritten => \A q : Place(q, todo) => Place(q + 1, t) /\ <<q, c>> \in Wanted
    BY <1>1, <2>1, <2>3, <2>4, NextPlace
  <2> QED BY <1>13, <2>1, <2>4, <2>5
<1>17. CASE init_higher_half
  <2>1. /\ phase = "init" /\ phase' = "init" /\ call = Idle /\ todo # <<>>
        /\ h.kind = "higher_half"
        /\ UNCHANGED <<info, mem, g_pml4_p, calls, dropped, stray>>
    BY <1>17 DEF init_higher_half, reads, machine, history
  <2>2. PICK d \in Descriptors(h.n) :
          /\ call' = (IF is_mappable(d.type) THEN h.range ELSE Idle)
          /\ todo' = <<>> \o rest
    BY <1>17 DEF init_higher_half, reads
  <2>3. ~MapOverwritten => d = info.memoryMap[h.n]
    BY <1>15
  <2>4. PICK t, c : t = todo' /\ c = call'
    OBVIOUS
  <2>5. ASSUME ~MapOverwritten, NEW q, Place(q, todo)
        PROVE  /\ Place(q + 1, t)
               /\ \/ <<q, c>> \in Wanted
                  \/ c = Idle /\ \A w \in Wanted : w[1] # q
    <3>1. /\ h.n \in DOMAIN info.memoryMap /\ h.range = HigherHalfOf(h.n) /\ q = 4 + 2 * h.n
          /\ Place(q + 1, t)
      BY <1>1, <2>1, <2>2, <2>4, <2>5, NextPlace
    <3>2. CASE is_mappable(info.memoryMap[h.n].type)
      BY <2>2, <2>3, <2>4, <2>5, <3>1, <3>2, WantedAre
    <3>3. CASE ~is_mappable(info.memoryMap[h.n].type)
      <4>1. c = Idle
        BY <2>2, <2>3, <2>4, <2>5, <3>3
      <4>2. \A w \in Wanted : w[1] # q
        BY <1>1, <3>1, <3>3, WantedRanked
      <4> QED BY <3>1, <4>1, <4>2
    <3> QED BY <3>2, <3>3
  <2> QED BY <1>13, <2>1, <2>4, <2>5
<1>18. CASE init_switch
  <2>1. /\ phase = "init" /\ call = Idle /\ phase' \in {"ready", "faulted"}
        /\ UNCHANGED <<info, mem, g_pml4_p, calls, dropped, stray, todo, call>>
    BY <1>18 DEF init_switch, history
  <2> QED BY <1>7, <1>9, <2>1
\* map_range maps the page or huge page it is at and goes on behind it, or gives the range
\* up for want of a table.
<1>19. ASSUME Running("map_range"), NEW n \in {PAGE_SIZE, HUGE_SIZE}, call.size >= n,
              n = HUGE_SIZE => call.virt % HUGE_SIZE = 0 /\ "MAP_HUGE" \in call.opts,
              NEW s, Effect(s, call.virt, n),
              call' = Advance(n) \/ (s.at = nullptr /\ call' = Idle),
              UNCHANGED <<info, g_pml4_p, calls, todo>>,
              Maps(s, call.virt, n), Does(s, call.virt, call.phys, call.flags, n)
       PROVE  OrderInv'
  <2> DEFINE v == call.virt
  <2>1. /\ mem' = s.mem /\ dropped' = (dropped \/ s.at = nullptr)
        /\ phase' = IF s.fault THEN Missing(s.missed) ELSE IF s.huge THEN Strayed(s.at) ELSE phase
        /\ stray' = stray \cup (IF s.huge THEN {s.at} \ {nullptr} ELSE {})
    BY <1>19 DEF Effect
  <2>2. phase' # "off"
    BY <1>19, <2>1 DEF Running, Strayed, Missing
  <2>3. CASE calls # 0
    BY <1>8, <1>19, <2>2, <2>3
  <2>4. CASE calls = 0
    <3>1. DOMAIN mem \subseteq DOMAIN mem'
      BY <1>19, <2>1 DEF Does, Reasons
    <3> SUFFICES ASSUME ~MapOverwritten
                 PROVE  stray' = {} /\ \E q \in 1..(LastOfMap' + 4) : InOrder(q)'
      BY <1>19, <2>2, <3>1 DEF OrderInv, MapOverwritten
    <3>2. phase = "init" /\ call.op = "map_range" /\ call # Idle /\ ~s.fault
      BY <1>2, <1>3, <1>19, <2>4 DEF Running, Does, Reasons
    <3>3. PICK q \in 1..(LastOfMap + 4) : InOrder(q)
      BY <1>4, <2>4, <3>2
    <3>4. PICK w \in Wanted : w[1] = q - 1 /\ RestOf(call, w[2])
      BY <3>2, <3>3 DEF InOrder, Doing
    <3>5. /\ w[2].virt \in Nat /\ (w[2].virt + w[2].size) % PAGE_SIZE = 0
          /\ "P" \in w[2].flags /\ "PS" \notin w[2].flags
          /\ call.flags = w[2].flags /\ call.opts = w[2].opts
      BY <1>1, <3>4, WantedTyped DEF RangeCalls, RestOf
    <3>6. /\ call.size > 0 /\ call.size >= PAGE_SIZE /\ v \in Address /\ v \in Nat
          /\ call.size \in Nat /\ n \in Nat \ {0}
      <4>1. call.size \in Nat /\ call.virt \in Nat
        <5>1. call.size \in 0..(WORD - 1) /\ call.virt \in 0..(WORD - 1)
          BY <1>1, <3>2 DEF Fits
        <5> QED BY <5>1
      <4>2. call.size >= n /\ n \in {PAGE_SIZE, HUGE_SIZE}
        BY <1>19
      <4>3. call.size >= PAGE_SIZE /\ call.size > 0 /\ n \in Nat \ {0}
        BY <4>1, <4>2, SpansGrow, Geometry
      <4> QED BY <1>1, <3>2, <4>1, <4>3, MappingAt
    <3>7. \A u \in Address : Covers(call, u) => Covers(w[2], u)
      BY <3>4, <3>5, <3>6 DEF RestOf, Covers, Address
    <3>8. \A u \in Address : Covers(call', u) => Covers(call, u)
      BY <1>1, <1>3, <1>19, <3>2, OneBlock
    \* No range lies on a huge page of another.
    <3>9. ~s.huge
      <4> SUFFICES ASSUME s.huge PROVE FALSE
        OBVIOUS
      <4>1. Lookup(v).size = HUGE_SIZE
        BY <1>19 DEF Does, Reasons
      <4>2. PICK x : Behind(q, x, v) /\ "MAP_HUGE" \in x[2].opts
        BY <3>3, <3>6, <4>1 DEF InOrder, HugeAt
      <4>3. Covers(call, v) /\ Covers(w[2], v)
        BY <3>6, <3>7 DEF Covers
      <4>4. x \in Wanted /\ x[1] < w[1] /\ Covers(x[2], v)
        BY <1>1, <3>3, <3>4, <4>2, <4>3, WantedRanked DEF Behind
      <4> QED BY <1>1, <3>6, <4>2, <4>3, <4>4, HugeAlone
    <3>10. stray' = {} /\ phase' = "init"
      BY <1>4, <2>1, <2>4, <3>2, <3>9
    <3>11. Wanted' = Wanted /\ LastOfMap' = LastOfMap /\ Place(q, todo)'
      BY <1>6, <1>19, <3>3 DEF InOrder
    <3>12. Doing(q)'
      <4>1. CASE call' = Idle
        BY <4>1 DEF Doing
      <4>2. CASE call' = Advance(n)
        <5>1. RestOf(Advance(n), w[2])
          BY <1>1, <1>19, <3>2, <3>4, <3>5, RestOn
        <5>2. RestOf(call, w[2])'
          BY <4>2, <5>1 DEF RestOf
        <5> QED BY <3>4, <3>11, <5>2 DEF Doing
      <4> QED BY <1>19, <4>1, <4>2
    <3>13. \A x, u : Behind(q, x, u)' <=>
             x \in Wanted /\ x[1] < q /\ Covers(x[2], u) /\ (x[1] = q - 1 => ~Covers(call', u))
      BY <3>11 DEF Behind, Covers
    <3>14. ASSUME NEW x, NEW u \in Address, Behind(q, x, u) PROVE Behind(q, x, u)'
      BY <3>8, <3>13, <3>14 DEF Behind
    <3>15. ASSUME NEW u \in Address PROVE Lookup(u)' = Translate(s.mem, g_pml4_p, u)
      BY <1>19, <2>1 DEF Lookup
    <3>16. ASSUME NEW u \in Address, u \div n = v \div n, s.at # nullptr
           PROVE  /\ Lookup(u)'.size = n /\ Lookup(u)' # NoPage /\ Lookup(u)'.flags = w[2].flags
                  /\ call.virt % n = 0 => Behind(q, w, u)'
      <4> DEFINE fl == (IF n = HUGE_SIZE THEN call.flags \ {"PS"} ELSE call.flags) \cup {"P"}
                 a == AlignDown(call.phys, n) + (u % n)
      <4>1. Lookup(u)' = [phys |-> a, flags |-> fl, size |-> n]
        BY <1>19, <3>2, <3>9, <3>15, <3>16 DEF Does
      <4>2. fl = w[2].flags
        BY <3>5
      <4> HIDE DEF fl, a
      <4>3. Lookup(u)'.size = n /\ Lookup(u)'.flags = w[2].flags /\ Lookup(u)' # NoPage
        <5>1. Lookup(u)'.size = n /\ Lookup(u)'.flags = fl
          BY <4>1
        <5> QED BY <4>2, <5>1, Sizes
      <4>4. ASSUME call.virt % n = 0 PROVE Behind(q, w, u)'
        <5>1. Covers(call, u) /\ ~Covers(call', u)
          BY <1>1, <1>19, <3>2, <3>16, <4>4, OneBlock
        <5> QED BY <3>3, <3>4, <3>7, <3>13, <5>1
      <4> QED BY <4>3, <4>4
    <3>17. ASSUME NEW u \in Address PROVE HugeAt(q, u)'
      <4>1. CASE u \div n # v \div n \/ s.at = nullptr
        <5>1. Lookup(u)' = Lookup(u)
          BY <1>19, <3>15, <4>1 DEF Maps
        <5> QED BY <3>3, <3>14, <5>1 DEF InOrder, HugeAt
      <4>2. CASE u \div n = v \div n /\ s.at # nullptr
        BY <1>19, <3>5, <3>16, <4>2, Sizes DEF HugeAt
      <4> QED BY <4>1, <4>2
    <3>18. ASSUME ~dropped' PROVE Crooked' \/ \A u \in Address : LatestAt(q, u)'
      <4>1. ~dropped /\ s.at # nullptr /\ call' = Advance(n)
        BY <1>19, <2>1, <3>18
      <4>2. CASE Crooked
        <5>1. n = PAGE_SIZE
          BY <1>19, <3>6, <4>2, HugeAligned DEF Crooked
        <5>2. (call.virt + call.size) % PAGE_SIZE = 0
          BY <3>4, <3>5, <3>6 DEF RestOf
        <5>3. Advance(PAGE_SIZE).size > 0 /\ Advance(PAGE_SIZE).virt % PAGE_SIZE # 0
          BY <1>1, <3>2, <3>6, <4>2, <5>2, CrookedOn
        <5> QED BY <4>1, <5>1, <5>3 DEF Crooked
      <4>3. ASSUME ~Crooked, NEW u \in Address PROVE LatestAt(q, u)'
        <5>1. call.virt % n = 0
          BY <1>19, <3>6, <4>3 DEF Crooked
        <5>2. LatestAt(q, u)
          BY <3>3, <4>1, <4>3 DEF InOrder
        <5>3. CASE u \div n # v \div n
          <6>1. Lookup(u)' = Lookup(u)
            BY <1>19, <3>15, <5>3 DEF Maps
          <6>2. Covers(call', u) <=> Covers(call, u)
            BY <1>1, <1>19, <3>2, <4>1, <5>1, <5>3, OneBlock
          <6>3. \A x : Behind(q, x, u)' <=> Behind(q, x, u)
            BY <3>13, <6>2 DEF Behind
          <6> QED BY <5>2, <6>1, <6>3 DEF LatestAt
        <5>4. CASE u \div n = v \div n
          <6>1. \A x : Behind(q, x, u)' => x[1] <= w[1]
            BY <1>1, <3>3, <3>4, <3>13, WantedRanked
          <6> QED BY <3>16, <4>1, <5>1, <5>4, <6>1 DEF LatestAt
        <5> QED BY <5>3, <5>4
      <4> QED BY <4>2, <4>3
    <3>19. InOrder(q)'
      BY <3>10, <3>11, <3>12, <3>17, <3>18 DEF InOrder
    <3> QED BY <3>3, <3>10, <3>11, <3>19
  <2> QED BY <2>3, <2>4
<1>20. ASSUME Running("map_range"), call.size >= PAGE_SIZE
       PROVE  /\ Tree /\ FreeInv
              /\ call.virt \in Address /\ call.phys \in Nat /\ call.flags \in SUBSET PageFlags
  <2>1. call.size > 0
    BY <1>1, <1>20, Geometry DEF Fits
  <2> QED BY <1>1, <1>20, <2>1, MappingAt DEF Running
<1>21. CASE map_range_huge
  <2>1. /\ Running("map_range") /\ call.size >= HUGE_SIZE /\ call.virt % HUGE_SIZE = 0
        /\ "MAP_HUGE" \in call.opts
        /\ UNCHANGED <<info, g_pml4_p, calls, todo>>
    BY <1>21 DEF map_range_huge, Huge, machine
  <2>2. PICK s \in map_huge(call.virt, call.phys, call.flags) :
          /\ Effect(s, call.virt, HUGE_SIZE)
          /\ call' = IF s.at = nullptr THEN Idle ELSE Advance(HUGE_SIZE)
    BY <1>21 DEF map_range_huge
  <2>3. call.size >= PAGE_SIZE
    BY <1>1, <2>1, SpansGrow, Geometry DEF Fits
  <2>4. /\ Maps(s, call.virt, HUGE_SIZE)
        /\ Does(s, call.virt, call.phys, call.flags, HUGE_SIZE)
    BY <1>20, <2>1, <2>3, MapHugeMaps, MapHugeDoes
  <2> QED BY <1>19, <2>1, <2>2, <2>4
<1>22. CASE map_range_page
  <2>1. /\ Running("map_range") /\ call.size >= PAGE_SIZE /\ call' = Advance(PAGE_SIZE)
        /\ UNCHANGED <<info, g_pml4_p, calls, todo>>
    BY <1>22 DEF map_range_page, machine
  <2>2. PICK s \in map_page(call.virt, call.phys, call.flags) : Effect(s, call.virt, PAGE_SIZE)
    BY <1>22 DEF map_range_page
  <2>3. /\ Maps(s, call.virt, PAGE_SIZE)
        /\ Does(s, call.virt, call.phys, call.flags, PAGE_SIZE)
    BY <1>20, <2>1, MapPageMaps, MapPageDoes
  <2>4. PAGE_SIZE # HUGE_SIZE
    BY Sizes
  <2> QED BY <1>19, <2>1, <2>2, <2>3, <2>4
<1>23. CASE range_done
  <2>1. /\ phase \in {"init", "ready"} /\ call' = Idle
        /\ UNCHANGED <<info, mem, g_pml4_p, calls, dropped, stray, todo, phase>>
        /\ call.op = "unmap_range" \/ (call.op = "map_range" /\ call.size = 0)
    BY <1>23 DEF range_done, Running, machine, history
  <2>2. CASE calls # 0
    BY <1>8, <2>1, <2>2
  <2>3. CASE calls = 0
    <3>1. phase = "init" /\ call.op = "map_range" /\ call.size = 0
      BY <1>1, <1>2, <1>3, <2>1, <2>3
    <3>2. MapOverwritten' <=> MapOverwritten
      BY <2>1 DEF MapOverwritten
    <3> SUFFICES ASSUME ~MapOverwritten
                 PROVE  stray = {} /\ \E q \in 1..(LastOfMap' + 4) : InOrder(q)'
      BY <2>1, <3>1, <3>2 DEF OrderInv
    <3>3. PICK q \in 1..(LastOfMap + 4) : InOrder(q)
      BY <1>4, <2>3, <3>1
    <3>4. Wanted' = Wanted /\ LastOfMap' = LastOfMap /\ Place(q, todo)' /\ Doing(q)'
      BY <1>6, <2>1, <3>3 DEF InOrder, Doing
    <3>5. ASSUME NEW w, NEW u \in Address PROVE Behind(q, w, u)' <=> Behind(q, w, u)
      <4>1. ~Covers(call, u)
        <5>1. call.virt \in Nat /\ u \in Nat
          BY <1>1, Geometry DEF Fits, Address
        <5> QED BY <3>1, <5>1 DEF Covers
      <4>2. ~Covers(call, u)'
        <5>1. Covers(call, u)' <=> Covers(Idle, u)
          BY <2>1 DEF Covers
        <5> QED BY <1>3, <5>1
      <4>3. Covers(w[2], u)' <=> Covers(w[2], u)
        BY DEF Covers
      <4> QED BY <3>4, <4>1, <4>2, <4>3 DEF Behind
    <3>6. \A u : Lookup(u)' = Lookup(u)
      BY <2>1 DEF Lookup
    <3>7. \A u \in Address : HugeAt(q, u)'
      BY <3>3, <3>5, <3>6 DEF InOrder, HugeAt
    <3>8. ASSUME ~dropped' PROVE \A u \in Address : LatestAt(q, u)'
      <4>1. \A u \in Address : LatestAt(q, u)
        BY <2>1, <3>1, <3>3, <3>8 DEF InOrder, Crooked
      <4> QED BY <3>5, <3>6, <4>1 DEF LatestAt
    <3>9. InOrder(q)'
      BY <3>4, <3>7, <3>8 DEF InOrder
    <3> QED BY <1>4, <2>3, <3>3, <3>4, <3>9
  <2> QED BY <2>2, <2>3
<1>24. CASE \/ unmap_range_skip \/ unmap_range_wraps \/ unmap_range_huge
            \/ unmap_range_page \/ unmap_range_fault
  <2>1. call.op = "unmap_range" /\ calls' = calls /\ phase' # "off"
    BY <1>24 DEF unmap_range_skip, skips_to, unmap_range_wraps, unmap_range_huge,
                 unmap_range_page, removes_page, unmap_range_fault, Missing, Unmapping, Running
  <2> QED BY <1>1, <1>8, <2>1
\* The kernel's calls come later.
<1>25. CASE \E c \in Calls : api(c)
  <2>1. PICK c \in Calls : api(c)
    BY <1>25
  <2>2. calls' = calls + 1 /\ phase = "ready"
    BY <2>1 DEF api, call_range, call_map_page, call_unmap_page, call_get_phys, call_faults, Begin
  <2>3. phase' # "off"
    <3>1. CASE call_range(c) \/ call_get_phys(c) \/ call_faults(c)
      BY <2>2, <3>1 DEF call_range, call_get_phys, call_faults, Missing
    <3>2. CASE call_map_page(c)
      <4>1. PICK s : Effect(s, c.virt, PAGE_SIZE)
        BY <3>2 DEF call_map_page
      <4> QED BY <2>2, <4>1 DEF Effect, Strayed, Missing
    <3>3. CASE call_unmap_page(c)
      BY <2>2, <3>3 DEF call_unmap_page, unmap_page_clears, unmap_page_ignores, Strayed
    <3> QED BY <2>1, <3>1, <3>2, <3>3 DEF api
  <2> QED BY <1>1, <1>8, <2>2, <2>3
<1>26. CASE tlb_fill
  BY <1>7, <1>26 DEF tlb_fill, machine, history
<1>27. CASE Stopped
  BY <1>10, <1>27 DEF Stopped
<1> QED
  BY <1>10, <1>11, <1>12, <1>14, <1>16, <1>17, <1>18, <1>21, <1>22, <1>23, <1>24, <1>25, <1>26,
     <1>27 DEF Next, init, range_step

------------------------------------------------------------------------------
(* Theorems.                                                               *)

IInv ==
  /\ FitInv /\ TreeInv /\ GetInv /\ UnmapInv /\ TlbInv /\ TlbAgrees
  /\ OffInv /\ StraightInv /\ BootInv /\ OrderInv

LEMMA Inductive == Spec => []IInv
<1>1. Init => IInv
  BY InitFits, InitTree, InitGet, InitUnmap, InitTlb, InitOff, InitStraight, InitBoot,
     InitOrder DEF IInv
<1>2. IInv /\ [Next]_vars => IInv'
  BY FitStep, TreeStep, GetStep, UnmapStep, TlbStep, OffStep, StraightStep, BootStep,
     OrderStep DEF IInv
<1> QED
  BY <1>1, <1>2, PTL DEF Spec

\* However calls, failed allocations and full tables come together, the page tables are
\* one tree of four levels: ensure_table (VirtualMemoryManager.cpp:88) never links a table
\* twice or at two levels, and the self map stays.  This holds up to two kinds of call, at
\* which the model ends: one that writes into a huge page that holds a table (phase
\* "overwritten"), and one that reaches for a table, or clears one, at an address where an
\* earlier call mapped another page (phase "misdirected").
THEOREM TreeKept == Spec => []TablesFormTree
<1>1. IInv => TablesFormTree
  BY TreeTables DEF IInv
<1> QED
  BY <1>1, Inductive, PTL

\* get_phys (VirtualMemoryManager.cpp:319) agrees with the walk of the processor at every
\* address the kernel uses, whatever was mapped and unmapped before.
THEOREM GetPhysTrue == Spec => []GetPhysAgrees
<1>1. IInv => GetPhysAgrees
  BY DEF IInv, GetInv
<1> QED
  BY <1>1, Inductive, PTL

\* The loop of unmap_range (VirtualMemoryManager.cpp:264), which skips what an absent entry
\* covers and removes huge pages whole, misses no page of its range.
THEOREM NothingLeftMapped == Spec => []UnmapComplete
<1>1. IInv => UnmapComplete
  BY DEF IInv, UnmapInv, UnmapComplete
<1> QED
  BY <1>1, Inductive, PTL

\* One invlpg for each entry that is removed keeps the TLB in agreement with the tables; only
\* a mapping put in the place of another leaves it behind.
THEOREM TlbCurrent == Spec => []TlbAgrees
<1>1. IInv => TlbAgrees
  BY DEF IInv
<1> QED
  BY <1>1, Inductive, PTL

\* The tables implement the address space AddressSpace describes: each step of map_range,
\* unmap_range, map_page and unmap_page (VirtualMemoryManager.cpp:194-317) changes the
\* translation of the page or huge page it is at and of no other page, and changes it as it
\* is asked, but that a mapping is missed when no page is left for a table or under a huge
\* page; and a range ends when nothing is left of it.  A step does less only where the
\* kernel no longer reaches its tables (phase "faulted" or "misdirected"), and is the last.
THEOREM AddressSpaceImplemented == Spec => ImplementsAddressSpace
<1>1. Init => Promised!Init
  <2> SUFFICES ASSUME Init PROVE Promised!Init
    OBVIOUS
  <2>1. g_pml4_p = nullptr /\ call.op = "none"
    BY DEF Init, Idle, Call
  <2>2. Space = [p \in Pages |-> NoPage]
    BY <2>1 DEF Space
  <2>3. (phase \notin {"faulted", "misdirected"}) = TRUE
    BY DEF Init
  <2> QED BY <2>1, <2>2, <2>3, SameNames DEF Promised!Init
<1>2. IInv /\ [Next]_vars => [Promised!Next]_(Promised!vars)
  BY SpaceStep DEF IInv
<1> QED
  BY <1>1, <1>2, Inductive, PTL DEF Spec, ImplementsAddressSpace, Promised!Spec

\* Whatever init (VirtualMemoryManager.cpp:102) reads, and wherever memory for tables runs
\* out, no address is mapped astray: a huge page or a page put at an address in either half
\* translates all of it straight.
THEOREM BootStraight == Spec => []BootMapsStraight
<1>1. IInv => BootMapsStraight
  BY ObservedAddresses DEF IInv, StraightInv, StraightAt, BootMapsStraight, Straight
<1> QED
  BY <1>1, Inductive, PTL

\* After the switch to the higher half, and until the first call, every page table and every
\* page that may become one is where phys2virt (VirtualMemoryManager.cpp:72) and the identity
\* map say, and can be written there: init reads each descriptor and leaves nothing of it out,
\* if memory lasts, the map is not overwritten, and the allocator returns mappable memory only.
THEOREM TablesFound == Spec => []TablesReachable
<1>1. IInv => TablesReachable
  <2> SUFFICES ASSUME IInv, Booted, ~dropped, ~MapOverwritten, FreePagesMappable,
                      NEW t \in DOMAIN mem \cup free
               PROVE  /\ Lookup(HH(t)).phys = t /\ "RW" \in Lookup(HH(t)).flags
                      /\ Lookup(t).phys = t /\ "RW" \in Lookup(t).flags
    BY DEF TablesReachable
  <2>1. /\ phase = "ready" /\ calls = 0 /\ Undisturbed /\ todo = <<>> /\ call = Idle
    BY DEF Booted, Undisturbed, IInv, BootInv
  <2>2. info \in Infos /\ t \in info.free /\ \A u \in Address : StraightAt(u)
    BY <2>1 DEF IInv, FitInv, TreeInv, StraightInv
  <2>3. t \in Nat
    BY <2>2, AddressAssumption
  <2>4. PICK k \in DOMAIN info.memoryMap :
          is_mappable(info.memoryMap[k].type) /\ Describes(info.memoryMap[k], t)
    BY <2>2 DEF FreePagesMappable
  <2>5. /\ t \in Address /\ Going(IdentityOf(k), t) /\ Straight(t) = t
        /\ HH(t) \in Address /\ Going(HigherHalfOf(k), HH(t)) /\ Straight(HH(t)) = t
    BY <2>2, <2>3, <2>4, Described
  <2>6. \A u : ~Going(call, u)
    BY <2>1 DEF Going, Idle, Call
  <2>7. ~Left("descriptor", k) /\ ~Left("higher_half", k)
    BY <2>1 DEF Left, Range
  <2>8. Assured(k, t) /\ Assured(k, HH(t))
    BY <2>1, <2>4, <2>5 DEF IInv, BootInv
  <2>9. Lookup(t) # NoPage /\ Lookup(HH(t)) # NoPage
    BY <2>4, <2>5, <2>6, <2>7, <2>8 DEF Assured
  <2> QED BY <2>2, <2>5, <2>9 DEF StraightAt
<1> QED
  BY <1>1, Inductive, PTL

\* The kernel can fetch the instruction after the one that loads CR3
\* (VirtualMemoryManager.cpp:146): whatever it runs on is in the memory map, and init has mapped
\* all of that to itself, unless memory for tables ran out or a table lies on the map.
THEOREM SwitchSurvived == Spec => []FaultsHaveACause
<1>1. IInv => FaultsHaveACause
  BY DEF IInv, BootInv
<1> QED
  BY <1>1, Inductive, PTL

\* While init (VirtualMemoryManager.cpp:102) maps, ensure_table (VirtualMemoryManager.cpp:88),
\* which takes a huge page for a table, never meets one: where init has put a huge page it puts
\* nothing later, as the memory mapped with huge pages is apart from all that is mapped after
\* it.  So map_page writes into tables only.
THEOREM OnlyTablesWritten == Spec => []BootWritesOnlyTables
<1>1. IInv => BootWritesOnlyTables
  BY DEF IInv, OrderInv, BootWritesOnlyTables
<1> QED
  BY <1>1, Inductive, PTL

\* The address space init leaves is the one it asks for: of the ranges that cover a page the
\* last in the order of VirtualMemoryManager.cpp:112-143 decides where it is and with which
\* flags, and no page is mapped that no range covers.
THEOREM MapComplete == Spec => []BootMapComplete
<1>1. IInv => BootMapComplete
  <2> SUFFICES ASSUME IInv, Booted, ~dropped, ~MapOverwritten, NEW p \in Pages
               PROVE  Lookup(p).phys = WantedAt(p).phys /\ Lookup(p).flags = WantedAt(p).flags
    BY DEF BootMapComplete
  <2>1. /\ phase = "ready" /\ calls = 0 /\ todo = <<>> /\ call = Idle /\ info \in Infos
        /\ g_pml4_p # nullptr
    BY DEF Booted, IInv, BootInv, FitInv, TreeInv
  <2>2. p \in Address /\ p \in Nat
    BY ObservedAddresses
  <2>3. StraightAt(p)
    BY <2>1, <2>2 DEF IInv, StraightInv
  <2>4. PICK q \in 1..(LastOfMap + 4) : InOrder(q)
    BY <2>1 DEF IInv, OrderInv
  <2>5. q = LastOfMap + 4 /\ LatestAt(q, p)
    BY <2>1, <2>2, <2>4, NextPlace DEF InOrder
  <2> DEFINE rs == {w \in Wanted : Covers(w[2], p)}
  <2>6. \A w : Behind(q, w, p) <=> w \in rs
    <3>1. ~Covers(call, p)
      BY <2>1, <2>2 DEF Covers, Idle, Call
    <3>2. \A w \in Wanted : w[1] < q
      <4>1. LastOfMap \in Nat
        BY <2>1, AddressAssumption DEF LastOfMap
      <4> QED BY <2>1, <2>4, <2>5, <4>1, WantedRanked
    <3> QED BY <3>1, <3>2 DEF Behind
  <2>7. CASE Lookup(p) = NoPage /\ \A w : ~Behind(q, w, p)
    <3>1. rs = {}
      BY <2>6, <2>7
    <3>2. WantedAt(p) = NoPage
      BY <3>1 DEF WantedAt
    <3> QED BY <2>7, <3>2
  <2>8. ASSUME Lookup(p) # NoPage, NEW w, Behind(q, w, p), Lookup(p).flags = w[2].flags,
               \A x : Behind(q, x, p) => x[1] <= w[1]
        PROVE  Lookup(p).phys = WantedAt(p).phys /\ Lookup(p).flags = WantedAt(p).flags
    <3> DEFINE c == CHOOSE y \in rs : \A x \in rs : x[1] <= y[1]
    <3>1. w \in rs /\ \A x \in rs : x[1] <= w[1]
      BY <2>6, <2>8
    <3>2. c \in rs /\ \A x \in rs : x[1] <= c[1]
      BY <3>1
    <3>3. WantedAt(p) = [phys |-> c[2].phys + (p - c[2].virt), flags |-> c[2].flags]
      BY <3>1 DEF WantedAt
    <3> HIDE DEF c
    <3>4. w[1] = c[1]
      BY <2>1, <3>1, <3>2, WantedRanked
    <3>5. c[2] = w[2]
      BY <2>1, <3>1, <3>2, <3>4, WantedRanked
    <3>6. w[2].phys + (p - w[2].virt) = Straight(p)
      BY <2>1, <2>2, <3>1, WantedTyped, RangeStraight
    <3>7. Lookup(p).phys = Straight(p)
      BY <2>3, <2>8 DEF StraightAt
    <3> QED BY <2>8, <3>3, <3>5, <3>6, <3>7
  <2> QED BY <2>5, <2>7, <2>8 DEF LatestAt
<1> QED
  BY <1>1, Inductive, PTL
==============================================================================
