----------------------------- MODULE AddressSpace -----------------------------
(***************************************************************************)
(* What vmm promises of the kernel's address space, without page tables:   *)
(* which virtual page translates to what, and the call in progress.  Each  *)
(* step changes the translation of the pages the call is at, to what the   *)
(* call asks for, and of no other page.                                    *)
(***************************************************************************)
EXTENDS PageTables

CONSTANT Pages        \* the virtual pages observed

VARIABLES
  space,     \* page -> its translation: physical address, flags, size
  request,   \* the call in progress; its op is "none" when there is none
  last,      \* the last call made
  able,      \* whether a page table can still be made
  alive      \* whether the kernel still runs

vars == <<space, request, last, able, alive>>

Block(v, n) == {p \in Pages : p >= v /\ p < v + n}
Around(v, n) == Block(AlignDown(v, n), n)

\* The flag PS has another meaning in a page than in a huge page, where it is implied.
To(phys, flags, n) ==
  [phys |-> phys, flags |-> (IF n = HUGE_SIZE THEN flags \ {"PS"} ELSE flags) \cup {"P"},
   size |-> n]

\* Both addresses lose their offset in the page.
Set(v, phys, flags, n) ==
  space' = [p \in Pages |-> IF p \in Around(v, n) THEN To(AlignDown(phys, n) + (p % n), flags, n)
                            ELSE space[p]]

Clear(v, n) ==
  space' = [p \in Pages |-> IF p \in Around(v, n) THEN NoPage ELSE space[p]]

\* A mapping may be missing when there is no memory for its tables, or when a
\* huge page is in its place: there only a huge page can replace it.
MayMiss(v) == ~able' \/ \E p \in Around(v, PAGE_SIZE) : space[p].size = HUGE_SIZE

Init ==
  /\ space = [p \in Pages |-> NoPage]
  /\ request.op = "none"
  /\ alive = TRUE

\* Nothing happens to the address space: a table is made, a descriptor read, a
\* translation cached.
Keep == UNCHANGED <<space, request, last>>

\* A range is asked for, by init or by a caller.
Ask ==
  /\ request.op = "none" /\ request'.op \in {"map_range", "unmap_range"}
  /\ last' = last \/ last'.call = request'
  /\ UNCHANGED space

\* Translations are looked up, and stay.
LookUp == last'.call.op = "get_phys" /\ UNCHANGED <<space, request>>

\* The kernel is lost while it does anything of this, and nothing else is.
Die == alive /\ ~alive' /\ UNCHANGED space

Onward(n) ==
  [request EXCEPT !.virt = Plus(@, n), !.phys = Plus(@, n), !.size = @ - n]

Map(n) ==
  /\ request.op = "map_range" /\ request.size >= n
  /\ Set(request.virt, request.phys, request.flags, n)
  /\ request' = Onward(n)
  /\ UNCHANGED last

\* A page that is missing is passed over; without memory for a huge page's tables the
\* rest of the range is given up.
MapMissing ==
  /\ request.op = "map_range"
  /\ \/ request.size >= PAGE_SIZE /\ MayMiss(request.virt) /\ request' = Onward(PAGE_SIZE)
     \/ request.size >= HUGE_SIZE /\ ~able' /\ request'.op = "none"
  /\ UNCHANGED <<space, last>>

\* unmap_range removes what is there, a page or a huge page, and passes over what is
\* not.
Unmap(n) ==
  /\ request.op = "unmap_range"
  /\ \A p \in Around(request.virt, n) : space[p].size = n
  /\ Clear(request.virt, n)
  /\ request' = [request EXCEPT !.virt = Plus(@, n)]
  /\ UNCHANGED last

PassOver ==
  /\ request.op = "unmap_range"
  /\ request' = [request EXCEPT !.virt = request'.virt]
  /\ request'.virt > request.virt
  /\ \A p \in Block(request.virt, request'.virt - request.virt) : space[p] = NoPage
  /\ UNCHANGED <<space, last>>

\* A range is complete when nothing is left of it.
Finish ==
  /\ \/ request.op = "map_range" /\ request.size = 0
     \/ request.op = "unmap_range" /\ request.virt >= request.end
  /\ request'.op = "none"
  /\ UNCHANGED <<space, last>>

\* The calls that take a single page.
MapPage ==
  LET c == last'.call IN
  /\ request.op = "none" /\ c.op = "map_page"
  /\ \/ Set(c.virt, c.phys, c.flags, PAGE_SIZE)
     \/ MayMiss(c.virt) /\ UNCHANGED space
  /\ UNCHANGED request

\* unmap_page leaves a huge page alone.
UnmapPage ==
  LET c == last'.call IN
  /\ request.op = "none" /\ c.op = "unmap_page"
  /\ IF \E p \in Around(c.virt, PAGE_SIZE) : space[p].size = HUGE_SIZE
     THEN UNCHANGED space ELSE Clear(c.virt, PAGE_SIZE)
  /\ UNCHANGED request

Next ==
  /\ alive
  /\ \/ Die
     \/ /\ alive'
        /\ \/ Keep \/ Ask \/ LookUp
           \/ Map(PAGE_SIZE) \/ Map(HUGE_SIZE) \/ MapMissing
           \/ Unmap(PAGE_SIZE) \/ Unmap(HUGE_SIZE) \/ PassOver \/ Finish
           \/ MapPage \/ UnmapPage

Spec == Init /\ [][Next]_vars
===============================================================================
