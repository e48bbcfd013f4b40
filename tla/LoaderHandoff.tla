----------------------------- MODULE LoaderHandoff -----------------------------
(***************************************************************************)
(* LoaderPkg/Loader.c: the end of UefiMain, from the first GetMemoryMap to *)
(* the call of the kernel, next to the firmware, whose own events allocate *)
(* and free memory until ExitBootServices.  The page bitmap is made from   *)
(* the first memory map, the kernel is given the second.                   *)
(*                                                                         *)
(* Memory is a function from pages to UEFI memory types.  AllocatePool is  *)
(* external: a buffer begins machine.poolHeader bytes into the pages the   *)
(* pool takes for it, or lies in a pool page that has room; either may     *)
(* happen.                                                                 *)
(*                                                                         *)
(* first and taken are history variables.                                  *)
(***************************************************************************)
EXTENDS Integers, FiniteSets

CONSTANTS
  Machines,       \* memory, pool, and where image, kernel and display are
  EFI_PAGE_SIZE,      \* bytes per page
  PER_BYTE,       \* pages per byte of the bitmap (8 in the code)
  DESCRIPTOR,     \* bytes of a memory descriptor
  EventTypes,     \* the types firmware events allocate pages as
  MaxEvents       \* bound on the firmware's allocations and frees

\* A pool header is shorter than a page.
ASSUME MachinesAssumption ==
  /\ EFI_PAGE_SIZE \in Nat \ {0} /\ PER_BYTE \in Nat \ {0} /\ DESCRIPTOR \in Nat
  /\ \A m \in Machines :
       /\ IsFiniteSet(DOMAIN m.memory)
       /\ DOMAIN m.memory = 0..(Cardinality(DOMAIN m.memory) - 1)
       /\ m.pool \subseteq DOMAIN m.memory
       /\ m.poolHeader \in 0..(EFI_PAGE_SIZE - 1)
       /\ {m.imageBase, m.imageSize, m.kernelBase, m.kernelSize, m.frameBufferBase,
           m.frameBufferSize} \subseteq Nat

VARIABLES
  machine,
  type,           \* the firmware's memory map: page -> type
  key,            \* its version, what GetMemoryMap returns as mapKey
  pc,             \* the call the loader makes next
  round,          \* the first or the second memory map
  mapSize,        \* what the size query answered
  memMap,         \* the buffer of the memory map
  snapshot,       \* the memory map in it ...
  mapKey,         \* ... and its key
  bitmap,         \* the buffer of the page bitmap ...
  pageBitmapBytes,\* ... and its size
  clear,          \* the pages whose bit is clear
  outside,        \* pages whose bit was set beyond the end of the bitmap
  events,         \* how often the firmware acted
  first,          \* history: the memory map the bitmap was made from
  taken           \* history: pages firmware events hold

vars == <<machine, type, key, pc, round, mapSize, memMap, snapshot, mapKey, bitmap,
          pageBitmapBytes, clear, outside, events, first, taken>>

Pages == DOMAIN machine.memory
Conventional(map) == {p \in DOMAIN map : map[p] = "Conventional"}

\* The descriptors of a memory map: one for each run of pages of a type.
Size(map) ==
  DESCRIPTOR * Cardinality({p \in DOMAIN map : p = 0 \/ map[p - 1] # map[p]})

Ceil(a, b) == (a + b - 1) \div b

NoBuffer == [page |-> 0, offset |-> 0, pages |-> {}, own |-> FALSE]
NoMap == <<>>

UnchangedMemory == UNCHANGED <<machine, type, key, events, taken>>
UnchangedMap == UNCHANGED <<round, mapSize, memMap, snapshot, mapKey>>
UnchangedBitmap == UNCHANGED <<bitmap, pageBitmapBytes, clear, outside>>

------------------------------------------------------------------------------
(* The firmware.                                                           *)

\* The buffers AllocatePool may return for n bytes: pages of its own from free
\* memory, or, for less than a page, room in a pool page.
Buffers(n) ==
  LET end == machine.poolHeader + n
      buffer(p, pages, own) ==
        [page |-> p, offset |-> machine.poolHeader, pages |-> pages, own |-> own]
  IN {buffer(p, p..(p + Ceil(end, EFI_PAGE_SIZE) - 1), TRUE) : p \in Pages}
     \cup {buffer(p, {p}, FALSE) : p \in IF end <= EFI_PAGE_SIZE THEN machine.pool ELSE {}}

Available(b) == b.own => b.pages \subseteq Conventional(type)

Take(b) ==
  /\ type' = [p \in Pages |-> IF b.own /\ p \in b.pages THEN "BootServicesData" ELSE type[p]]
  /\ key' = IF b.own THEN key + 1 ELSE key

\* FreePool(memMap).  What else came to lie in its pages is not modelled: the
\* bitmap in the rest of them would keep them allocated.
FreeMap ==
  /\ type' = [p \in Pages |-> IF memMap.own /\ p \in memMap.pages THEN "Conventional" ELSE type[p]]
  /\ key' = IF memMap.own THEN key + 1 ELSE key
  /\ memMap' = NoBuffer

\* An event handler of the firmware makes page p of type t.
FirmwareEvent(p, t) ==
  /\ pc \notin {"kernel", "halted"} /\ events < MaxEvents
  /\ type' = [type EXCEPT ![p] = t]
  /\ key' = key + 1
  /\ events' = events + 1
  /\ UnchangedMap /\ UnchangedBitmap /\ UNCHANGED <<machine, pc, first>>

\* It allocates a page, or frees one it allocated.
FirmwareAllocates ==
  \E p \in Conventional(type), t \in EventTypes :
    FirmwareEvent(p, t) /\ taken' = taken \cup {p}

FirmwareFrees ==
  \E p \in taken : FirmwareEvent(p, "Conventional") /\ taken' = taken \ {p}

------------------------------------------------------------------------------
(* The loader.                                                             *)

Init ==
  /\ machine \in Machines
  /\ type = machine.memory
  /\ key = 0 /\ pc = "tables" /\ round = 1
  /\ mapSize = 0 /\ memMap = NoBuffer /\ snapshot = NoMap /\ mapKey = 0
  /\ bitmap = NoBuffer /\ pageBitmapBytes = 0 /\ clear = {} /\ outside = {}
  /\ events = 0 /\ first = NoMap /\ taken = {}

\* GetRootSystemDescriptionPointerAddress and GetCommandLine: without an ACPI
\* table, or without the loaded image, the loader halts.
find_tables ==
  /\ pc = "tables"
  /\ pc' \in {"query", "halted"}
  /\ UnchangedMemory /\ UnchangedMap /\ UnchangedBitmap /\ UNCHANGED first

\* GetMemoryMap, first call: the size of the map as it is now, and its key.
query_size ==
  /\ pc = "query"
  /\ mapSize' = Size(type)
  /\ mapKey' = key
  /\ pc' = "allocate"
  /\ UnchangedMemory /\ UnchangedBitmap /\ UNCHANGED <<round, memMap, snapshot, first>>

\* Its buffer; allocating it may itself change the map.
allocate_map ==
  /\ pc = "allocate"
  /\ \E b \in Buffers(mapSize) : Available(b) /\ Take(b) /\ memMap' = b
  /\ pc' = "read"
  /\ UnchangedBitmap
  /\ UNCHANGED <<machine, round, mapSize, snapshot, mapKey, events, first, taken>>

reads_map(newKey) ==
  /\ pc = "read" /\ Size(type) <= mapSize
  /\ snapshot' = type
  /\ mapKey' = newKey
  /\ mapSize' = Size(type)
  /\ pc' = IF round = 1 THEN "bitmap" ELSE "exit"
  /\ first' = IF round = 1 THEN type ELSE first
  /\ UnchangedMemory /\ UnchangedBitmap /\ UNCHANGED <<round, memMap>>

\* Faulty: the key is the one of the size query.
read_map_keeps_key == reads_map(mapKey)

\* GetMemoryMap, second call.
read_map == reads_map(key)

\* The map has grown since the size query: EFI_BUFFER_TOO_SMALL, without a retry.
read_map_fails ==
  /\ pc = "read" /\ Size(type) > mapSize
  /\ FreeMap
  /\ pc' = "halted"
  /\ UnchangedBitmap
  /\ UNCHANGED <<machine, round, mapSize, snapshot, mapKey, events, first, taken>>

\* CreatePageBitmap: the pages up to the highest conventional one, and the bytes.
maxPages == 1 + (CHOOSE p \in Conventional(snapshot) \cup {-1} :
                   \A q \in Conventional(snapshot) : q <= p)
bytes == Ceil(maxPages, PER_BYTE)

allocate_bitmap ==
  /\ pc = "bitmap"
  /\ \E b \in Buffers(bytes) : Available(b) /\ Take(b) /\ bitmap' = b
  /\ pageBitmapBytes' = bytes
  /\ pc' = "fill"
  /\ UnchangedMap
  /\ UNCHANGED <<machine, clear, outside, events, first, taken>>

\* Faulty: one page more.
SetUsedRange_one_more(pa, size) == (pa \div EFI_PAGE_SIZE)..(pa \div EFI_PAGE_SIZE + Ceil(size, EFI_PAGE_SIZE))

\* SetUsedRange counts the pages of the size, not those the range touches.
SetUsedRange(pa, size) == (pa \div EFI_PAGE_SIZE)..(pa \div EFI_PAGE_SIZE + Ceil(size, EFI_PAGE_SIZE) - 1)

\* What is in use before there is a bitmap.
MarkedRanges ==
  SetUsedRange(machine.imageBase, machine.imageSize)
  \cup SetUsedRange(machine.kernelBase, machine.kernelSize)
  \cup SetUsedRange(machine.frameBufferBase, machine.frameBufferSize)
  \cup {0}

Marked ==
  MarkedRanges
  \cup SetUsedRange(bitmap.page * EFI_PAGE_SIZE + bitmap.offset, pageBitmapBytes)

\* 0xFF everywhere, free memory cleared, what is in use marked again.
fills_bitmap(free) ==
  /\ pc = "fill"
  /\ clear' = free \ Marked
  /\ outside' = {p \in Marked : p >= pageBitmapBytes * PER_BYTE}
  /\ pc' = "free"
  /\ UnchangedMemory /\ UnchangedMap /\ UNCHANGED <<bitmap, pageBitmapBytes, first>>

\* Faulty: the descriptors' type is not looked at; a page too many is cleared for
\* each descriptor.
fill_bitmap_any_type == fills_bitmap(DOMAIN snapshot)
fill_bitmap_one_past ==
  fills_bitmap(Conventional(snapshot) \cup {p + 1 : p \in Conventional(snapshot)})

fill_bitmap == fills_bitmap(Conventional(snapshot))

free_map ==
  /\ pc = "free"
  /\ FreeMap
  /\ snapshot' = NoMap
  /\ mapSize' = 0
  /\ mapKey' = 0
  /\ round' = 2
  /\ pc' = "query"
  /\ UnchangedBitmap
  /\ UNCHANGED <<machine, events, first, taken>>

exits(to) ==
  /\ pc = "exit"
  /\ pc' = to
  /\ UnchangedMemory /\ UnchangedMap /\ UnchangedBitmap /\ UNCHANGED first

\* The firmware refuses a key that is not current; there is no second attempt.
exit_boot_services == mapKey = key /\ exits("kernel")

\* Faulty: the status is not looked at.
exit_boot_services_fails_unseen == mapKey # key /\ exits("kernel")

exit_boot_services_fails == mapKey # key /\ exits("halted")

\* AllocatePool finds nothing.
out_of_resources ==
  /\ \/ pc = "allocate" /\ \A b \in Buffers(mapSize) : ~Available(b)
     \/ pc = "bitmap" /\ \A b \in Buffers(bytes) : ~Available(b)
  /\ pc' = "halted"
  /\ UnchangedMemory /\ UnchangedMap /\ UnchangedBitmap /\ UNCHANGED first

loader ==
  \/ find_tables \/ query_size \/ allocate_map \/ read_map \/ read_map_fails
  \/ allocate_bitmap \/ fill_bitmap \/ free_map
  \/ exit_boot_services \/ exit_boot_services_fails
  \/ out_of_resources

\* The kernel runs, or Halt() loops.
Stopped == pc \in {"kernel", "halted"} /\ UNCHANGED vars

Next == loader \/ FirmwareAllocates \/ FirmwareFrees \/ Stopped

Spec == Init /\ [][Next]_vars

------------------------------------------------------------------------------
(* Properties                                                              *)

HandedOver == pc = "kernel"
Touched(base, size) == (base \div EFI_PAGE_SIZE)..((base + size - 1) \div EFI_PAGE_SIZE)

\* The memory map the kernel reads is the memory map as boot services ended,
\* whatever the firmware did between the loader's calls.
HandoffMapIsCurrent == HandedOver => snapshot = type

\* The bitmap is older than that map.  The pages it calls free that are in use
\* when the kernel starts are the buffer of the second memory map, what the
\* firmware took since, and the last page of the bitmap itself if its bytes,
\* which do not begin on a page, reach into one more page than they fill.
ClearPagesInUse ==
  HandedOver =>
    clear \ Conventional(type) \subseteq
      (IF memMap.own THEN memMap.pages ELSE {})
      \cup {p \in taken : first[p] = "Conventional"}
      \cup {p \in bitmap.pages : p >= bitmap.page + Ceil(pageBitmapBytes, EFI_PAGE_SIZE)}

\* The bits CreatePageBitmap sets are not checked against the end of the bitmap.
\* Those beyond it belong to an image, a kernel or a frame buffer that lies above
\* the highest conventional page, or to the bitmap itself, when its buffer is in
\* memory that was not conventional yet as the map was read; or to page 0, when no
\* memory was conventional and the bitmap has no bytes.
MarksLandInBitmap ==
  outside \subseteq
    Touched(machine.imageBase, machine.imageSize)
    \cup Touched(machine.kernelBase, machine.kernelSize)
    \cup Touched(machine.frameBufferBase, machine.frameBufferSize)
    \cup {p \in bitmap.pages : first[p] # "Conventional"}
    \cup (IF Conventional(first) = {} THEN {0} ELSE {})

\* The loader halts for want of memory or of a table, or because of the firmware:
\* what it does itself never makes its key stale, and makes the memory map outgrow
\* its buffer only by allocating that buffer.
HaltHasCause ==
  [][pc' = "halted" /\ pc # "halted" =>
       \/ pc = "tables"
       \/ pc \in {"allocate", "bitmap"}
       \/ pc = "read" /\ (events > 0 \/ memMap.own)
       \/ pc = "exit" /\ events > 0]_vars
==============================================================================
