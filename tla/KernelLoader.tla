---------------------------- MODULE KernelLoader ----------------------------
(***************************************************************************)
(* LoaderPkg/Loader.c from the display mode to the kernel being in memory: *)
(* ReadFileToBuffer of FileUtility.c with every firmware call that may     *)
(* fail, and LoadKernelElf, one step per segment, dynamic entry and        *)
(* relocation.  FrameWriter has what comes before in UefiMain,             *)
(* LoaderHandoff what comes after.                                         *)
(*                                                                         *)
(* Memory and file are made of words; a word is a number, or an entry of   *)
(* the dynamic table or of a relocation table.  Sizes count words.  The    *)
(* memory the firmware allocates holds what was left in it.                *)
(*                                                                         *)
(* outside is a history variable.                                          *)
(***************************************************************************)
EXTENDS Integers, Sequences, FiniteSetsExt

CONSTANTS
  Files,        \* the kernel files
  Leftovers,    \* what memory may hold from before
  Bases,        \* the addresses AllocatePages may return
  Limit,        \* addresses are below
  Cuts,         \* how many words a short read may give
  PAGE_SIZE,
  WORD32        \* 2^32

VARIABLES
  file,         \* the kernel file: header, program headers, words by offset
  pc,
  call,         \* the next firmware call of ReadFileToBuffer
  held,         \* what it has opened and allocated
  buffer,       \* the words it has read
  memory,
  loadBase, totalPages,
  i,            \* the loops of LoadKernelElf: program header, relocation
  d,            \* the dynamic entry it is at
  dynamic,      \* what the dynamic table says
  entryPoint, kernelBaseSize,
  outside       \* history: addresses written beyond the pages allocated

reading == <<call, held, buffer>>
loaded  == <<loadBase, totalPages, entryPoint, kernelBaseSize>>
vars == <<file, pc, reading, memory, loaded, i, d, dynamic, outside>>

Addresses == 0..(Limit - 1)
nullptr == 0

Word(kind, tag, off, sym, val) ==
  [kind |-> kind, tag |-> tag, off |-> off, sym |-> sym, val |-> val]
Num(v) == Word("int", "", 0, 0, v)
Dyn(tag, v) == Word("dyn", tag, 0, 0, v)
Rela(type, off, sym, addend) == Word("rela", type, off, sym, addend)
DT_NULL == {Num(0), Dyn("DT_NULL", 0)}
DynamicTags == {"DT_RELA", "DT_RELASZ", "DT_JMPREL", "DT_PLTRELSZ", "DT_SYMTAB"}

------------------------------------------------------------------------------
(* ReadFileToBuffer                                                        *)

Init ==
  /\ file \in Files
  /\ pc = "read" /\ call = 1 /\ held = {} /\ buffer = <<>>
  /\ memory \in Leftovers
  /\ loadBase = 0 /\ totalPages = 0 /\ i = 1 /\ d = nullptr
  /\ dynamic = [t \in DynamicTags |-> 0]
  /\ entryPoint = 0 /\ kernelBaseSize = 0 /\ outside = {}

\* The firmware calls of ReadFileToBuffer, with what each acquires.
ReadCalls ==
  << {}, {}, {"root"}, {"file"}, {}, {"fileInfo"}, {}, {"buffer"}, {} >>

\* What Read may leave in the buffer: the file, or, since its size is not compared,
\* the beginning of the file and whatever the buffer held.
Reads ==
  {file.words} \cup
  {[o \in DOMAIN file.words |-> IF o < n THEN file.words[o] ELSE memory[0]] : n \in Cuts}

\* The second GetInfo, the seventh call, is the last use of fileInfo.
read_call ==
  /\ pc = "read" /\ call <= Len(ReadCalls)
  /\ held' = (held \cup ReadCalls[call]) \ (IF call = 7 THEN {"fileInfo"} ELSE {})
  /\ buffer' \in IF call = 9 THEN Reads ELSE {buffer}
  /\ call' = call + 1
  /\ UNCHANGED <<file, pc, memory, loaded, i, d, dynamic, outside>>

fails_giving_back(acquired) ==
  /\ pc = "read" /\ call <= Len(ReadCalls)
  /\ held' = held \ acquired
  /\ pc' = "halted"
  /\ UNCHANGED <<file, call, buffer, memory, loaded, i, d, dynamic, outside>>

\* Faulty variant: the exit does not look after fileInfo.
read_call_fails_keeps_info == fails_giving_back({"file", "root", "buffer"})

\* Any of them fails: all is given back, and UefiMain halts.
read_call_fails == fails_giving_back({"file", "root", "fileInfo", "buffer"})

read_exit ==
  /\ pc = "read" /\ call > Len(ReadCalls)
  /\ held' = held \ {"file", "root", "fileInfo"}
  /\ pc' = "check"
  /\ UNCHANGED <<file, call, buffer, memory, loaded, i, d, dynamic, outside>>

------------------------------------------------------------------------------
(* LoadKernelElf: segments                                                 *)

Headers(f) == DOMAIN f.phdr
Loads(f) == {n \in Headers(f) : f.phdr[n].type = "PT_LOAD"}
originalBase(f) == Min({f.phdr[n].vaddr : n \in Loads(f)})
highestEnd(f) == Max({f.phdr[n].vaddr + f.phdr[n].memsz : n \in Loads(f)})
bias == loadBase - originalBase(file)

FirstPage(h) == h.vaddr \div PAGE_SIZE
PageEnd(h) == (h.vaddr + h.memsz + PAGE_SIZE - 1) \div PAGE_SIZE

\* Faulty variant: the end of a segment is not rounded up to a page.
pages_rounded_down(h) == (h.vaddr + h.memsz) \div PAGE_SIZE - FirstPage(h)

\* The pages counted for a segment.
pages(h) == PageEnd(h) - FirstPage(h)

count_pages ==
  /\ pc = "check" /\ file.valid /\ Loads(file) # {} /\ i \in Headers(file)
  /\ totalPages' = totalPages + IF i \in Loads(file) THEN pages(file.phdr[i]) ELSE 0
  /\ i' = i + 1
  /\ UNCHANGED <<file, pc, reading, memory, loadBase, entryPoint, kernelBaseSize, d, dynamic, outside>>

\* EFI_UNSUPPORTED, or EFI_INVALID_PARAMETER: UefiMain frees the file and halts,
load_refuses ==
  /\ pc = "check" /\ (~file.valid \/ Loads(file) = {})
  /\ held' = held \ {"buffer"}
  /\ pc' = "halted"
  /\ UNCHANGED <<file, call, buffer, memory, loaded, i, d, dynamic, outside>>

\* as it does when there are no pages.
allocate_pages_fails ==
  /\ pc = "check" /\ file.valid /\ Loads(file) # {} /\ i \notin Headers(file)
  /\ held' = held \ {"buffer"}
  /\ pc' = "halted"
  /\ UNCHANGED <<file, call, buffer, memory, loaded, i, d, dynamic, outside>>

allocate_pages ==
  /\ pc = "check" /\ file.valid /\ Loads(file) # {} /\ i \notin Headers(file)
  /\ loadBase' \in Bases
  /\ pc' = "copy"
  /\ i' = 1
  /\ UNCHANGED <<file, reading, memory, totalPages, entryPoint, kernelBaseSize, d, dynamic, outside>>

Allocated == loadBase..(loadBase + totalPages * PAGE_SIZE - 1)

\* Write f at its domain.
Store(f) ==
  /\ memory' = [a \in Addresses |-> IF a \in DOMAIN f THEN f[a] ELSE memory[a]]
  /\ outside' = outside \cup (DOMAIN f \ Allocated)

\* The words of a segment as they are copied to dest, memsz of them.
Segment(h, memsz, dest) ==
  [a \in dest..(dest + memsz - 1) |->
     IF a < dest + h.filesz THEN buffer[h.offset + a - dest] ELSE Num(0)]

copies_segment(memsz(_)) ==
  /\ pc = "copy" /\ i \in Headers(file)
  /\ LET h == file.phdr[i] IN
     IF h.type = "PT_LOAD"
     THEN Store(Segment(h, memsz(h), loadBase + (h.vaddr - originalBase(file))))
     ELSE UNCHANGED <<memory, outside>>
  /\ i' = i + 1
  /\ UNCHANGED <<file, pc, reading, loaded, d, dynamic>>

\* Faulty variant: what the file does not provide is not zeroed.
copy_segment_no_bss == copies_segment(LAMBDA h : h.filesz)

copy_segment == copies_segment(LAMBDA h : h.memsz)

------------------------------------------------------------------------------
(* LoadKernelElf: relocation                                               *)

Dynamics(f) == {n \in Headers(f) : f.phdr[n].type = "PT_DYNAMIC"}

\* The first PT_DYNAMIC header says where the dynamic table is in memory.
find_dynamic ==
  /\ pc = "copy" /\ i \notin Headers(file)
  /\ IF Dynamics(file) = {} THEN pc' = "done" /\ UNCHANGED d
     ELSE pc' = "scan" /\ d' = bias + file.phdr[Min(Dynamics(file))].vaddr
  /\ UNCHANGED <<file, reading, memory, loaded, i, dynamic, outside>>

\* One entry: addresses are moved by the bias, sizes counted in relocations.
scan_dynamic ==
  /\ pc = "scan" /\ d \in Addresses /\ memory[d] \notin DT_NULL
  /\ LET e == memory[d] IN
     dynamic' = IF e.tag \in DOMAIN dynamic
                THEN [dynamic EXCEPT ![e.tag] =
                        IF e.tag \in {"DT_RELASZ", "DT_PLTRELSZ"} THEN e.val ELSE bias + e.val]
                ELSE dynamic
  /\ d' = d + 1
  /\ UNCHANGED <<file, pc, reading, memory, loaded, i, outside>>

scan_ends ==
  /\ pc = "scan" /\ d \in Addresses /\ memory[d] \in DT_NULL
  /\ pc' = "rela"
  /\ i' = 0
  /\ UNCHANGED <<file, reading, memory, loaded, d, dynamic, outside>>

\* The table has no end in memory: the loader reads on.  The model ends here.
scan_gets_lost ==
  /\ pc = "scan" /\ d \notin Addresses
  /\ pc' = "lost"
  /\ UNCHANGED <<file, reading, memory, loaded, i, d, dynamic, outside>>

\* A 32-bit write leaves the upper half of a word.
Low(w, v) == Num((w.val \div WORD32) * WORD32 + (v % WORD32))

ResolveSym(m, symtab, sym, b) == IF symtab = nullptr THEN 0 ELSE b + m[symtab + sym].val

\* The types of the switch; others change nothing.
Applied == {"RELATIVE", "64", "GLOB_DAT", "32S", "PC32", "PLT32"}

\* The word at p after relocation r, in memory m.
Relocated(m, r, p, symtab, b) ==
  LET s == ResolveSym(m, symtab, r.sym, b)
      base == IF r.sym = 0 \/ symtab = nullptr THEN b ELSE s
  IN CASE r.tag = "RELATIVE" -> Num(b + r.val)
       [] r.tag \in {"64", "GLOB_DAT"} -> Num(base + r.val)
       [] r.tag = "32S" -> Low(m[p], base + r.val)
       [] r.tag \in {"PC32", "PLT32"} -> Low(m[p], base + r.val - p)

apply_rela ==
  /\ pc = "rela" /\ i < dynamic["DT_RELASZ"]
  /\ LET r == memory[dynamic["DT_RELA"] + i]
         p == bias + r.off
     IN IF r.tag \in Applied
        THEN Store([a \in {p} |-> Relocated(memory, r, p, dynamic["DT_SYMTAB"], bias)])
        ELSE UNCHANGED <<memory, outside>>
  /\ i' = i + 1
  /\ UNCHANGED <<file, pc, reading, loaded, d, dynamic>>

rela_ends ==
  /\ pc = "rela" /\ i = dynamic["DT_RELASZ"]
  /\ pc' = "jmprel"
  /\ i' = 0
  /\ UNCHANGED <<file, reading, memory, loaded, d, dynamic, outside>>

apply_jmprel ==
  /\ pc = "jmprel" /\ i < dynamic["DT_PLTRELSZ"]
  /\ LET r == memory[dynamic["DT_JMPREL"] + i]
         p == bias + r.off
     IN IF r.tag = "JUMP_SLOT" /\ dynamic["DT_SYMTAB"] # nullptr
        THEN Store([a \in {p} |->
               Num(ResolveSym(memory, dynamic["DT_SYMTAB"], r.sym, bias) + r.val)])
        ELSE UNCHANGED <<memory, outside>>
  /\ i' = i + 1
  /\ UNCHANGED <<file, pc, reading, loaded, d, dynamic>>

jmprel_ends ==
  /\ pc = "jmprel" /\ i = dynamic["DT_PLTRELSZ"]
  /\ pc' = "done"
  /\ UNCHANGED <<file, reading, memory, loaded, i, d, dynamic, outside>>

\* UefiMain frees the file.
load_done ==
  /\ pc = "done"
  /\ entryPoint' = loadBase + file.entry
  /\ kernelBaseSize' = highestEnd(file) - originalBase(file)
  /\ held' = held \ {"buffer"}
  /\ pc' = "loaded"
  /\ UNCHANGED <<file, call, buffer, memory, loadBase, totalPages, i, d, dynamic, outside>>

\* UefiMain goes on, halts, or is lost.
Stopped == pc \in {"loaded", "halted", "lost"} /\ UNCHANGED vars

Next ==
  \/ read_call \/ read_call_fails \/ read_exit
  \/ load_refuses \/ count_pages \/ allocate_pages_fails \/ allocate_pages \/ copy_segment
  \/ find_dynamic \/ scan_dynamic \/ scan_ends \/ scan_gets_lost
  \/ apply_rela \/ rela_ends \/ apply_jmprel \/ jmprel_ends \/ load_done
  \/ Stopped

Spec == Init /\ [][Next]_vars

------------------------------------------------------------------------------
(* Kernels as a linker makes them, in the addresses they are linked at.    *)

Covers(h, v) == v >= h.vaddr /\ v < h.vaddr + h.memsz
InMemory(f, v) == \E n \in Loads(f) : Covers(f.phdr[n], v)

\* The word of the file that belongs at address v.
Linked(f, v) ==
  LET h == f.phdr[CHOOSE n \in Loads(f) : Covers(f.phdr[n], v)] IN
  IF v < h.vaddr + h.filesz THEN f.words[h.offset + v - h.vaddr] ELSE Num(0)

DynamicLoaded(f) ==
  \A n \in Dynamics(f) :
    \A v \in f.phdr[n].vaddr..(f.phdr[n].vaddr + f.phdr[n].memsz - 1) : InMemory(f, v)

\* The dynamic table: its k-th entry, how many there are, and what it says.
DynamicHeader(f) == f.phdr[Min(Dynamics(f))]
DynamicEntry(f, k) == Linked(f, DynamicHeader(f).vaddr + k)
Ends(f) == {k \in 0..(DynamicHeader(f).memsz - 1) : DynamicEntry(f, k) \in DT_NULL}
With(f, tag) == {k \in 0..(Min(Ends(f)) - 1) : DynamicEntry(f, k).tag = tag}
Value(f, tag) ==
  IF With(f, tag) = {} THEN 0 ELSE DynamicEntry(f, CHOOSE k \in With(f, tag) : TRUE).val

\* Where the entries of the two relocation tables are.
Relas(f) == {Value(f, "DT_RELA") + k : k \in 0..(Value(f, "DT_RELASZ") - 1)}
Jmprels(f) == {Value(f, "DT_JMPREL") + k : k \in 0..(Value(f, "DT_PLTRELSZ") - 1)}

\* Segments have their words in the file and do not overlap.
SegmentsFit(f) ==
  /\ Len(f.phdr) \in Nat /\ DOMAIN f.phdr = 1..Len(f.phdr)
  /\ \A n \in Headers(f) : LET h == f.phdr[n] IN
       h.vaddr \in Nat /\ h.offset \in Nat /\ h.filesz \in Nat /\ h.memsz \in Nat
  /\ \A n \in Loads(f) : LET h == f.phdr[n] IN
       /\ h.filesz <= h.memsz /\ h.offset..(h.offset + h.filesz - 1) \subseteq DOMAIN f.words
       /\ \A v \in h.vaddr..(h.vaddr + h.memsz - 1), m \in Loads(f) : Covers(f.phdr[m], v) => n = m
       /\ \A b \in Bases : b + (h.vaddr + h.memsz - originalBase(f)) <= Limit

\* The dynamic table has an end and each of its tags once; the tables it names are
\* loaded, and so are the symbols.
DynamicFits(f) ==
  /\ Ends(f) # {}
  /\ \A tag \in DynamicTags : \A j, k \in With(f, tag) : j = k
  /\ Value(f, "DT_RELASZ") \in Nat /\ Value(f, "DT_PLTRELSZ") \in Nat
  /\ Relas(f) # {} => With(f, "DT_RELA") # {}
  /\ Jmprels(f) # {} => With(f, "DT_JMPREL") # {}
  /\ \A v \in Relas(f) \cup Jmprels(f) : InMemory(f, v)
  /\ f.symtab = Value(f, "DT_SYMTAB")
  /\ With(f, "DT_SYMTAB") # {} => InMemory(f, f.symtab)

\* Each relocation is for a word of its own, which is loaded and is no entry of these
\* tables and no symbol.
RelocationsFit(f) ==
  LET entries == Relas(f) \cup Jmprels(f) IN
  /\ f.relocs = {Linked(f, v) : v \in entries}
  /\ \A v, w \in entries : Linked(f, v).off = Linked(f, w).off => v = w
  /\ \A v \in Relas(f) : Linked(f, v).tag # "JUMP_SLOT"
  /\ \A v \in Jmprels(f) : Linked(f, v).tag \notin Applied
  /\ \A r \in f.relocs :
       /\ InMemory(f, r.off) /\ {r.off, r.sym} \subseteq Int /\ r.off \notin entries
       /\ r.tag = "RELATIVE" => r.sym = 0
       /\ r.tag = "JUMP_SLOT" => r.sym # 0
       /\ r.sym # 0 => /\ With(f, "DT_SYMTAB") # {} /\ InMemory(f, f.symtab + r.sym)
                       /\ \A s \in f.relocs : s.off # f.symtab + r.sym

\* The loader relies on all of it and looks at none.  Firmware hands out whole pages,
\* page 0 never.
ASSUME KernelAssumption ==
  /\ PAGE_SIZE \in Nat \ {0} /\ Limit \in Nat
  /\ \A b \in Bases : b \in Nat \ {0} /\ b % PAGE_SIZE = 0
  /\ \A f \in Files :
       f.valid /\ Loads(f) # {} =>
         /\ SegmentsFit(f)
         /\ \A o \in DOMAIN f.words : f.words[o].val \in Int
         /\ IF Dynamics(f) = {} THEN f.relocs = {}
            ELSE DynamicLoaded(f) => DynamicFits(f) /\ RelocationsFit(f)

------------------------------------------------------------------------------
(* Properties                                                              *)

\* Whichever call fails, nothing stays open or allocated: the loader halts, or
\* starts the kernel, holding no file and no pool, and reads from a file and
\* loads from a buffer it has.
NothingLeftHeld ==
  /\ pc \in {"halted", "loaded"} => held = {}
  /\ pc \in {"check", "copy", "scan", "rela", "jmprel", "done"} => held = {"buffer"}

\* A page between the lowest and the highest that no segment touches.
PageGap(f) ==
  \E p \in (originalBase(f) \div PAGE_SIZE)..((highestEnd(f) - 1) \div PAGE_SIZE) :
    \A n \in Loads(f) : p < FirstPage(f.phdr[n]) \/ p >= PageEnd(f.phdr[n])

\* The loader writes only into the pages it allocated, although it counts them
\* segment by segment and places segments by their distance from the first;
\* unless the segments leave whole pages between them, which nobody counts, or what
\* is taken for relocations was never read: after a short read nobody noticed, or
\* where the dynamic table is in no loaded segment.
ShortRead == buffer # file.words
WritesInside == outside # {} => PageGap(file) \/ ShortRead \/ ~DynamicLoaded(file)

\* The kernel as the file describes it, moved by b: each loaded is the file's,
\* or zero, or relocated by the entry for it, as the relocations the file was built
\* with (f.relocs) say.
Image(f, b, v) ==
  LET w == Linked(f, v)
      at == {r \in f.relocs : r.off = v}
  IN IF at = {} THEN w
     ELSE LET r == CHOOSE r \in at : TRUE
              s == IF r.sym = 0 THEN 0 ELSE Linked(f, f.symtab + r.sym).val
          IN IF r.tag \in {"RELATIVE", "64", "GLOB_DAT", "JUMP_SLOT"} THEN Num(b + s + r.val)
             ELSE IF r.tag = "32S" THEN Low(w, b + s + r.val)
             ELSE IF r.tag \in {"PC32", "PLT32"} THEN Low(w, s + r.val - v)
             ELSE w

\* A kernel that was read whole and whose dynamic table is part of a loaded
\* segment is in memory as it was linked, moved to where it was loaded, and inside
\* the range the loader reports, which CreatePageBitmap keeps from being handed
\* out; and it is entered at its entry point if its lowest address is 0, for the
\* entry is taken from the base of the allocation and not from the bias.
KernelAsLinked ==
  pc = "loaded" /\ DynamicLoaded(file) /\ ~ShortRead =>
    /\ \A v \in originalBase(file)..(highestEnd(file) - 1) :
         InMemory(file, v) =>
           /\ memory[bias + v] = Image(file, bias, v)
           /\ bias + v \in loadBase..(loadBase + kernelBaseSize - 1)
    /\ originalBase(file) = 0 => entryPoint = bias + file.entry

\* The first line of linker.ld calls it the version for PIE and relocation: a
\* kernel laid out by it is relocated when it is loaded.
ScriptedKernelRelocated ==
  pc = "loaded" /\ ~ShortRead =>
    \A r \in file.relocs : memory[bias + r.off] = Image(file, bias, r.off)
=============================================================================
