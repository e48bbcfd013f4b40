--------------------------- MODULE MCKernelLoader ---------------------------
(***************************************************************************)
(* Kernel files for KernelLoader, with pages of 4 words: one with every     *)
(* kind of relocation and a symbol table, kernels linked at other addresses *)
(* than 0, segments with a page between them, no dynamic table, files the   *)
(* loader refuses, and the layout of linker.ld.                             *)
(***************************************************************************)
EXTENDS KernelLoader

Phdr(type, vaddr, offset, filesz, memsz) ==
  [type |-> type, vaddr |-> vaddr, offset |-> offset, filesz |-> filesz, memsz |-> memsz]

File(entry, phdr, words, relocs, symtab) ==
  [valid |-> TRUE, entry |-> entry, phdr |-> phdr, relocs |-> relocs, symtab |-> symtab,
   words |-> [o \in 0..(Len(words) - 1) |-> words[o + 1]]]

\* Text at 0..3; data from 4: dynamic table, symbols at 11, relocations at 13 and
\* 19, a word to relocate and two of bss.
FullRelocs ==
  << Rela("RELATIVE", 20, 0, 2), Rela("64", 0, 1, 1), Rela("32S", 1, 1, 9),
     Rela("PC32", 2, 0, 1), Rela("COPY", 21, 1, 0), Rela("GLOB_DAT", 3, 0, 3),
     Rela("JUMP_SLOT", 22, 1, 0) >>
Full ==
  File(2,
    << Phdr("PT_LOAD", 0, 0, 4, 4), Phdr("PT_LOAD", 4, 4, 18, 20), Phdr("PT_DYNAMIC", 4, 4, 7, 7) >>,
    << Num(1), Num(35), Num(20), Num(4),
       Dyn("DT_RELA", 13), Dyn("DT_RELASZ", 6), Dyn("DT_JMPREL", 19), Dyn("DT_PLTRELSZ", 1),
       Dyn("DT_SYMTAB", 11), Dyn("DT_STRTAB", 11), Dyn("DT_NULL", 0),
       Num(0), Num(5) >> \o FullRelocs \o << Num(6), Num(7) >>,
    {FullRelocs[n] : n \in DOMAIN FullRelocs}, 11)

\* The same relocations without a symbol table: none of them names a symbol.
PlainRelocs ==
  << Rela("RELATIVE", 1, 0, 5), Rela("64", 2, 0, 3), Rela("32S", 3, 0, 7), Rela("PLT32", 4, 0, 2) >>
MovedBy(r, b) == [r EXCEPT !.off = @ + b]

\* A kernel of two segments linked at b, the second g words after the first.
At(b, g) ==
  File(b + 2,
    << Phdr("PT_DYNAMIC", b + 5, 5, 3, 3), Phdr("PT_LOAD", b, 0, 12, 12),
       Phdr("PT_LOAD", b + 12 + g, 12, 1, 3) >>,
    << Num(9), Num(1), Num(2), Num(33), Num(34),
       Dyn("DT_RELA", b + 8), Dyn("DT_RELASZ", 4), Dyn("DT_NULL", 0) >>
      \o [n \in 1..4 |-> MovedBy(PlainRelocs[n], b)] \o << Num(8) >>,
    {MovedBy(PlainRelocs[n], b) : n \in 1..4}, 0)

\* linker.ld: the dynamic table is in a PT_DYNAMIC segment and in no PT_LOAD.
Scripted(bss) ==
  File(1,
    << Phdr("PT_LOAD", 0, 0, 3, 3), Phdr("PT_LOAD", 7, 7, 1, 1 + bss),
       Phdr("PT_DYNAMIC", 3, 3, 3, 3), Phdr("PT_LOAD", 6, 6, 1, 1) >>,
    << Num(1), Num(2), Num(3),
       Dyn("DT_RELA", 6), Dyn("DT_RELASZ", 1), Dyn("DT_NULL", 0),
       Rela("RELATIVE", 7, 0, 2), Num(2) >>,
    {Rela("RELATIVE", 7, 0, 2)}, 0)

NoDynamic == File(1, << Phdr("PT_LOAD", 3, 0, 2, 4) >>, << Num(1), Num(2) >>, {}, 0)

MCFiles ==
  {Full, Scripted(0), Scripted(2), NoDynamic, [NoDynamic EXCEPT !.valid = FALSE],
   [NoDynamic EXCEPT !.phdr = <<>>]}
  \cup {At(b, g) : b \in {0, 5, 8}, g \in {0, 3, 9}}
MCScripted == {Scripted(0), Scripted(2)}

\* Memory full of zeroes, of one relocation, or with the end of the dynamic table of
\* an earlier kernel where Scripted's will be sought if it is loaded at 20.
Zeroes == [a \in Addresses |-> Num(0)]
Garbage == [a \in Addresses |-> Rela("RELATIVE", 50, 0, 3)]
Earlier ==
  [a \in Addresses |->
     CASE a = 23 -> Dyn("DT_RELA", 20) [] a = 24 -> Dyn("DT_RELASZ", 1) [] a = 25 -> Num(0)
       [] OTHER -> Rela("RELATIVE", 30, 0, 3)]
MCLeftovers == {Zeroes, Garbage, Earlier}
MCZeroes == {Zeroes}
=============================================================================
