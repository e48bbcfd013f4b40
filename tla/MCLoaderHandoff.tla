---------------------------- MODULE MCLoaderHandoff ----------------------------
(***************************************************************************)
(* Four machines of at most eight pages.  Page 0 is conventional memory,   *)
(* as on a PC, but for the last; conventional memory lies in two parts, so *)
(* that a buffer can split a descriptor, touch one end of it, or take all  *)
(* of it.                                                                  *)
(***************************************************************************)
EXTENDS LoaderHandoff, Sequences

C == "Conventional"
B == "BootServicesData"
L == "LoaderData"
X == "LoaderCode"
R == "Reserved"

Memory(seq) == [p \in 0..(Len(seq) - 1) |-> seq[p + 1]]

\* Image and kernel below the highest conventional page, no display memory in
\* between; 8 pages to track, so that the bitmap is exactly a page long.
Plain ==
  [memory |-> Memory(<<C, B, C, X, L, C, C, C>>), pool |-> {1}, poolHeader |-> 1,
   imageBase |-> 24, imageSize |-> 8, kernelBase |-> 32, kernelSize |-> 8,
   frameBufferBase |-> 16, frameBufferSize |-> 0]

\* The display's memory begins above the highest conventional page, beyond the
\* end of the bitmap.
DisplayAbove ==
  [Plain EXCEPT !.memory = Memory(<<C, B, C, X, L, C, C>>),
                !.frameBufferBase = 56, !.frameBufferSize = 16]

\* The kernel was loaded at the top of memory and the bitmap ends below it.
KernelAbove ==
  [Plain EXCEPT !.memory = Memory(<<C, C, C, X, C, C, R, L>>),
                !.pool = {}, !.kernelBase = 56]

\* The memory map takes the only page left, and the bitmap has no bytes.
NothingLeft ==
  [Plain EXCEPT !.memory = Memory(<<R, B, C, X, L>>), !.frameBufferBase = 0]

MCMachines == {Plain, DisplayAbove, KernelAbove, NothingLeft}
==============================================================================
