----------------------------- MODULE MCBootMemory -----------------------------
(***************************************************************************)
(* Three machines: a bitmap of one byte in pages with room for the memory  *)
(* map in the pool; the same with a larger pool header, so that the map    *)
(* has pages of its own; and ten pages to track, whose two bytes of bitmap *)
(* lie in two pages of which the loader marks one.                         *)
(***************************************************************************)
EXTENDS BootMemory, Sequences

C == "Conventional"
B == "BootServicesData"

Memory(seq) == [p \in 0..(Len(seq) - 1) |-> seq[p + 1]]

Small ==
  [memory |-> Memory(<<C, B, C, "LoaderCode", "LoaderData", C, C>>), pool |-> {1},
   poolHeader |-> 1, imageBase |-> 24, imageSize |-> 8, kernelBase |-> 32, kernelSize |-> 8,
   frameBufferBase |-> 56, frameBufferSize |-> 0]
LargeHeader == [Small EXCEPT !.poolHeader = 7]
Crossing ==
  [LargeHeader EXCEPT !.memory = Memory(<<C, B, C, "LoaderCode", "LoaderData", C, C, B, C, C>>)]

MCMachines == {Small, LargeHeader, Crossing}
==============================================================================
