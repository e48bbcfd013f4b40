----------------------- MODULE MCPhysicalPageAllocator -----------------------
(***************************************************************************)
(* A two-byte bitmap (sixteen pages) with free pages on both sides of the  *)
(* byte boundary, a bitmap whose page 0 is clear, a full bitmap, and the   *)
(* three boot infos init refuses.                                          *)
(***************************************************************************)
EXTENDS PhysicalPageAllocator, TLC

Boot(bits, size) ==
  [present |-> TRUE, pageBitmapBase |-> 1, pageBitmapSize |-> size, bits |-> bits]

Used == 0..7

MCInfos ==
  { Boot((0 :> Used \ {6, 7}) @@ (1 :> Used \ {0, 3}), 2),
    Boot((0 :> {1, 2, 3, 4}) @@ (1 :> Used), 2),
    Boot(0 :> Used, 1),
    [Boot(0 :> {}, 1) EXCEPT !.present = FALSE],
    [Boot(0 :> {}, 1) EXCEPT !.pageBitmapBase = 0],
    Boot(<<>>, 0) }

\* Page-aligned addresses of pages 0, 1, 6, 7, 8, 11 and 15, one address past
\* the bitmap and one that is not aligned.
MCAddresses == {p * 4096 : p \in {0, 1, 6, 7, 8, 11, 15, 16}} \cup {6 * 4096 + 8}
==============================================================================
