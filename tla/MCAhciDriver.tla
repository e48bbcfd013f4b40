----------------------------- MODULE MCAhciDriver -----------------------------
(***************************************************************************)
(* Three requests, two calls of init, memory for one or two of them and    *)
(* not quite for either.  A PRDT entry covers two sectors and a FIS counts *)
(* to four, so 0, 2, 3 and 5 sectors are none, the most that fits, one     *)
(* more than an entry and one more than a FIS counts.                      *)
(***************************************************************************)
EXTENDS AhciDriver

MCFreePages == {1..2, 1..5, 1..6}
==============================================================================
