----------------------------- MODULE MCFrameWriter -----------------------------
(***************************************************************************)
(* Displays of 3 by 2 pixels with a scan line of 4, and the ways in which  *)
(* the loader gets to a mode; glyphs of 2 by 2 dots.  Numbers are a byte   *)
(* wide in formats and two bytes in the log; the buffers keep the room the *)
(* code gives them: none to spare for a numeral with its sign.             *)
(***************************************************************************)
EXTENDS FrameWriter, TLC

Size(w, h, pitch, format) ==
  [width |-> w, height |-> h, pixelsPerScanLine |-> pitch, format |-> format,
   query |-> TRUE, set |-> TRUE]
Wide(format) == Size(3, 2, 4, format)
Small == Size(2, 2, 2, RGB)

Timing(w, h) == [clock |-> 1, width |-> w, height |-> h]
Edid(size, timings) == [size |-> size, timings |-> timings]
NoEdid == Edid(0, <<>>)

Display(modes, edid) ==
  [gop |-> TRUE, info |-> TRUE, mode |-> 0, modes |-> modes, edid |-> edid]

\* The preferred timing behind a monitor descriptor, which has no clock.
Second == (54 :> [Timing(1, 1) EXCEPT !.clock = 0]) @@ (72 :> Timing(3, 2)) @@ (90 :> Timing(2, 2))

MCDisplays ==
  { Display(<<Wide(RGB)>>, NoEdid),
    Display(<<Small, [Wide(RGB) EXCEPT !.query = FALSE], Wide(BGR)>>, Edid(128, Second)),
    Display(<<Small, Size(3, 2, 3, BITMASK), Wide(RGB)>>, Edid(128, Second)),
    Display(<<Wide(BLTONLY), Small>>, Edid(127, Second)),
    Display(<<Small, Wide(RGB)>>, Edid(256, 126 :> Timing(3, 2))),
    Display(<<Small>>, Edid(128, 54 :> Timing(3, 2))),
    Display(<<Small, [Wide(RGB) EXCEPT !.set = FALSE]>>, Edid(128, Second)),
    [Display(<<Small>>, NoEdid) EXCEPT !.gop = FALSE],
    [Display(<<Small>>, NoEdid) EXCEPT !.info = FALSE] }

MCFont == ("a" :> {<<0, 0>>, <<0, 1>>, <<1, 1>>}) @@ ("-" :> {<<0, 1>>, <<1, 1>>})
MCColors == {[red |-> 3, green |-> 1, blue |-> 2]}

\* The last point is one left of the picture.
MCPoints == {<<0, 0>>, <<1, 1>>, <<3, 0>>, <<15, 0>>}
MCSizes == {<<0, 1>>, <<2, 1>>, <<3, 2>>}
Scale(w, h) == [width |-> [num |-> w, den |-> 2], height |-> [num |-> h, den |-> 2]]
MCScales == {Scale(2, 2), Scale(3, 1), Scale(0, 2)}

Arg(n) == [int |-> n, str |-> <<>>, nullptr |-> FALSE]
Chars(s) == [int |-> 0, str |-> s, nullptr |-> FALSE]
F(fmt, args) == [fmt |-> fmt, args |-> args]

MCStrings ==
  { F(<<"a", "\n", "-">>, <<>>), F(<<"%", "%", "d", "%", "u", "%">>, <<Arg(201)>>),
    F(<<"%", "s", "%", "q", "a">>, <<Chars(<<"a", "-">>)>>),
    F(<<"%", "s", "%", "c">>, <<[Arg(7) EXCEPT !.nullptr = TRUE], Chars(<<"a">>)>>) }
  \cup { F(<<"%", d, "a", "%", "%", "%", "d">>, <<Arg(n), Arg(99)>>) :
           d \in {"d", "x"}, n \in {0, 128, 255} }

MCValues == {0, 16, 4095, 65535}
==============================================================================
