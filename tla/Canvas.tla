-------------------------------- MODULE Canvas --------------------------------
(***************************************************************************)
(* What the frame writer promises: a picture, and calls that paint a set   *)
(* of its pixels in one colour.  There are no bytes, no pitch and no       *)
(* colour order here.  A pixel is <<x, y>>; points lie on a ring of U64    *)
(* coordinates, so that one just below 0 is just left of the picture.      *)
(***************************************************************************)
EXTENDS Integers, FiniteSetsExt

CONSTANTS
  Sides,        \* the widths and heights a picture may have
  U64,          \* 2^64
  GLYPH,        \* rows and columns of a glyph (8)
  Font,         \* characters that have a glyph -> their dots, <<column, row>>
  Colors,
  Points, Sizes, Scales, Texts     \* what callers pass

VARIABLE canvas     \* pixel -> colour

Black == [red |-> 0, green |-> 0, blue |-> 0]
NoPicture == <<>>

Paint(S, color) ==
  canvas' = [p \in DOMAIN canvas |-> IF p \in S THEN color ELSE canvas[p]]

\* The n-fold of something, n a rational: rounded down.
Times(n, scale) == (n * scale.num) \div scale.den
Stride(scale) == Max({1, Times(GLYPH, scale)})

\* The pixels of a character: each dot becomes a block as large as the scales
\* make it, cut to whole pixels.
Block(k, scale) ==
  {n \in 0..(Times(GLYPH, scale) - 1) :
     k * scale.num <= n * scale.den /\ n * scale.den < (k + 1) * scale.num}
Letter(point, scale, c) ==
  IF c \notin DOMAIN Font THEN {}
  ELSE {<<(point[1] + d[1]) % U64, (point[2] + d[2]) % U64>> :
          d \in UNION {Block(dot[1], scale.width) \X Block(dot[2], scale.height) :
                         dot \in Font[c]}}

\* The place of the i-th character: lines begin below the first one.
Newlines(text, i) == {j \in 1..(i - 1) : text[j] = "\n"}
Place(point, scale, text, i) ==
  << point[1] + Stride(scale.width) * (i - 1 - Max({0} \cup Newlines(text, i))),
     point[2] + Stride(scale.height) * Cardinality(Newlines(text, i)) >>

Init == canvas = NoPicture

Start ==
  /\ canvas = NoPicture
  /\ \E w, h \in Sides :
       canvas' \in [(0..(w - 1)) \X (0..(h - 1)) -> Colors \cup {Black}]

Clear == Paint(DOMAIN canvas, Black)
Dot(point, color) == Paint({point}, color)

\* A box is painted whole or not at all.
Box(point, size, color) ==
  LET box == (point[1]..(point[1] + size[1] - 1)) \X (point[2]..(point[2] + size[2] - 1)) IN
  box \subseteq DOMAIN canvas /\ Paint(box, color)

\* Text is cut off where the picture ends.
Write(point, scale, color, text) ==
  Paint(UNION {Letter(Place(point, scale, text, i), scale, text[i]) : i \in DOMAIN text}, color)

Next ==
  \/ Start \/ Clear
  \/ \E p \in Points, c \in Colors :
       \/ Dot(p, c)
       \/ \E s \in Sizes : Box(p, s, c)
       \/ \E s \in Scales, t \in Texts : Write(p, s, c, t)

Spec == Init /\ [][Next]_canvas
==============================================================================
