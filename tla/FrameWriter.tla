------------------------------ MODULE FrameWriter ------------------------------
(***************************************************************************)
(* The picture, from the loader's choice of a display mode                 *)
(* (LoaderPkg/GraphicsUtility.c, the beginning of UefiMain) to the kernel's*)
(* frame writer (kernel/graphics/DirectFrameWriter.cpp, namespace dfw),    *)
(* which draws into the frame buffer through LOADER_BOOT_INFO, and the     *)
(* debug port next to it (kernel/debug/Log.cpp).                           *)
(*                                                                         *)
(* A display is [gop, info, mode, modes, edid, setMode]: the modes are     *)
(* records, the EDID says which timing stands at which offset.  The frame  *)
(* buffer is a function from offsets to bytes.  Floats are rationals.      *)
(*                                                                         *)
(* stray is a history variable.                                            *)
(***************************************************************************)
EXTENDS Text

CONSTANTS
  Displays, U64, GLYPH, Font, Colors, Sides, Points, Sizes, Scales,
  Strings,      \* what callers print: [fmt, args]
  Values,       \* the numbers the kernel logs
  BASE, HIGHER_HALF_OFFSET,
  MaxCalls      \* bound on the calls of draw_* and print

VARIABLES
  display,      \* the hardware
  pc,           \* the next step of the loader, then of the kernel
  mode,         \* the mode the display is in, an index from 0
  boot,         \* the fields of LOADER_BOOT_INFO about the frame buffer
  g_init, g_fb_info,
  higherHalf,   \* the kernel's page tables are loaded
  memory,       \* the bytes of the frame buffer
  said,         \* the last text formatted, and what for
  calls,
  stray         \* history: the calls that wrote outside the frame buffer

loaderVars == <<mode, boot>>
kernelVars == <<g_init, g_fb_info, higherHalf, memory, said, calls, stray>>
vars == <<display, pc, loaderVars, kernelVars>>

------------------------------------------------------------------------------
(* The display, external: formats, and the bytes that make up a pixel.     *)

RGB == "PixelRedGreenBlueReserved8BitPerColor"
BGR == "PixelBlueGreenRedReserved8BitPerColor"
BITMASK == "PixelBitMask"
BLTONLY == "PixelBltOnly"

PixelBytes(format) == CASE format \in {RGB, BGR} -> 4 [] format = BITMASK -> 3 [] OTHER -> 0
Mode(m) == display.modes[m + 1]
BufferSize(m) == Mode(m).pixelsPerScanLine * Mode(m).height * PixelBytes(Mode(m).format)

\* UEFI: a scan line is no shorter than the picture is wide.
ASSUME DisplayAssumption ==
  \A d \in Displays :
    /\ Len(d.modes) \in Nat /\ d.mode \in 0..(Len(d.modes) - 1)
    /\ \A k \in 1..Len(d.modes) :
         LET m == d.modes[k] IN
         /\ m.width \in Nat /\ m.height \in Nat /\ {m.width, m.height} \subseteq Sides
         /\ m.pixelsPerScanLine \in Nat /\ m.width <= m.pixelsPerScanLine
    /\ d.edid.size \in Nat /\ DOMAIN d.edid.timings \subseteq Nat

\* What callers pass: an argument for every directive, numbers of the width of their type.
Args == [int : 0..(U32 - 1), str : Seq(STRING), nullptr : BOOLEAN]
ASSUME CallAssumption ==
  /\ {U64, GLYPH} \subseteq Nat \ {0} /\ \A c \in DOMAIN Font : Font[c] \subseteq Nat \X Nat
  /\ Colors \subseteq [red : Nat, green : Nat, blue : Nat]
  /\ Points \subseteq (0..(U64 - 1)) \X (0..(U64 - 1))
  /\ \A s \in Scales : {s.width.num, s.height.num} \subseteq Nat
                       /\ {s.width.den, s.height.den} \subseteq Nat \ {0}
  /\ \A s \in Strings : /\ s.fmt \in Seq(STRING) /\ s.args \in Seq(Args)
                        /\ Taken(s.fmt, Len(s.fmt)) <= Len(s.args)
  /\ Values \subseteq Nat
  /\ \A v \in Values : /\ Quotients(v, 10, DEC_BUF - 2)[DEC_BUF - 2] = 0
                       /\ Quotients(v, 16, HEX_DIGITS)[HEX_DIGITS] = 0

------------------------------------------------------------------------------
(* GraphicsUtility.c                                                       *)

EDID_DTD_OFFSET == 54
EDID_DTD_BLOCK_SIZE == 18
EDID_MIN_SIZE == 128

NoBoot == [frameBufferBase |-> 0, frameBufferSize |-> 0, frameBufferWidth |-> 0,
           frameBufferHeight |-> 0, pixelsPerScanLine |-> 0, bytesPerPixel |-> 0, isBGR |-> 0]

Init ==
  /\ display \in Displays
  /\ pc = "InitializeGraphics" /\ mode = display.mode /\ boot = NoBoot
  /\ g_init = FALSE /\ g_fb_info = NoBoot /\ higherHalf = FALSE
  /\ memory = <<>> /\ said = <<>> /\ calls = 0 /\ stray = {}

InitializeGraphics ==
  /\ pc = "InitializeGraphics"
  /\ pc' = IF display.gop THEN "GetNativeDisplayInfo" ELSE "halted"
  /\ UNCHANGED <<display, loaderVars, kernelVars>>

\* The offsets that hold a timing with a clock and a size, in the order of the loop.
Timings(edid) ==
  {o \in DOMAIN edid.timings :
     /\ o >= EDID_DTD_OFFSET /\ (o - EDID_DTD_OFFSET) % EDID_DTD_BLOCK_SIZE = 0
     /\ o + EDID_DTD_BLOCK_SIZE <= edid.size
     /\ edid.timings[o].clock # 0 /\ edid.timings[o].width # 0 /\ edid.timings[o].height # 0}

\* Modes that can be queried and have the size of timing t.
Matching(t) ==
  {m \in 0..(Len(display.modes) - 1) :
     Mode(m).query /\ Mode(m).width = t.width /\ Mode(m).height = t.height}

\* Faulty: the last timing wins.
Native_last(edid) ==
  IF edid.size < EDID_MIN_SIZE \/ Timings(edid) = {} THEN {}
  ELSE Matching(edid.timings[Max(Timings(edid))])

\* The modes of the first timing, none without EDID.
Native(edid) ==
  IF edid.size < EDID_MIN_SIZE \/ Timings(edid) = {} THEN {}
  ELSE Matching(edid.timings[Min(Timings(edid))])

\* GetNativeDisplayInfo, and SetDisplayMode if it found a mode.
choose_mode ==
  /\ pc = "GetNativeDisplayInfo"
  /\ IF Native(display.edid) = {} THEN pc' = "GetDisplayMode" /\ UNCHANGED mode
     ELSE LET m == Min(Native(display.edid)) IN
          IF Mode(m).set THEN pc' = "GetDisplayMode" /\ mode' = m
          ELSE pc' = "halted" /\ UNCHANGED mode
  /\ UNCHANGED <<display, boot, kernelVars>>

\* GetDisplayMode, and what UefiMain makes of it for the kernel.
GetDisplayMode ==
  /\ pc = "GetDisplayMode" /\ display.info
  /\ boot' = [frameBufferBase |-> BASE, frameBufferSize |-> BufferSize(mode),
              frameBufferWidth |-> Mode(mode).width, frameBufferHeight |-> Mode(mode).height,
              pixelsPerScanLine |-> Mode(mode).pixelsPerScanLine,
              bytesPerPixel |-> 4, isBGR |-> IF Mode(mode).format = BGR THEN 1 ELSE 0]
  /\ memory' = [o \in 0..(BufferSize(mode) - 1) |-> 0]
  /\ pc' = "init"
  /\ UNCHANGED <<display, mode, g_init, g_fb_info, higherHalf, said, calls, stray>>

GetDisplayMode_fails ==
  /\ pc = "GetDisplayMode" /\ ~display.info
  /\ pc' = "halted"
  /\ UNCHANGED <<display, loaderVars, kernelVars>>

------------------------------------------------------------------------------
(* dfw: what init of KernelMain.cpp calls, in its order                    *)

init ==
  /\ pc = "init" /\ ~g_init
  /\ g_init' = TRUE
  /\ g_fb_info' = boot
  /\ pc' = "clear"
  /\ UNCHANGED <<display, loaderVars, higherHalf, memory, said, calls, stray>>

\* Addresses of the frame buffer as the kernel's page tables have them.
Mapped == {BASE} \cup (IF higherHalf THEN {BASE + HIGHER_HALF_OFFSET} ELSE {})

\* Bytes f, by their distance from the base, are written by the call of that name.
Store(f, name) ==
  LET hits == IF g_fb_info.frameBufferBase \in Mapped THEN DOMAIN f \cap DOMAIN memory ELSE {} IN
  /\ memory' = [o \in DOMAIN memory |-> IF o \in hits THEN f[o] ELSE memory[o]]
  /\ stray' = IF DOMAIN f = hits THEN stray ELSE stray \cup {name}

clear ==
  /\ pc = "clear"
  /\ Store([o \in 0..(g_fb_info.frameBufferSize - 1) |-> 0], "clear")
  /\ pc' = "vmm"
  /\ UNCHANGED <<display, loaderVars, g_init, g_fb_info, higherHalf, said, calls>>

\* vmm::init maps the frame buffer at its address and in the higher half.
vmm_init ==
  /\ pc = "vmm"
  /\ higherHalf' = TRUE
  /\ pc' = "switchHigherHalf"
  /\ UNCHANGED <<display, loaderVars, g_init, g_fb_info, memory, said, calls, stray>>

switchHigherHalf ==
  /\ pc = "switchHigherHalf"
  /\ g_fb_info' = [g_fb_info EXCEPT !.frameBufferBase = @ + HIGHER_HALF_OFFSET]
  /\ pc' = "running"
  /\ UNCHANGED <<display, loaderVars, g_init, higherHalf, memory, said, calls, stray>>

------------------------------------------------------------------------------
(* dfw: drawing, at any time once the kernel runs                          *)

\* A call; before init it fails.
Call ==
  /\ pc \in {"init", "clear", "vmm", "switchHigherHalf", "running"} /\ calls < MaxCalls
  /\ calls' = calls + 1
  /\ UNCHANGED <<display, pc, loaderVars, g_init, g_fb_info, higherHalf>>

\* Coordinates are unsigned.
InFrame(p) ==
  p \in (0..(g_fb_info.frameBufferWidth - 1)) \X (0..(g_fb_info.frameBufferHeight - 1))

\* Faulty: lines follow each other without the rest of the scan line.
bufferIdx_no_pitch(p) == (p[2] * g_fb_info.frameBufferWidth + p[1]) * g_fb_info.bytesPerPixel

bufferIdx(p) == (p[2] * g_fb_info.pixelsPerScanLine + p[1]) * g_fb_info.bytesPerPixel

\* The four bytes of each of the pixels ps.
Bytes(ps, color) ==
  LET order == IF g_fb_info.isBGR # 0 THEN <<color.blue, color.green, color.red, 0>>
               ELSE <<color.red, color.green, color.blue, 0>>
      at == {bufferIdx(p) : p \in ps}
  IN [o \in UNION {i..(i + 3) : i \in at} |-> order[(o % 4) + 1]]

draw_pixel(point, color) ==
  /\ Call
  /\ Store(Bytes({p \in {point} : g_init /\ InFrame(p)}, color), "draw_pixel")
  /\ said' = <<>>

\* Faulty: a byte beyond the end is seen only where a pixel begins.
draw_box_checks_start(point, size, color) ==
  /\ Call
  /\ LET box == (point[1]..(point[1] + size[1] - 1)) \X (point[2]..(point[2] + size[2] - 1))
         fits(p) == bufferIdx(p) < g_fb_info.frameBufferSize
     IN Store(Bytes({p \in box : g_init /\ (\A q \in box : InFrame(q)) /\ fits(p)}, color), "draw_box")
  /\ said' = <<>>

\* All of the box must be in the frame, and of each pixel the last byte.
draw_box(point, size, color) ==
  /\ Call
  /\ LET box == (point[1]..(point[1] + size[1] - 1)) \X (point[2]..(point[2] + size[2] - 1))
         fits(p) == bufferIdx(p) + g_fb_info.bytesPerPixel - 1 < g_fb_info.frameBufferSize
     IN Store(Bytes({p \in box : g_init /\ (\A q \in box : InFrame(q)) /\ fits(p)}, color), "draw_box")
  /\ said' = <<>>

\* The pixels of a glyph: each pixel looks up the dot it belongs to.
Out(scale) == (GLYPH * scale.num) \div scale.den
Dot(n, scale) == Min({(n * scale.den) \div scale.num, GLYPH - 1})
Glyph(point, scale, c) ==
  IF c \notin DOMAIN Font THEN {}
  ELSE {<<(point[1] + d[1]) % U64, (point[2] + d[2]) % U64>> :
          d \in {e \in (0..(Out(scale.width) - 1)) \X (0..(Out(scale.height) - 1)) :
                   <<Dot(e[1], scale.width), Dot(e[2], scale.height)>> \in Font[c]}}

draw_char(point, scale, color, c) ==
  /\ Call
  /\ Store(Bytes({p \in Glyph(point, scale, c) : g_init /\ InFrame(p)}, color), "draw_char")
  /\ said' = <<>>

\* One character of draw_string_f: it is drawn, then the pen moves.
pen(point, scale, st, c) ==
  LET x == st.x + Max({1, Out(scale.width)}) IN
  [x |-> IF c = "\n" THEN point[1] ELSE x % U64,
   y |-> IF c = "\n" THEN (st.y + Max({1, Out(scale.height)})) % U64 ELSE st.y,
   pixels |-> st.pixels \cup Glyph(<<st.x, st.y>>, scale, c)]

\* Where the pen is, and what it has drawn, after each character.
Pen(point, scale, text) ==
  LET st[i \in 0..Len(text)] ==
        IF i = 0 THEN [x |-> point[1], y |-> point[2], pixels |-> {}]
        ELSE pen(point, scale, st[i - 1], text[i])
  IN st

draw_string_f(point, scale, color, s) ==
  LET buffer == get_vsf(s.fmt, s.args)
      drawn == Pen(point, scale, buffer)[Len(buffer)].pixels
  IN /\ Call
     /\ Store(Bytes({p \in drawn : g_init /\ InFrame(p)}, color), "draw_string_f")
     /\ said' = IF g_init THEN <<"vsf", s, buffer>> ELSE <<>>

\* debug::print needs nothing of all this.
log(value, hex) ==
  /\ Call
  /\ said' = <<IF hex THEN "hex" ELSE "dec", value, print(value, hex)>>
  /\ UNCHANGED <<memory, stray>>

Draw ==
  \/ \E p \in Points, c \in Colors :
       \/ draw_pixel(p, c)
       \/ \E s \in Sizes : draw_box(p, s, c)
       \/ \E s \in Scales :
            \/ \E ch \in DOMAIN Font : draw_char(p, s, c, ch)
            \/ \E t \in Strings : draw_string_f(p, s, c, t)
  \/ \E v \in Values, hex \in BOOLEAN : log(v, hex)

Stopped == pc \in {"halted", "running"} /\ UNCHANGED vars

Next ==
  \/ InitializeGraphics \/ choose_mode \/ GetDisplayMode \/ GetDisplayMode_fails
  \/ init \/ clear \/ vmm_init \/ switchHigherHalf \/ Draw \/ Stopped

Spec == Init /\ [][Next]_vars

------------------------------------------------------------------------------
(* Properties                                                              *)

\* No call writes outside the frame buffer, from the first one to those after the
\* change of address, unless the mode has pixels of other than four bytes: nobody
\* looks at that, and then only draw_box and clear stay inside, which go by the
\* size of the buffer.
WritesInFrameBuffer ==
  stray # {} => PixelBytes(Mode(mode).format) # 4 /\ stray \cap {"clear", "draw_box"} = {}

\* The mode the display is in is the first of the size the EDID prefers, if its base
\* block has a timing and a mode is that large, whatever that mode's pixels look
\* like.  Otherwise it is the mode the loader found, unless the EDID has more
\* blocks, whose bytes are read as timings, too.
ModeIsPreferred ==
  pc \notin {"InitializeGraphics", "GetNativeDisplayInfo", "halted"} =>
    LET base == {o \in Timings(display.edid) : o < EDID_MIN_SIZE - EDID_DTD_BLOCK_SIZE} IN
    IF base = {} THEN mode = display.mode \/ display.edid.size > EDID_MIN_SIZE
    ELSE LET preferred == Matching(display.edid.timings[Min(base)]) IN
         IF preferred = {} \/ display.edid.size < EDID_MIN_SIZE THEN mode = display.mode
         ELSE mode = Min(preferred)

\* What the writer and the log make of numbers and strings is what was asked for:
\* the text cut off where the buffer ends, never a number that reads as another.
TextFaithful ==
  said # <<>> =>
    CASE said[1] = "vsf" ->
           /\ said[3] = Cut(Expanded(said[2]), BUFFER - 1)
           /\ \A a \in Range(said[2].args) :
                /\ IsNumeral(utoa(a.int), a.int, 10) /\ IsNumeral(uhextoa(a.int), a.int, 16)
                /\ a.int > 0 => itoa(-a.int) = <<"-">> \o utoa(a.int)
      [] said[1] = "dec" -> IsNumeral(Front(said[3]), said[2], 10) /\ Last(said[3]) = "\n"
      [] said[1] = "hex" -> /\ IsNumeral(SubSeq(said[3], 3, Len(said[3]) - 1), said[2], 16)
                            /\ Last(said[3]) = "\n"

\* The colour a display of the format makes of a pixel's bytes.
Seen(p) ==
  LET at(k) == memory[(p[2] * Mode(mode).pixelsPerScanLine + p[1]) * 4 + k] IN
  IF Mode(mode).format = BGR THEN [red |-> at(2), green |-> at(1), blue |-> at(0)]
  ELSE [red |-> at(0), green |-> at(1), blue |-> at(2)]

Picture ==
  IF g_init /\ PixelBytes(Mode(mode).format) = 4
  THEN [p \in (0..(Mode(mode).width - 1)) \X (0..(Mode(mode).height - 1)) |-> Seen(p)]
  ELSE <<>>

\* What is to be seen on a display with four bytes per pixel is what the abstract
\* picture shows: boxes whole or not at all, text cut off at the edges, colours
\* in the display's order, whatever the pitch, and at every stage of the boot.
TheCanvas == INSTANCE Canvas WITH
  canvas <- Picture, Texts <- {get_vsf(s.fmt, s.args) : s \in Strings} \cup {<<c>> : c \in DOMAIN Font}

ImplementsCanvas == TheCanvas!Spec
==============================================================================
