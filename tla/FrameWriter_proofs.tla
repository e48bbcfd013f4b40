-------------------------- MODULE FrameWriter_proofs --------------------------
(***************************************************************************)
(* Proofs about FrameWriter, for every display, picture, font and          *)
(* sequence of calls: the loader chooses the mode the EDID prefers, no     *)
(* call writes outside the frame buffer, text and numbers come out as they *)
(* were asked for, and the writer implements Canvas.                       *)
(***************************************************************************)
EXTENDS FrameWriter, FiniteSetTheorems, SequenceTheorems, WellFoundedInduction, TLAPS

------------------------------------------------------------------------------
(* The choice of a mode.                                                   *)

LEMMA MinIsLeast ==
  ASSUME NEW S \in SUBSET Nat, S # {}
  PROVE  Min(S) \in S /\ \A y \in S : Min(S) <= y
<1>1. PICK x \in S : \A y \in S : <<y, x>> \notin OpToRel(<, Nat)
  BY NatLessThanWellFounded, WFMin
<1>2. \A y \in S : x <= y
  <2>1. ASSUME NEW y \in S, y < x PROVE FALSE
    <3>1. <<y, x>> \in OpToRel(<, Nat)
      BY <2>1 DEF OpToRel
    <3> QED BY <1>1, <3>1
  <2> QED BY <2>1
<1> QED
  BY <1>2 DEF Min

\* The kernel runs once the mode is read.
Chosen == pc \notin {"InitializeGraphics", "GetNativeDisplayInfo", "halted"}

ModeInv ==
  /\ display \in Displays
  /\ mode \in 0..(Len(display.modes) - 1)
  /\ pc \in {"InitializeGraphics", "GetNativeDisplayInfo"} => mode = display.mode
  /\ Chosen => mode = IF Native(display.edid) = {} THEN display.mode
                      ELSE Min(Native(display.edid))

LEMMA NativeModes ==
  ASSUME display \in Displays, NEW e, Native(e) # {}
  PROVE  Min(Native(e)) \in 0..(Len(display.modes) - 1)
<1> DEFINE S == Native(e)
<1>1. S \subseteq 0..(Len(display.modes) - 1)
  BY DEF Native, Matching
<1>2. S \in SUBSET Nat
  BY <1>1, DisplayAssumption
<1>3. Min(S) \in S
  BY <1>2, MinIsLeast
<1> QED
  BY <1>1, <1>3

\* A base block of 128 bytes has four timings; the last ends at its byte 126.
LEMMA BaseBlock ==
  ASSUME display \in Displays
  PROVE  LET e == display.edid
             base == {o \in Timings(e) : o < EDID_MIN_SIZE - EDID_DTD_BLOCK_SIZE}
         IN /\ base = {} /\ e.size <= EDID_MIN_SIZE => Timings(e) = {}
            /\ base # {} => Timings(e) # {} /\ Min(Timings(e)) = Min(base)
<1> DEFINE e == display.edid
           T == Timings(e)
           base == {o \in T : o < EDID_MIN_SIZE - EDID_DTD_BLOCK_SIZE}
<1>1. T \in SUBSET Nat /\ e.size \in Nat
  BY DisplayAssumption DEF Timings
<1>2. EDID_MIN_SIZE - EDID_DTD_BLOCK_SIZE = 110
  BY DEF EDID_MIN_SIZE, EDID_DTD_BLOCK_SIZE
<1>3. ASSUME e.size <= EDID_MIN_SIZE, NEW o \in T PROVE o \in base
  <2>1. o \in Nat /\ (o - 54) % 18 = 0 /\ o + 18 <= e.size
    BY <1>1 DEF Timings, EDID_DTD_OFFSET, EDID_DTD_BLOCK_SIZE
  <2>2. o <= 110
    BY <1>1, <1>3, <2>1 DEF EDID_MIN_SIZE
  <2>3. o # 110
    BY <2>1
  <2> QED BY <1>2, <2>1, <2>2, <2>3
<1>4. ASSUME base # {} PROVE T # {} /\ Min(T) = Min(base)
  <2>1. Min(T) \in T /\ \A y \in T : Min(T) <= y
    BY <1>1, <1>4, MinIsLeast
  <2>2. base \in SUBSET Nat
    BY <1>1
  <2>3. Min(base) \in base /\ \A y \in base : Min(base) <= y
    BY <1>4, <2>2, MinIsLeast
  <2> DEFINE a == Min(T)
             b == Min(base)
  <2>4. a \in T /\ b \in T /\ a \in Nat /\ b \in Nat /\ a <= b /\ b < 110
    BY <1>1, <1>2, <2>1, <2>3
  <2> HIDE DEF a, b
  <2>5. a \in base
    BY <1>2, <2>4
  <2>6. b <= a
    BY <2>3, <2>5 DEF b
  <2> QED BY <1>4, <2>4, <2>6 DEF a, b
<1> QED
  BY <1>3, <1>4

LEMMA ModePreferred == ModeInv => ModeIsPreferred
<1> SUFFICES ASSUME ModeInv, Chosen
             PROVE  LET base == {o \in Timings(display.edid) :
                                   o < EDID_MIN_SIZE - EDID_DTD_BLOCK_SIZE}
                    IN IF base = {} THEN mode = display.mode \/ display.edid.size > EDID_MIN_SIZE
                       ELSE LET preferred == Matching(display.edid.timings[Min(base)]) IN
                            IF preferred = {} \/ display.edid.size < EDID_MIN_SIZE
                            THEN mode = display.mode
                            ELSE mode = Min(preferred)
  BY DEF ModeIsPreferred, Chosen
<1> DEFINE e == display.edid
           base == {o \in Timings(e) : o < EDID_MIN_SIZE - EDID_DTD_BLOCK_SIZE}
<1>1. /\ base = {} /\ e.size <= EDID_MIN_SIZE => Timings(e) = {}
      /\ base # {} => Timings(e) # {} /\ Min(Timings(e)) = Min(base)
  BY BaseBlock DEF ModeInv
<1>2. e.size \in Nat /\ EDID_MIN_SIZE = 128
  BY DisplayAssumption DEF ModeInv, EDID_MIN_SIZE
<1>3. mode = IF Native(e) = {} THEN display.mode ELSE Min(Native(e))
  BY DEF ModeInv
<1>4. Native(e) = IF e.size < EDID_MIN_SIZE \/ Timings(e) = {} THEN {}
                  ELSE Matching(e.timings[Min(Timings(e))])
  BY DEF Native
<1> HIDE DEF e, base
<1>5. CASE base = {}
  BY <1>1, <1>2, <1>3, <1>4, <1>5 DEF e, base
<1>6. CASE base # {}
  BY <1>1, <1>3, <1>4, <1>6 DEF e, base
<1> QED
  BY <1>5, <1>6 DEF e, base
------------------------------------------------------------------------------
(* The frame buffer.                                                       *)

\* What the kernel is told of the mode, and which address it writes at when.
FrameInv ==
  /\ Chosen /\ pc # "GetDisplayMode" =>
       /\ boot.frameBufferBase = BASE /\ boot.frameBufferSize = BufferSize(mode)
       /\ boot.frameBufferWidth = Mode(mode).width
       /\ boot.frameBufferHeight = Mode(mode).height
       /\ boot.pixelsPerScanLine = Mode(mode).pixelsPerScanLine
       /\ boot.bytesPerPixel = 4 /\ boot.isBGR = (IF Mode(mode).format = BGR THEN 1 ELSE 0)
       /\ DOMAIN memory = 0..(BufferSize(mode) - 1)
       /\ ~g_init => \A o \in DOMAIN memory : memory[o] = 0
  /\ g_init =>
       /\ pc \in {"clear", "vmm", "switchHigherHalf", "running"}
       /\ DOMAIN g_fb_info = DOMAIN boot
       /\ \A x \in DOMAIN boot : x # "frameBufferBase" => g_fb_info[x] = boot[x]
       /\ g_fb_info.frameBufferBase \in Mapped
       /\ pc # "running" => g_fb_info.frameBufferBase = BASE
       /\ pc = "switchHigherHalf" => higherHalf
  /\ DOMAIN boot = DOMAIN NoBoot
  /\ pc \in {"clear", "vmm", "switchHigherHalf", "running"} => g_init
  /\ pc \in {"InitializeGraphics", "GetNativeDisplayInfo", "GetDisplayMode", "init"} => stray = {}
  /\ WritesInFrameBuffer

IInv == ModeInv /\ FrameInv

\* The mode the display is in.
LEMMA ModeFits ==
  ASSUME ModeInv
  PROVE  /\ Mode(mode).width \in Nat /\ Mode(mode).height \in Nat
         /\ Mode(mode).pixelsPerScanLine \in Nat
         /\ Mode(mode).width <= Mode(mode).pixelsPerScanLine
         /\ PixelBytes(Mode(mode).format) \in {0, 3, 4} /\ BufferSize(mode) \in Nat
<1>1. Len(display.modes) \in Nat /\ mode + 1 \in 1..Len(display.modes)
  BY DisplayAssumption DEF ModeInv
<1> DEFINE m == Mode(mode)
<1>2. m = display.modes[mode + 1]
  BY DEF Mode
<1> HIDE DEF m
<1>3. /\ m.width \in Nat /\ m.height \in Nat /\ m.pixelsPerScanLine \in Nat
      /\ m.width <= m.pixelsPerScanLine
  BY <1>1, <1>2, DisplayAssumption DEF ModeInv
<1>4. PixelBytes(m.format) \in {0, 3, 4}
  BY DEF PixelBytes
<1>5. BufferSize(mode) \in Nat
  <2>1. ASSUME NEW a \in Nat, NEW b \in Nat, NEW c \in {0, 3, 4} PROVE a * b * c \in Nat
    OBVIOUS
  <2> QED BY <1>3, <1>4, <2>1 DEF BufferSize, m
<1> QED
  BY <1>3, <1>4, <1>5 DEF m

\* A pixel of the frame has its bytes in a frame buffer of four-byte pixels.
LEMMA PixelFits ==
  ASSUME NEW w \in Nat, NEW h \in Nat, NEW l \in Nat, w <= l,
         NEW x \in 0..(w - 1), NEW y \in 0..(h - 1)
  PROVE  (y * l + x) * 4 \in Nat /\ (y * l + x) * 4 + 3 <= l * h * 4 - 1
<1>1. y * l + x <= l * h - 1 /\ y * l + x \in Nat
  <2>1. l * y \in Nat /\ l * h \in Nat /\ l * (y + 1) \in Nat /\ y * l = l * y
    OBVIOUS
  <2>2. l * (y + 1) <= l * h
    OBVIOUS
  <2>3. l * (y + 1) = l * y + l
    OBVIOUS
  <2> QED BY <2>1, <2>2, <2>3
<1> DEFINE a == y * l + x
           b == l * h
<1>2. a \in Nat /\ b \in Nat /\ a <= b - 1
  BY <1>1
<1> HIDE DEF a, b
<1> QED
  BY <1>2 DEF a, b

\* What is written in one place stays in the frame buffer if its offsets do.
LEMMA StoreInside ==
  ASSUME NEW f, NEW name, Store(f, name), g_fb_info.frameBufferBase \in Mapped,
         DOMAIN f \subseteq DOMAIN memory
  PROVE  stray' = stray /\ DOMAIN memory' = DOMAIN memory
<1>1. DOMAIN f \cap DOMAIN memory = DOMAIN f
  OBVIOUS
<1> QED
  BY <1>1 DEF Store

LEMMA StoreNothing ==
  ASSUME NEW f, NEW name, Store(f, name), DOMAIN f = {}
  PROVE  stray' = stray /\ \A o \in DOMAIN memory : memory'[o] = memory[o]
BY DEF Store

LEMMA StoreKeeps ==
  ASSUME NEW f, NEW name, Store(f, name)
  PROVE  DOMAIN memory' = DOMAIN memory /\ stray' \subseteq stray \cup {name}
BY DEF Store

LEMMA BytesOfNothing ==
  ASSUME NEW ps, NEW color, ps = {} PROVE DOMAIN Bytes(ps, color) = {}
BY DEF Bytes

LEMMA BytesWithin ==
  ASSUME NEW ps, NEW color, NEW D, \A p \in ps : bufferIdx(p)..(bufferIdx(p) + 3) \subseteq D
  PROVE  DOMAIN Bytes(ps, color) \subseteq D
<1>1. DOMAIN Bytes(ps, color) = UNION {i..(i + 3) : i \in {bufferIdx(p) : p \in ps}}
  BY DEF Bytes
<1>2. \A i \in {bufferIdx(p) : p \in ps} : i..(i + 3) \subseteq D
  OBVIOUS
<1> QED
  BY <1>1, <1>2

\* What a call of draw_* may do to the frame buffer.
Drawing(name) ==
  /\ UNCHANGED <<display, pc, loaderVars, g_init, g_fb_info, higherHalf>>
  /\ DOMAIN memory' = DOMAIN memory 
  /\ ~g_init => \A o \in DOMAIN memory : memory'[o] = memory[o]
  /\ stray' = stray \/ ( /\ stray' \subseteq stray \cup {name} /\ g_init
                         /\ PixelBytes(Mode(mode).format) # 4 /\ name # "draw_box" )

\* The fields the kernel works with.
LEMMA KernelFields ==
  ASSUME FrameInv, g_init
  PROVE  /\ g_fb_info.frameBufferSize = BufferSize(mode)
         /\ g_fb_info.frameBufferWidth = Mode(mode).width
         /\ g_fb_info.frameBufferHeight = Mode(mode).height
         /\ g_fb_info.pixelsPerScanLine = Mode(mode).pixelsPerScanLine
         /\ g_fb_info.bytesPerPixel = 4
         /\ g_fb_info.isBGR = (IF Mode(mode).format = BGR THEN 1 ELSE 0)
         /\ g_fb_info.frameBufferBase \in Mapped
         /\ DOMAIN memory = 0..(BufferSize(mode) - 1)
<1>1. Chosen /\ pc # "GetDisplayMode"
  BY DEF FrameInv, Chosen
<1>2. DOMAIN boot = DOMAIN NoBoot
  BY DEF FrameInv
<1>3. \A x \in DOMAIN NoBoot : x # "frameBufferBase" => g_fb_info[x] = boot[x]
  BY <1>2 DEF FrameInv
<1>4. /\ g_fb_info.frameBufferSize = boot.frameBufferSize
      /\ g_fb_info.frameBufferWidth = boot.frameBufferWidth
      /\ g_fb_info.frameBufferHeight = boot.frameBufferHeight
      /\ g_fb_info.pixelsPerScanLine = boot.pixelsPerScanLine
      /\ g_fb_info.bytesPerPixel = boot.bytesPerPixel /\ g_fb_info.isBGR = boot.isBGR
  BY <1>3 DEF NoBoot
<1> QED
  BY <1>1, <1>4 DEF FrameInv

\* Pixels of the frame, drawn by a call that checks nothing else.
LEMMA PixelsDrawn ==
  ASSUME ModeInv, FrameInv, NEW ps, NEW color, NEW name,
         UNCHANGED <<display, pc, loaderVars, g_init, g_fb_info, higherHalf>>,
         Store(Bytes({p \in ps : g_init /\ InFrame(p)}, color), name), name # "draw_box"
  PROVE  Drawing(name)
<1> DEFINE S == {p \in ps : g_init /\ InFrame(p)}
<1>1. DOMAIN memory' = DOMAIN memory /\ stray' \subseteq stray \cup {name}
  BY StoreKeeps
<1>2. CASE ~g_init
  <2>1. S = {}
    BY <1>2
  <2>2. DOMAIN Bytes(S, color) = {}
    BY <2>1, BytesOfNothing
  <2> HIDE DEF S
  <2>3. Store(Bytes(S, color), name)
    BY DEF S
  <2>4. stray' = stray /\ \A o \in DOMAIN memory : memory'[o] = memory[o]
    BY <2>2, <2>3, StoreNothing
  <2> QED BY <1>1, <2>4 DEF Drawing
<1>3. CASE g_init /\ PixelBytes(Mode(mode).format) # 4
  BY <1>1, <1>3 DEF Drawing
<1>4. CASE g_init /\ PixelBytes(Mode(mode).format) = 4
  <2> DEFINE w == Mode(mode).width
             h == Mode(mode).height
             l == Mode(mode).pixelsPerScanLine
  <2>1. w \in Nat /\ h \in Nat /\ l \in Nat /\ w <= l
    BY ModeFits
  <2>2. BufferSize(mode) = l * h * 4
    BY <1>4 DEF BufferSize
  <2>3. /\ g_fb_info.frameBufferWidth = w /\ g_fb_info.frameBufferHeight = h
        /\ g_fb_info.pixelsPerScanLine = l /\ g_fb_info.bytesPerPixel = 4
        /\ g_fb_info.frameBufferBase \in Mapped
        /\ DOMAIN memory = 0..(l * h * 4 - 1)
    BY <1>4, <2>2, KernelFields
  <2> HIDE DEF w, h, l
  <2>4. ASSUME NEW p \in S PROVE bufferIdx(p)..(bufferIdx(p) + 3) \subseteq DOMAIN memory
    <3>1. p[1] \in 0..(w - 1) /\ p[2] \in 0..(h - 1)
      BY <2>3, <2>4 DEF InFrame
    <3>2. bufferIdx(p) = (p[2] * l + p[1]) * 4
      BY <2>3 DEF bufferIdx
    <3> DEFINE i == bufferIdx(p)
               z == l * h * 4
    <3>3. i \in Nat /\ i + 3 <= z - 1
      BY <2>1, <3>1, <3>2, PixelFits
    <3>4. z \in Int /\ DOMAIN memory = 0..(z - 1)
      BY <2>1, <2>3
    <3> HIDE DEF i, z
    <3>5. i..(i + 3) \subseteq 0..(z - 1)
      BY <3>3, <3>4
    <3> QED BY <3>4, <3>5 DEF i
  <2>6. Store(Bytes(S, color), name)
    OBVIOUS
  <2> HIDE DEF S
  <2>5. DOMAIN Bytes(S, color) \subseteq DOMAIN memory
    BY <2>4, BytesWithin
  <2>7. stray' = stray
    BY <2>3, <2>5, <2>6, StoreInside
  <2> QED BY <1>1, <1>4, <2>7 DEF Drawing
<1> QED
  BY <1>2, <1>3, <1>4

LEMMA BoxDrawn ==
  ASSUME ModeInv, FrameInv, NEW point, NEW size, NEW color, draw_box(point, size, color)
  PROVE  Drawing("draw_box")
<1> DEFINE box == (point[1]..(point[1] + size[1] - 1)) \X (point[2]..(point[2] + size[2] - 1))
           fits(p) == bufferIdx(p) + g_fb_info.bytesPerPixel - 1 < g_fb_info.frameBufferSize
           S == {p \in box : g_init /\ (\A q \in box : InFrame(q)) /\ fits(p)}
<1>1. /\ UNCHANGED <<display, pc, loaderVars, g_init, g_fb_info, higherHalf>>
      /\ Store(Bytes(S, color), "draw_box")
  BY DEF draw_box, Call
<1> HIDE DEF box
<1>2. DOMAIN memory' = DOMAIN memory
  BY <1>1, StoreKeeps
<1>3. CASE S = {}
  <2>1. DOMAIN Bytes(S, color) = {}
    BY <1>3, BytesOfNothing
  <2> HIDE DEF S
  <2>2. stray' = stray /\ \A o \in DOMAIN memory : memory'[o] = memory[o]
    BY <1>1, <2>1, StoreNothing
  <2> QED BY <1>1, <1>2, <2>2 DEF Drawing
<1>4. CASE S # {}
  <2>1. g_init
    BY <1>4
  <2>2. /\ g_fb_info.frameBufferSize = BufferSize(mode)
        /\ g_fb_info.frameBufferWidth = Mode(mode).width
        /\ g_fb_info.frameBufferHeight = Mode(mode).height
        /\ g_fb_info.pixelsPerScanLine = Mode(mode).pixelsPerScanLine
        /\ g_fb_info.bytesPerPixel = 4 /\ g_fb_info.frameBufferBase \in Mapped
        /\ DOMAIN memory = 0..(BufferSize(mode) - 1)
    BY <2>1, KernelFields
  <2>3. ASSUME NEW p \in S PROVE bufferIdx(p)..(bufferIdx(p) + 3) \subseteq DOMAIN memory
    <3> DEFINE i == bufferIdx(p)
               z == BufferSize(mode)
    <3>1. i = (p[2] * Mode(mode).pixelsPerScanLine + p[1]) * 4
      BY <2>2 DEF bufferIdx
    <3>2. p[1] \in 0..(Mode(mode).width - 1) /\ p[2] \in 0..(Mode(mode).height - 1)
      BY <2>2, <2>3 DEF InFrame
    <3>3. Mode(mode).pixelsPerScanLine \in Nat /\ z \in Nat /\ p[1] \in Nat /\ p[2] \in Nat
      BY <3>2, ModeFits
    <3>4. i \in Nat
      BY <3>1, <3>3
    <3>5. i + 4 - 1 < z
      BY <2>2, <2>3
    <3> HIDE DEF i, z
    <3>6. i..(i + 3) \subseteq 0..(z - 1)
      BY <3>3, <3>4, <3>5
    <3> QED BY <2>2, <3>6 DEF i, z
  <2> HIDE DEF S
  <2>4. DOMAIN Bytes(S, color) \subseteq DOMAIN memory
    BY <2>3, BytesWithin
  <2>5. stray' = stray
    BY <1>1, <2>2, <2>4, StoreInside
  <2> QED BY <1>1, <1>2, <2>1, <2>5 DEF Drawing
<1> QED
  BY <1>3, <1>4

\* Whatever is drawn, and whatever is logged.
LEMMA EveryDrawing ==
  ASSUME ModeInv, FrameInv, Draw
  PROVE  \E name : Drawing(name) /\ name # "clear"
<1>1. ASSUME NEW p, NEW c, draw_pixel(p, c) PROVE Drawing("draw_pixel")
  BY <1>1, PixelsDrawn DEF draw_pixel, Call
<1>2. ASSUME NEW p, NEW s, NEW c, draw_box(p, s, c) PROVE Drawing("draw_box")
  BY <1>2, BoxDrawn
<1>3. ASSUME NEW p, NEW s, NEW c, NEW ch, draw_char(p, s, c, ch) PROVE Drawing("draw_char")
  BY <1>3, PixelsDrawn DEF draw_char, Call
<1>4. ASSUME NEW p, NEW s, NEW c, NEW t, draw_string_f(p, s, c, t) PROVE Drawing("draw_string_f")
  BY <1>4, PixelsDrawn DEF draw_string_f, Call
<1>5. ASSUME NEW v, NEW hex, log(v, hex) PROVE Drawing("log")
  BY <1>5 DEF log, Call, Drawing
<1> QED
  BY <1>1, <1>2, <1>3, <1>4, <1>5 DEF Draw

------------------------------------------------------------------------------
(* Theorems.                                                               *)

LEMMA InitInv == Init => IInv
<1> SUFFICES ASSUME Init PROVE IInv
  OBVIOUS
<1>1. ModeInv
  BY DisplayAssumption DEF Init, ModeInv, Chosen
<1>2. FrameInv
  BY DEF Init, FrameInv, Chosen, WritesInFrameBuffer
<1> QED
  BY <1>1, <1>2 DEF IInv

LEMMA ModeStep == ModeInv /\ [Next]_vars => ModeInv'
<1> SUFFICES ASSUME ModeInv, [Next]_vars PROVE ModeInv'
  OBVIOUS
<1>1. ASSUME UNCHANGED <<display, mode>>,
             pc' \in {"InitializeGraphics", "GetNativeDisplayInfo"} =>
               pc \in {"InitializeGraphics", "GetNativeDisplayInfo"},
             Chosen' => Chosen
      PROVE  ModeInv'
  <2>1. Native(display.edid)' = Native(display.edid)
    BY <1>1 DEF Native, Timings, Matching, Mode
  <2> QED BY <1>1, <2>1 DEF ModeInv
<1>2. CASE choose_mode
  <2>1. pc = "GetNativeDisplayInfo" /\ mode = display.mode /\ display' = display
    BY <1>2 DEF choose_mode, ModeInv
  <2>2. /\ pc' \in {"GetDisplayMode", "halted"}
        /\ mode' \in 0..(Len(display.modes) - 1)
        /\ pc' = "GetDisplayMode" =>
             mode' = IF Native(display.edid) = {} THEN display.mode ELSE Min(Native(display.edid))
    BY <1>2, <2>1, NativeModes DEF choose_mode, ModeInv
  <2>3. Native(display.edid)' = Native(display.edid)
    BY <2>1 DEF Native, Timings, Matching, Mode
  <2> QED BY <2>1, <2>2, <2>3 DEF ModeInv, Chosen
<1>3. CASE InitializeGraphics \/ GetDisplayMode \/ GetDisplayMode_fails \/ init \/ clear
           \/ vmm_init \/ switchHigherHalf
  BY <1>1, <1>3 DEF InitializeGraphics, GetDisplayMode, GetDisplayMode_fails, init, clear,
                    vmm_init, switchHigherHalf, loaderVars, Chosen
<1>4. CASE Draw
  <2>1. UNCHANGED <<display, pc, mode>>
    BY <1>4 DEF Draw, draw_pixel, draw_box, draw_char, draw_string_f, log, Call, loaderVars
  <2> QED BY <1>1, <2>1 DEF Chosen
<1>5. CASE Stopped \/ UNCHANGED vars
  BY <1>1, <1>5 DEF Stopped, vars, loaderVars, Chosen
<1> QED
  BY <1>2, <1>3, <1>4, <1>5 DEF Next

LEMMA FrameStep == ModeInv /\ FrameInv /\ [Next]_vars => FrameInv'
<1> SUFFICES ASSUME ModeInv, FrameInv, [Next]_vars PROVE FrameInv'
  OBVIOUS
<1> USE DEF FrameInv, Chosen
<1>1. ASSUME UNCHANGED <<display, pc, mode, boot, g_init, g_fb_info, higherHalf, stray>>,
             DOMAIN memory' = DOMAIN memory,
             ~g_init => \A o \in DOMAIN memory : memory'[o] = memory[o]
      PROVE  FrameInv'
  <2>1. ~g_init => \A o \in DOMAIN memory' : memory'[o] = memory[o]
    BY <1>1
  <2>2. /\ BufferSize(mode)' = BufferSize(mode) /\ Mode(mode)' = Mode(mode)
        /\ Mapped' = Mapped /\ WritesInFrameBuffer'
    BY <1>1 DEF BufferSize, Mode, Mapped, WritesInFrameBuffer
  <2> QED BY <1>1, <2>1, <2>2
<1>2. CASE InitializeGraphics \/ GetDisplayMode_fails
  BY <1>2 DEF InitializeGraphics, GetDisplayMode_fails, loaderVars, kernelVars,
              WritesInFrameBuffer, Mapped, BufferSize, Mode
<1>3. CASE choose_mode
  BY <1>3 DEF choose_mode, kernelVars, WritesInFrameBuffer
<1>4. CASE GetDisplayMode
  <2>1. /\ pc = "GetDisplayMode" /\ pc' = "init" /\ stray = {} /\ ~g_init
        /\ UNCHANGED <<display, mode, g_init, stray>>
    BY <1>4 DEF GetDisplayMode
  <2>2. /\ boot'.frameBufferBase = BASE /\ boot'.frameBufferSize = BufferSize(mode)
        /\ boot'.frameBufferWidth = Mode(mode).width
        /\ boot'.frameBufferHeight = Mode(mode).height
        /\ boot'.pixelsPerScanLine = Mode(mode).pixelsPerScanLine
        /\ boot'.bytesPerPixel = 4 /\ DOMAIN boot' = DOMAIN NoBoot
        /\ boot'.isBGR = (IF Mode(mode).format = BGR THEN 1 ELSE 0)
        /\ DOMAIN memory' = 0..(BufferSize(mode) - 1)
        /\ \A o \in DOMAIN memory' : memory'[o] = 0
    BY <1>4 DEF GetDisplayMode, NoBoot
  <2>3. BufferSize(mode)' = BufferSize(mode) /\ Mode(mode)' = Mode(mode)
    BY <2>1 DEF BufferSize, Mode
  <2> QED BY <2>1, <2>2, <2>3 DEF WritesInFrameBuffer
<1>5. CASE init
  <2>1. /\ pc = "init" /\ pc' = "clear" /\ g_init' /\ g_fb_info' = boot
        /\ UNCHANGED <<display, mode, boot, higherHalf, memory, stray>>
    BY <1>5 DEF init, loaderVars
  <2>2. BufferSize(mode)' = BufferSize(mode) /\ Mode(mode)' = Mode(mode)
    BY <2>1 DEF BufferSize, Mode
  <2>3. boot.frameBufferBase = BASE /\ BASE \in Mapped'
    BY <2>1 DEF Mapped
  <2> QED BY <2>1, <2>2, <2>3 DEF WritesInFrameBuffer
<1>6. CASE clear
  <2>1. /\ pc = "clear" /\ pc' = "vmm" /\ g_init
        /\ UNCHANGED <<display, mode, boot, g_init, g_fb_info, higherHalf>>
        /\ Store([o \in 0..(g_fb_info.frameBufferSize - 1) |-> 0], "clear")
    BY <1>6 DEF clear, loaderVars
  <2> DEFINE f == [o \in 0..(g_fb_info.frameBufferSize - 1) |-> 0]
  <2>2. DOMAIN f \subseteq DOMAIN memory /\ g_fb_info.frameBufferBase \in Mapped
    BY <2>1, KernelFields
  <2>3. Store(f, "clear")
    BY <2>1
  <2> HIDE DEF f
  <2>4. stray' = stray /\ DOMAIN memory' = DOMAIN memory
    BY <2>2, <2>3, StoreInside
  <2>5. BufferSize(mode)' = BufferSize(mode) /\ Mode(mode)' = Mode(mode) /\ Mapped' = Mapped
    BY <2>1 DEF BufferSize, Mode, Mapped
  <2> QED BY <2>1, <2>4, <2>5 DEF WritesInFrameBuffer
<1>7. CASE vmm_init
  <2>1. /\ pc = "vmm" /\ pc' = "switchHigherHalf" /\ higherHalf'
        /\ UNCHANGED <<display, mode, boot, g_init, g_fb_info, memory, stray>>
    BY <1>7 DEF vmm_init, loaderVars
  <2>2. BufferSize(mode)' = BufferSize(mode) /\ Mode(mode)' = Mode(mode) /\ Mapped \subseteq Mapped'
    BY <2>1 DEF BufferSize, Mode, Mapped
  <2> QED BY <2>1, <2>2 DEF WritesInFrameBuffer
<1>8. CASE switchHigherHalf
  <2> DEFINE base == BASE + HIGHER_HALF_OFFSET
  <2>1. /\ pc = "switchHigherHalf" /\ pc' = "running" /\ higherHalf /\ g_init
        /\ g_fb_info.frameBufferBase = BASE
        /\ g_fb_info' = [g_fb_info EXCEPT !.frameBufferBase = @ + HIGHER_HALF_OFFSET]
        /\ DOMAIN g_fb_info = DOMAIN boot /\ DOMAIN boot = DOMAIN NoBoot
        /\ UNCHANGED <<display, mode, boot, g_init, higherHalf, memory, stray>>
    BY <1>8 DEF switchHigherHalf, loaderVars
  <2>2. BufferSize(mode)' = BufferSize(mode) /\ Mode(mode)' = Mode(mode) /\ base \in Mapped'
    BY <2>1 DEF BufferSize, Mode, Mapped
  <2>3. g_fb_info' = [g_fb_info EXCEPT !.frameBufferBase = base]
    BY <2>1
  <2> HIDE DEF base
  <2>4. /\ DOMAIN g_fb_info' = DOMAIN g_fb_info /\ g_fb_info'.frameBufferBase = base
        /\ \A x \in DOMAIN boot : x # "frameBufferBase" => g_fb_info'[x] = g_fb_info[x]
    BY <2>1, <2>3 DEF NoBoot
  <2> QED BY <2>1, <2>2, <2>4 DEF WritesInFrameBuffer
<1>9. CASE Draw
  <2>1. PICK name : Drawing(name) /\ name # "clear"
    BY <1>9, EveryDrawing
  <2>2. /\ UNCHANGED <<display, pc, mode, boot, g_init, g_fb_info, higherHalf>>
        /\ DOMAIN memory' = DOMAIN memory
        /\ ~g_init => \A o \in DOMAIN memory : memory'[o] = memory[o]
    BY <2>1 DEF Drawing, loaderVars
  <2>3. CASE stray' = stray
    BY <1>1, <2>2, <2>3
  <2>4. CASE stray' # stray
    <3>1. /\ stray' \subseteq stray \cup {name} /\ g_init
          /\ PixelBytes(Mode(mode).format) # 4 /\ name \notin {"clear", "draw_box"}
      BY <2>1, <2>4 DEF Drawing
    <3>2. stray \cap {"clear", "draw_box"} = {}
      BY DEF WritesInFrameBuffer
    <3>3. WritesInFrameBuffer'
      BY <2>2, <3>1, <3>2 DEF WritesInFrameBuffer, Mode
    <3>4. /\ BufferSize(mode)' = BufferSize(mode) /\ Mode(mode)' = Mode(mode)
          /\ Mapped' = Mapped
      BY <2>2 DEF BufferSize, Mode, Mapped
    <3> QED BY <2>2, <3>1, <3>3, <3>4
  <2> QED BY <2>3, <2>4
<1>10. CASE Stopped \/ UNCHANGED vars
  BY <1>1, <1>10 DEF Stopped, vars, loaderVars, kernelVars
<1> QED
  BY <1>2, <1>3, <1>4, <1>5, <1>6, <1>7, <1>8, <1>9, <1>10 DEF Next

LEMMA Inductive == Spec => []IInv
<1>1. IInv /\ [Next]_vars => IInv'
  BY ModeStep, FrameStep DEF IInv
<1> QED
  BY InitInv, <1>1, PTL DEF Spec

\* The loop over the EDID's timings and the one over the modes (GraphicsUtility.c:42-75) find
\* the first mode of the preferred size, on every display: four descriptors fit in a base
\* block, so only an extension block can put another timing in their place.
THEOREM PreferredMode == Spec => []ModeIsPreferred
<1>1. IInv => ModeIsPreferred
  BY ModePreferred DEF IInv
<1> QED
  BY <1>1, Inductive, PTL

\* Whatever is drawn, wherever, and while the frame buffer changes its address
\* (DirectFrameWriter.cpp:34), draw_* and clear write to the frame buffer only; in a mode of
\* three-byte pixels draw_box and clear still do, for they go by its size.
THEOREM NothingAstray == Spec => []WritesInFrameBuffer
<1>1. IInv => WritesInFrameBuffer
  BY DEF IInv, FrameInv
<1> QED
  BY <1>1, Inductive, PTL

------------------------------------------------------------------------------
(* The picture.                                                            *)

Frame == (0..(Mode(mode).width - 1)) \X (0..(Mode(mode).height - 1))
FourBytes == g_init /\ PixelBytes(Mode(mode).format) = 4

\* No two pixels of the frame share a byte.
LEMMA SameIndex ==
  ASSUME NEW l \in Nat, NEW x \in 0..(l - 1), NEW u \in 0..(l - 1), NEW y \in Nat, NEW v \in Nat,
         NEW k \in 0..3, NEW n \in 0..3, (y * l + x) * 4 + k = (v * l + u) * 4 + n
  PROVE  x = u /\ y = v /\ k = n
<1>1. y * l \in Nat /\ v * l \in Nat
  OBVIOUS
<1>2. ASSUME NEW a \in Nat, NEW b \in Nat, a < b PROVE a * l + l <= b * l
  <2>1. (a + 1) * l <= b * l
    BY <1>2
  <2>2. (a + 1) * l = a * l + l
    OBVIOUS
  <2> QED BY <2>1, <2>2
<1>3. y < v => y * l + l <= v * l
  BY <1>2
<1>4. v < y => v * l + l <= y * l
  BY <1>2
<1> DEFINE a == y * l
           b == v * l
<1>5. a \in Nat /\ b \in Nat /\ (y < v => a + l <= b) /\ (v < y => b + l <= a) /\ (y = v => a = b)
      /\ (a + x) * 4 + k = (b + u) * 4 + n
  BY <1>1, <1>3, <1>4
<1> HIDE DEF a, b
<1>6. a + x = b + u /\ k = n
  BY <1>5
<1>7. ~(y < v) /\ ~(v < y)
  BY <1>5, <1>6
<1> QED
  BY <1>5, <1>6, <1>7

\* A pixel's bytes are overwritten with those of the colour or left as they are.
LEMMA PaintBytes ==
  ASSUME ModeInv, FrameInv, FourBytes, NEW S \in SUBSET Frame, NEW color, NEW name,
         Store(Bytes(S, color), name), NEW p \in Frame, NEW k \in 0..2
  PROVE  LET o == (p[2] * Mode(mode).pixelsPerScanLine + p[1]) * 4 + k
             order == IF Mode(mode).format = BGR
                      THEN <<color.blue, color.green, color.red, 0>>
                      ELSE <<color.red, color.green, color.blue, 0>>
         IN memory'[o] = IF p \in S THEN order[k + 1] ELSE memory[o]
<1> DEFINE w == Mode(mode).width
           h == Mode(mode).height
           l == Mode(mode).pixelsPerScanLine
           o == (p[2] * l + p[1]) * 4 + k
           order == IF Mode(mode).format = BGR THEN <<color.blue, color.green, color.red, 0>>
                    ELSE <<color.red, color.green, color.blue, 0>>
           f == Bytes(S, color)
<1>1. w \in Nat /\ h \in Nat /\ l \in Nat /\ w <= l
  BY ModeFits
<1>2. /\ g_fb_info.pixelsPerScanLine = l /\ g_fb_info.bytesPerPixel = 4
      /\ g_fb_info.frameBufferBase \in Mapped
      /\ DOMAIN memory = 0..(l * h * 4 - 1)
      /\ g_fb_info.isBGR = (IF Mode(mode).format = BGR THEN 1 ELSE 0)
  BY KernelFields DEF FourBytes, BufferSize
<1>3. p[1] \in 0..(w - 1) /\ p[2] \in 0..(h - 1)
  BY DEF Frame
<1>4. \A q \in S : q = <<q[1], q[2]>> /\ q[1] \in 0..(w - 1) /\ q[2] \in 0..(h - 1)
  BY DEF Frame
<1>5. p = <<p[1], p[2]>>
  BY DEF Frame
<1>6. \A q : bufferIdx(q) = (q[2] * l + q[1]) * 4
  BY <1>2 DEF bufferIdx
<1>7. order = IF g_fb_info.isBGR # 0 THEN <<color.blue, color.green, color.red, 0>>
              ELSE <<color.red, color.green, color.blue, 0>>
  BY <1>2
<1>8. f = [i \in UNION {j..(j + 3) : j \in {bufferIdx(q) : q \in S}} |-> order[(i % 4) + 1]]
  BY <1>7 DEF Bytes
<1> HIDE DEF w, h, l
<1>9. o \in DOMAIN memory /\ o % 4 = k /\ o \in Nat
  <2> DEFINE i == p[2] * l + p[1]
             z == l * h * 4
  <2>1. i * 4 \in Nat /\ i * 4 + 3 <= z - 1
    BY <1>1, <1>3, PixelFits
  <2>2. z \in Int /\ i \in Int
    BY <1>1, <1>3
  <2>3. o = i * 4 + k /\ DOMAIN memory = 0..(z - 1)
    BY <1>2
  <2> HIDE DEF i, z, o
  <2> QED BY <2>1, <2>2, <2>3
<1>10. o \in DOMAIN f <=> p \in S
  <2>1. ASSUME p \in S PROVE o \in DOMAIN f
    <3> DEFINE j == bufferIdx(p)
    <3>1. j = (p[2] * l + p[1]) * 4 /\ j \in Int
      BY <1>1, <1>3, <1>6
    <3>2. o \in j..(j + 3)
      <4>1. o = j + k
        BY <3>1
      <4>2. j \in Int /\ k \in 0..2
        BY <3>1
      <4> HIDE DEF j, o
      <4> QED BY <4>1, <4>2
    <3> HIDE DEF o
    <3> QED BY <1>8, <2>1, <3>2
  <2>2. ASSUME o \in DOMAIN f PROVE p \in S
    <3>1. PICK q \in S : o \in bufferIdx(q)..(bufferIdx(q) + 3)
      BY <1>8, <2>2
    <3> DEFINE b == (q[2] * l + q[1]) * 4
               n == o - b
    <3>2. q[1] \in 0..(w - 1) /\ q[2] \in 0..(h - 1) /\ q = <<q[1], q[2]>> /\ bufferIdx(q) = b
      BY <1>4, <1>6
    <3>3. b \in Int
      BY <1>1, <3>2
    <3>4. n \in 0..3 /\ o = b + n
      <4> HIDE DEF o, b
      <4> QED BY <1>9, <3>1, <3>2, <3>3
    <3> HIDE DEF n
    <3>5. /\ q[1] \in 0..(l - 1) /\ p[1] \in 0..(l - 1) /\ q[2] \in Nat /\ p[2] \in Nat
          /\ k \in 0..3
      BY <1>1, <1>3, <3>2
    <3>6. (p[2] * l + p[1]) * 4 + k = (q[2] * l + q[1]) * 4 + n
      BY <3>4
    <3>7. p[1] = q[1] /\ p[2] = q[2]
      <4> DEFINE x == p[1]
                 y == p[2]
                 u == q[1]
                 v == q[2]
      <4>1. /\ l \in Nat /\ x \in 0..(l - 1) /\ u \in 0..(l - 1) /\ y \in Nat /\ v \in Nat
            /\ k \in 0..3 /\ n \in 0..3 /\ (y * l + x) * 4 + k = (v * l + u) * 4 + n
        BY <1>1, <3>4, <3>5, <3>6
      <4> HIDE DEF x, y, u, v
      <4>2. x = u /\ y = v
        BY <4>1, SameIndex
      <4> QED BY <4>2 DEF x, y, u, v
    <3> QED BY <1>5, <3>2, <3>7
  <2> QED BY <2>1, <2>2
<1>11. o \in DOMAIN f => f[o] = order[k + 1]
  <2> HIDE DEF o, order
  <2> QED BY <1>8, <1>9
<1>12. memory'[o] = IF o \in DOMAIN f THEN f[o] ELSE memory[o]
  <2>1. Store(f, name)
    OBVIOUS
  <2> HIDE DEF o, f
  <2> QED BY <1>2, <1>9, <2>1 DEF Store
<1> HIDE DEF f
<1>13. memory'[o] = IF p \in S THEN order[k + 1] ELSE memory[o]
  BY <1>10, <1>11, <1>12
<1> QED
  BY <1>13 DEF l

LEMMA PictureIs == FourBytes => Picture = [p \in Frame |-> Seen(p)]
BY DEF FourBytes, Picture, Frame

\* What is stored for some pixels of the frame paints them.
LEMMA Painted ==
  ASSUME ModeInv, FrameInv, FourBytes, UNCHANGED <<display, mode, g_init>>,
         NEW S \in SUBSET Frame, NEW color \in Colors, NEW name, Store(Bytes(S, color), name)
  PROVE  Picture' = [p \in DOMAIN Picture |-> IF p \in S THEN color ELSE Picture[p]]
<1>1. FourBytes' /\ Frame' = Frame /\ Mode(mode)' = Mode(mode)
  BY DEF FourBytes, Frame, Mode
<1>2. Picture = [p \in Frame |-> Seen(p)] /\ Picture' = [p \in Frame |-> Seen(p)']
  BY <1>1, PictureIs DEF Picture, FourBytes, Frame
<1>3. color = [red |-> color.red, green |-> color.green, blue |-> color.blue]
  BY CallAssumption
<1>4. ASSUME NEW p \in Frame PROVE Seen(p)' = IF p \in S THEN color ELSE Seen(p)
  <2> DEFINE o(k) == (p[2] * Mode(mode).pixelsPerScanLine + p[1]) * 4 + k
             order == IF Mode(mode).format = BGR
                      THEN <<color.blue, color.green, color.red, 0>>
                      ELSE <<color.red, color.green, color.blue, 0>>
  <2>1. \A k \in 0..2 : memory'[o(k)] = IF p \in S THEN order[k + 1] ELSE memory[o(k)]
    BY PaintBytes
  <2>2. Seen(p) = IF Mode(mode).format = BGR
                  THEN [red |-> memory[o(2)], green |-> memory[o(1)], blue |-> memory[o(0)]]
                  ELSE [red |-> memory[o(0)], green |-> memory[o(1)], blue |-> memory[o(2)]]
    BY DEF Seen
  <2>3. Seen(p)' = IF Mode(mode).format = BGR
                   THEN [red |-> memory'[o(2)], green |-> memory'[o(1)], blue |-> memory'[o(0)]]
                   ELSE [red |-> memory'[o(0)], green |-> memory'[o(1)], blue |-> memory'[o(2)]]
    BY <1>1 DEF Seen
  <2> HIDE DEF o
  <2>4. /\ memory'[o(0)] = IF p \in S THEN order[1] ELSE memory[o(0)]
        /\ memory'[o(1)] = IF p \in S THEN order[2] ELSE memory[o(1)]
        /\ memory'[o(2)] = IF p \in S THEN order[3] ELSE memory[o(2)]
    BY <2>1
  <2> QED BY <1>3, <2>2, <2>3, <2>4
<1> QED
  BY <1>2, <1>4

\* Canvas has the library's operators under its own names.
LEMMA CardSame == \A S : TheCanvas!Cardinality(S) = Cardinality(S)
BY DEF TheCanvas!Cardinality, Cardinality

LEMMA MaxSame == \A S : TheCanvas!Max(S) = Max(S)
BY DEF TheCanvas!Max, Max

\* A dot scaled up is cut where the next one begins; the last one is held in the glyph.
LEMMA Dots ==
  ASSUME NEW num \in Nat, NEW den \in Nat \ {0}, NEW k \in Nat, NEW n \in Nat,
         n < (GLYPH * num) \div den
  PROVE  /\ Min({(n * den) \div num, GLYPH - 1}) \in Nat
         /\ Min({(n * den) \div num, GLYPH - 1}) = k <=> (k * num <= n * den /\ n * den < (k + 1) * num)
<1> DEFINE g == GLYPH * num
           out == g \div den
           a == n * den
           q == a \div num
<1>1. GLYPH \in Nat \ {0}
  BY CallAssumption
<1>2. g \in Nat /\ a \in Nat
  BY <1>1
<1>3. out * den <= g /\ out \in Nat
  <2> HIDE DEF g
  <2> QED BY <1>2
<1>4. a < g
  <2>1. (n + 1) * den <= out * den
    <3> HIDE DEF out
    <3>1. n + 1 <= out /\ out \in Nat
      BY <1>3 DEF out
    <3> QED BY <3>1
  <2>2. (n + 1) * den = a + den /\ out * den \in Nat
    BY <1>3
  <2> HIDE DEF g, a, out
  <2> QED BY <1>2, <1>3, <2>1, <2>2
<1>5. num > 0
  <2>1. num = 0 => g = 0
    BY <1>1
  <2> HIDE DEF g, a
  <2> QED BY <1>2, <1>4, <2>1
<1>6. q \in Nat /\ q * num <= a /\ a < q * num + num
  <2> HIDE DEF a
  <2> QED BY <1>2, <1>5
<1>7. q <= GLYPH - 1
  <2> HIDE DEF a, q
  <2>1. CASE q >= GLYPH
    <3>1. q * num >= GLYPH * num
      BY <1>1, <1>5, <1>6, <2>1
    <3> HIDE DEF g
    <3>2. q * num >= g /\ q * num \in Nat
      BY <1>6, <3>1 DEF g
    <3> QED BY <1>2, <1>4, <1>6, <3>2
  <2> QED BY <1>1, <1>6, <2>1
<1>8. Min({q, GLYPH - 1}) = q
  <2> HIDE DEF q
  <2>1. {q, GLYPH - 1} \in SUBSET Nat /\ {q, GLYPH - 1} # {}
    BY <1>1, <1>6
  <2> DEFINE m == Min({q, GLYPH - 1})
  <2>2. m \in {q, GLYPH - 1} /\ \A y \in {q, GLYPH - 1} : m <= y
    BY <2>1, MinIsLeast
  <2> HIDE DEF m
  <2>3. m = q
    BY <1>1, <1>6, <1>7, <2>2
  <2> QED BY <2>3 DEF m
<1>9. ASSUME k < q PROVE ~(a < (k + 1) * num)
  <2> HIDE DEF a, q
  <2>1. (k + 1) * num <= q * num /\ (k + 1) * num \in Nat /\ q * num \in Nat
    BY <1>6, <1>9
  <2> QED BY <1>2, <1>6, <2>1
<1>10. ASSUME k > q PROVE ~(k * num <= a)
  <2> HIDE DEF a, q
  <2>1. (q + 1) * num <= k * num /\ (q + 1) * num = q * num + num /\ k * num \in Nat /\ q * num \in Nat
    BY <1>6, <1>10
  <2> QED BY <1>2, <1>6, <2>1
<1>11. k = q => k * num <= a /\ a < (k + 1) * num
  <2> HIDE DEF a, q
  <2>1. (q + 1) * num = q * num + num
    BY <1>6
  <2> QED BY <1>6, <2>1
<1> HIDE DEF a, q
<1> QED
  BY <1>6, <1>8, <1>9, <1>10, <1>11 DEF a, q

\* Each dot becomes its block: looking every pixel's dot up gives the same pixels.
LEMMA LetterGlyph ==
  ASSUME NEW point, NEW scale \in Scales, NEW c
  PROVE  TheCanvas!Letter(point, scale, c) = Glyph(point, scale, c)
<1> SUFFICES ASSUME c \in DOMAIN Font PROVE TheCanvas!Letter(point, scale, c) = Glyph(point, scale, c)
  BY DEF TheCanvas!Letter, Glyph
<1> DEFINE W == Out(scale.width)
           H == Out(scale.height)
           E == {e \in (0..(W - 1)) \X (0..(H - 1)) :
                   <<Dot(e[1], scale.width), Dot(e[2], scale.height)>> \in Font[c]}
           B == UNION {TheCanvas!Block(dot[1], scale.width) \X TheCanvas!Block(dot[2], scale.height) :
                         dot \in Font[c]}
<1>1. /\ scale.width.num \in Nat /\ scale.width.den \in Nat \ {0}
      /\ scale.height.num \in Nat /\ scale.height.den \in Nat \ {0}
      /\ Font[c] \subseteq Nat \X Nat
  BY CallAssumption
<1>2. W \in Nat /\ H \in Nat
  <2>1. ASSUME NEW n \in Nat, NEW d \in Nat \ {0} PROVE (GLYPH * n) \div d \in Nat
    <3>1. GLYPH * n \in Nat
      BY CallAssumption
    <3> QED BY <3>1
  <2> QED BY <1>1, <2>1 DEF Out
<1>3. ASSUME NEW k \in Nat, NEW z \in {scale.width, scale.height}, NEW n \in 0..(Out(z) - 1)
      PROVE  n \in TheCanvas!Block(k, z) <=> Dot(n, z) = k
  <2>1. z.num \in Nat /\ z.den \in Nat \ {0} /\ n \in Nat /\ n < (GLYPH * z.num) \div z.den
    BY <1>1, <1>2, <1>3 DEF Out
  <2>2. Dot(n, z) = k <=> k * z.num <= n * z.den /\ n * z.den < (k + 1) * z.num
    BY <2>1, Dots DEF Dot
  <2> QED BY <2>2, <1>3 DEF TheCanvas!Block, TheCanvas!Times, Out
<1>4. ASSUME NEW k, NEW z PROVE TheCanvas!Block(k, z) \subseteq 0..(Out(z) - 1)
  BY DEF TheCanvas!Block, TheCanvas!Times, Out
<1> HIDE DEF W, H
<1>5. E \subseteq B
  <2>1. ASSUME NEW e \in E PROVE e \in B
    <3> DEFINE dot == <<Dot(e[1], scale.width), Dot(e[2], scale.height)>>
    <3>1. e = <<e[1], e[2]>> /\ e[1] \in 0..(W - 1) /\ e[2] \in 0..(H - 1) /\ dot \in Font[c]
      BY <2>1
    <3>2. dot[1] \in Nat /\ dot[2] \in Nat
      BY <1>1, <3>1
    <3>3. e[1] \in TheCanvas!Block(dot[1], scale.width) /\ e[2] \in TheCanvas!Block(dot[2], scale.height)
      BY <1>3, <3>1, <3>2 DEF W, H
    <3> HIDE DEF dot
    <3>4. e \in TheCanvas!Block(dot[1], scale.width) \X TheCanvas!Block(dot[2], scale.height)
      BY <3>1, <3>3
    <3> QED BY <3>1, <3>4
  <2> QED BY <2>1
<1>6. B \subseteq E
  <2>1. ASSUME NEW dot \in Font[c],
               NEW e \in TheCanvas!Block(dot[1], scale.width) \X TheCanvas!Block(dot[2], scale.height)
        PROVE  e \in E
    <3>1. /\ dot[1] \in Nat /\ dot[2] \in Nat /\ dot = <<dot[1], dot[2]>> /\ e = <<e[1], e[2]>>
          /\ e[1] \in TheCanvas!Block(dot[1], scale.width)
          /\ e[2] \in TheCanvas!Block(dot[2], scale.height)
      BY <1>1, <2>1
    <3>2. e[1] \in 0..(W - 1) /\ e[2] \in 0..(H - 1)
      BY <1>4, <3>1 DEF W, H
    <3>3. Dot(e[1], scale.width) = dot[1] /\ Dot(e[2], scale.height) = dot[2]
      BY <1>3, <3>1, <3>2 DEF W, H
    <3> QED BY <3>1, <3>2, <3>3
  <2> QED BY <2>1
<1>7. /\ TheCanvas!Letter(point, scale, c) = {<<(point[1] + d[1]) % U64, (point[2] + d[2]) % U64>> : d \in B}
      /\ Glyph(point, scale, c) = {<<(point[1] + d[1]) % U64, (point[2] + d[2]) % U64>> : d \in E}
  BY DEF TheCanvas!Letter, Glyph, W, H
<1> HIDE DEF B, E
<1> QED
  BY <1>5, <1>6, <1>7

------------------------------------------------------------------------------
(* Counting up to a bound.                                                 *)

\* What holds at 0 and from each number to the next holds up to n.
LEMMA Upto ==
  ASSUME NEW n \in Nat, NEW S, 0 \in S, \A k \in 0..(n - 1) : k \in S => k + 1 \in S
  PROVE  \A k \in 0..n : k \in S
<1> DEFINE T == {k \in 0..n : k \notin S}
<1> SUFFICES ASSUME T # {} PROVE FALSE
  OBVIOUS
<1>1. T \in SUBSET Nat
  OBVIOUS
<1>2. Min(T) \in T /\ \A y \in T : Min(T) <= y
  BY <1>1, MinIsLeast
<1> DEFINE m == Min(T)
<1>3. m \in T /\ \A y \in T : m <= y
  BY <1>2
<1> HIDE DEF m
<1>4. m \in 0..n /\ m \notin S /\ m # 0
  BY <1>3
<1>5. m - 1 \in 0..(n - 1) /\ m - 1 \in S
  BY <1>3, <1>4
<1>6. (m - 1) + 1 \in S
  BY <1>5
<1> QED
  BY <1>4, <1>6

\* A finite set of numbers has a greatest one.
LEMMA MaxIsMost ==
  ASSUME NEW n \in Nat, NEW S \in SUBSET (0..n), S # {}
  PROVE  Max(S) \in S /\ \A y \in S : y <= Max(S)
<1> DEFINE T == {n - x : x \in S}
<1>1. T \in SUBSET Nat /\ T # {}
  <2>1. \A x \in S : n - x \in Nat
    OBVIOUS
  <2>2. PICK x \in S : TRUE
    OBVIOUS
  <2>3. n - x \in T
    OBVIOUS
  <2> QED BY <2>1, <2>3
<1>2. Min(T) \in T /\ \A y \in T : Min(T) <= y
  BY <1>1, MinIsLeast
<1>3. PICK x \in S : Min(T) = n - x
  BY <1>2
<1>4. \A y \in S : y <= x
  <2>1. ASSUME NEW y \in S PROVE y <= x
    <3>1. n - y \in T
      OBVIOUS
    <3>2. n - x <= n - y
      BY <1>2, <1>3, <3>1
    <3> QED BY <3>2
  <2> QED BY <2>1
<1> QED
  BY <1>4 DEF Max

\* A sum may be reduced before it is taken modulo n.
LEMMA ModAdd ==
  ASSUME NEW x \in Nat, NEW d \in Nat, NEW u \in Nat \ {0}
  PROVE  ((x % u) + d) % u = (x + d) % u
<1> DEFINE q == x \div u
           r == x % u
           k == (r + d) \div u
           s == (r + d) % u
<1>1. q \in Nat /\ r \in 0..(u - 1) /\ x = q * u + r
  OBVIOUS
<1> HIDE DEF q, r
<1>2. k \in Nat /\ s \in 0..(u - 1) /\ r + d = k * u + s
  BY <1>1
<1> HIDE DEF k, s
<1>3. x + d = (q + k) * u + s /\ q + k \in Nat
  BY <1>1, <1>2
<1>4. ASSUME NEW m \in Nat PROVE (m * u + s) % u = s
  BY <1>2
<1>5. (x + d) % u = s
  BY <1>3, <1>4
<1> QED
  BY <1>5 DEF r, s

------------------------------------------------------------------------------
(* The pen.                                                                *)

\* The pen after each character.
LEMMA PenIs ==
  ASSUME NEW point, NEW scale, NEW text, Len(text) \in Nat
  PROVE  LET st == Pen(point, scale, text) IN
         st = [i \in 0..Len(text) |-> IF i = 0 THEN [x |-> point[1], y |-> point[2], pixels |-> {}]
                                      ELSE pen(point, scale, st[i - 1], text[i])]
<1> DEFINE n == Len(text)
           b == [x |-> point[1], y |-> point[2], pixels |-> {}]
           F(g, k) == g = [i \in 0..k |-> IF i = 0 THEN b ELSE pen(point, scale, g[i - 1], text[i])]
           S == {k \in 0..n : \E g : F(g, k)}
<1> HIDE DEF b
<1>1. 0 \in S
  <2> DEFINE g == [i \in 0..0 |-> b]
  <2>1. F(g, 0)
    OBVIOUS
  <2> HIDE DEF F, g
  <2> QED BY <2>1
<1>2. ASSUME NEW k \in 0..(n - 1), k \in S PROVE k + 1 \in S
  <2>1. PICK g : F(g, k)
    BY <1>2
  <2> DEFINE h == [i \in 0..(k + 1) |-> IF i = k + 1 THEN pen(point, scale, g[k], text[k + 1]) ELSE g[i]]
  <2>2. F(h, k + 1)
    <3>1. ASSUME NEW i \in 0..k
          PROVE  g[i] = IF i = 0 THEN b ELSE pen(point, scale, g[i - 1], text[i])
      BY <2>1
    <3> QED BY <3>1
  <2> HIDE DEF F, h
  <2> QED BY <2>2
<1>3. \E g : F(g, n)
  <2> HIDE DEF F
  <2>1. n \in Nat /\ n \in 0..n
    OBVIOUS
  <2> HIDE DEF S, n
  <2>2. n \in S
    BY <1>1, <1>2, <2>1, Upto
  <2> QED BY <2>2 DEF S
<1>4. Pen(point, scale, text) = CHOOSE g : F(g, n)
  BY DEF Pen, b
<1> HIDE DEF F
<1>5. F(Pen(point, scale, text), n)
  BY <1>3, <1>4
<1> QED
  BY <1>5 DEF F, b

\* Coordinates wrap: a glyph is the same wherever its corner was taken modulo U64.
LEMMA GlyphWraps ==
  ASSUME NEW x \in Nat, NEW y \in Nat, NEW scale, NEW c
  PROVE  Glyph(<<x % U64, y % U64>>, scale, c) = Glyph(<<x, y>>, scale, c)
<1>1. U64 \in Nat \ {0}
  BY CallAssumption
<1>2. ASSUME NEW e \in Nat \X Nat
      PROVE  /\ ((x % U64) + e[1]) % U64 = (x + e[1]) % U64
             /\ ((y % U64) + e[2]) % U64 = (y + e[2]) % U64
  BY <1>1, <1>2, ModAdd
<1> DEFINE D == {e \in (0..(Out(scale.width) - 1)) \X (0..(Out(scale.height) - 1)) :
                   <<Dot(e[1], scale.width), Dot(e[2], scale.height)>> \in Font[c]}
<1>3. D \subseteq Nat \X Nat
  OBVIOUS
<1>5. ASSUME NEW a, NEW b
      PROVE  Glyph(<<a, b>>, scale, c) =
               IF c \notin DOMAIN Font THEN {}
               ELSE {<<(a + d[1]) % U64, (b + d[2]) % U64>> : d \in D}
  BY DEF Glyph
<1> HIDE DEF D
<1>4. {<<((x % U64) + d[1]) % U64, ((y % U64) + d[2]) % U64>> : d \in D}
        = {<<(x + d[1]) % U64, (y + d[2]) % U64>> : d \in D}
  BY <1>2, <1>3
<1> QED
  BY <1>4, <1>5

\* The pen is at the place of the next character: it paints what the picture's Write paints.
LEMMA WriteAs ==
  ASSUME NEW point \in Points, NEW scale \in Scales, NEW text, Len(text) \in Nat,
         DOMAIN text = 1..Len(text)
  PROVE  Pen(point, scale, text)[Len(text)].pixels =
           UNION {TheCanvas!Letter(TheCanvas!Place(point, scale, text, i), scale, text[i]) :
                    i \in DOMAIN text}
<1> DEFINE n == Len(text)
           st == Pen(point, scale, text)
           at(i) == TheCanvas!Place(point, scale, text, i)
           a == Max({1, Out(scale.width)})
           b == Max({1, Out(scale.height)})
           NL(i) == {j \in 1..(i - 1) : text[j] = "\n"}
           M(i) == Max({0} \cup NL(i))
           Drawn(i) == UNION {TheCanvas!Letter(at(j), scale, text[j]) : j \in 1..i}
           S == {i \in 0..n : /\ at(i + 1)[1] \in Nat /\ at(i + 1)[2] \in Nat
                              /\ st[i].x = at(i + 1)[1] % U64 /\ st[i].y = at(i + 1)[2] % U64
                              /\ st[i].pixels = Drawn(i)}
<1>1. /\ U64 \in Nat \ {0} /\ point[1] \in 0..(U64 - 1) /\ point[2] \in 0..(U64 - 1)
      /\ n \in Nat
  BY CallAssumption
<1>2. a \in Nat /\ b \in Nat
  <2>1. ASSUME NEW z \in {scale.width, scale.height} PROVE Max({1, Out(z)}) \in Nat
    <3>1. z.num \in Nat /\ z.den \in Nat \ {0} /\ GLYPH * z.num \in Nat
      BY CallAssumption
    <3> DEFINE o == Out(z)
    <3>2. o \in Nat
      BY <3>1 DEF Out
    <3> HIDE DEF o
    <3>3. {1, o} \in SUBSET (0..(o + 1)) /\ o + 1 \in Nat
      BY <3>2
    <3>4. Max({1, o}) \in {1, o}
      BY <3>3, MaxIsMost
    <3> QED BY <3>2, <3>4 DEF o
  <2> QED BY <2>1
<1>3. \A i : at(i) = <<point[1] + a * (i - 1 - M(i)), point[2] + b * Cardinality(NL(i))>>
  BY CardSame, MaxSame DEF TheCanvas!Place, TheCanvas!Newlines, TheCanvas!Stride, TheCanvas!Times, Out
<1>4. /\ st[0] = [x |-> point[1], y |-> point[2], pixels |-> {}]
      /\ \A i \in 1..n : st[i] = pen(point, scale, st[i - 1], text[i])
  <2>1. st = [i \in 0..n |-> IF i = 0 THEN [x |-> point[1], y |-> point[2], pixels |-> {}]
                             ELSE pen(point, scale, st[i - 1], text[i])]
    BY <1>1, PenIs
  <2> DEFINE f == [x |-> point[1], y |-> point[2], pixels |-> {}]
  <2> HIDE DEF st, n, f
  <2>2. st = [i \in 0..n |-> IF i = 0 THEN f ELSE pen(point, scale, st[i - 1], text[i])]
    BY <2>1 DEF f
  <2>3. ASSUME NEW i \in 0..n PROVE st[i] = IF i = 0 THEN f ELSE pen(point, scale, st[i - 1], text[i])
    BY <2>2
  <2>4. 0 \in 0..n /\ \A i \in 1..n : i \in 0..n /\ i # 0
    BY <1>1
  <2> QED BY <2>3, <2>4 DEF f
<1>5. ASSUME NEW i \in 1..(n + 1)
      PROVE  /\ M(i) \in 0..(i - 1) /\ \A j \in NL(i) : j <= M(i)
             /\ IsFiniteSet(NL(i)) /\ Cardinality(NL(i)) \in Nat
  <2>1. {0} \cup NL(i) \in SUBSET (0..(i - 1)) /\ i - 1 \in Nat
    BY <1>1
  <2>2. M(i) \in {0} \cup NL(i) /\ \A j \in {0} \cup NL(i) : j <= M(i)
    <3> HIDE DEF NL
    <3> QED BY <2>1, MaxIsMost
  <2>3. IsFiniteSet(NL(i)) /\ Cardinality(NL(i)) \in Nat
    <3>1. IsFiniteSet(1..(i - 1))
      BY <1>1, FS_Interval
    <3>2. NL(i) \subseteq 1..(i - 1)
      OBVIOUS
    <3> HIDE DEF NL
    <3> QED BY <3>1, <3>2, FS_Subset, FS_CardinalityType
  <2> QED BY <2>1, <2>2, <2>3
<1>6. ASSUME NEW i \in 1..n, text[i] = "\n"
      PROVE  M(i + 1) = i /\ Cardinality(NL(i + 1)) = Cardinality(NL(i)) + 1
  <2>1. NL(i + 1) = NL(i) \cup {i} /\ i \notin NL(i)
    BY <1>1, <1>6
  <2>2. M(i + 1) \in 0..i /\ \A j \in NL(i + 1) : j <= M(i + 1)
    <3>1. i + 1 \in 1..(n + 1) /\ i + 1 - 1 = i
      BY <1>1
    <3> DEFINE k == i + 1
    <3>2. M(k) \in 0..(k - 1) /\ \A j \in NL(k) : j <= M(k)
      <4> HIDE DEF M, NL, k
      <4>1. k \in 1..(n + 1)
        BY <3>1 DEF k
      <4> QED BY <1>5, <4>1
    <3> QED BY <3>1, <3>2
  <2>3. i + 1 \in 1..(n + 1) /\ i \in 1..(n + 1)
    BY <1>1
  <2>4. IsFiniteSet(NL(i))
    BY <1>5, <2>3
  <2> HIDE DEF NL, M
  <2>5. i <= M(i + 1)
    BY <2>1, <2>2
  <2>6. M(i + 1) = i
    BY <1>1, <2>2, <2>5
  <2>7. Cardinality(NL(i + 1)) = Cardinality(NL(i)) + 1
    BY <2>1, <2>4, FS_AddElement
  <2> QED BY <2>6, <2>7
<1>7. ASSUME NEW i \in 1..n, text[i] # "\n"
      PROVE  M(i + 1) = M(i) /\ NL(i + 1) = NL(i)
  <2>1. NL(i + 1) = NL(i)
    BY <1>1, <1>7
  <2> QED BY <2>1
<1>8. 0 \in S
  <2>1. M(1) = 0 /\ Cardinality(NL(1)) = 0
    <3>1. M(1) \in 0..0
      <4>1. 1 \in 1..(n + 1) /\ 1 - 1 = 0
        BY <1>1
      <4>2. M(1) \in 0..(1 - 1)
        <5> HIDE DEF M, NL
        <5> QED BY <1>5, <4>1
      <4> QED BY <4>1, <4>2
    <3>2. NL(1) = {}
      OBVIOUS
    <3> QED BY <3>1, <3>2, FS_EmptySet
  <2>2. at(1)[1] = point[1] + a * (1 - 1 - M(1)) /\ at(1)[2] = point[2] + b * Cardinality(NL(1))
    <3> HIDE DEF a, b, M, NL, at
    <3> QED BY <1>3
  <2>3. at(1)[1] = point[1] /\ at(1)[2] = point[2]
    <3> HIDE DEF a, b, M, NL, at
    <3> QED BY <1>1, <1>2, <2>1, <2>2
  <2>4. \A x \in 0..(U64 - 1) : x % U64 = x
    BY <1>1
  <2>5. Drawn(0) = {}
    OBVIOUS
  <2>6. 0 \in 0..n /\ 0 + 1 = 1
    BY <1>1
  <2> HIDE DEF at, st, Drawn
  <2>7. /\ at(0 + 1)[1] \in Nat /\ at(0 + 1)[2] \in Nat
        /\ st[0].x = at(0 + 1)[1] % U64 /\ st[0].y = at(0 + 1)[2] % U64
    <3>1. at(0 + 1) = at(1)
      BY <2>6
    <3>2. st[0].x = point[1] /\ st[0].y = point[2]
      BY <1>4
    <3>3. point[1] % U64 = point[1] /\ point[2] % U64 = point[2]
      BY <1>1, <2>4
    <3>4. point[1] \in Nat /\ point[2] \in Nat
      BY <1>1
    <3> QED BY <2>3, <3>1, <3>2, <3>3, <3>4
  <2>8. st[0].pixels = Drawn(0)
    BY <1>4, <2>5
  <2> QED BY <2>6, <2>7, <2>8
<1>9. ASSUME NEW k \in 0..(n - 1), k \in S PROVE k + 1 \in S
  <2> DEFINE i == k + 1
             c == text[i]
  <2>1. i \in 1..n /\ i \in Nat /\ i - 1 = k /\ i + 1 \in 1..(n + 1) /\ i \in 1..(n + 1)
    BY <1>1
  <2>2. st[i] = pen(point, scale, st[k], c)
    BY <1>4, <2>1
  <2>3. /\ at(i)[1] \in Nat /\ at(i)[2] \in Nat
        /\ st[k].x = at(i)[1] % U64 /\ st[k].y = at(i)[2] % U64
        /\ st[k].pixels = Drawn(k)
    BY <1>9
  <2> HIDE DEF i
  <2>4. st[i].pixels = Drawn(i)
    <3>1. st[i].pixels = st[k].pixels \cup Glyph(<<st[k].x, st[k].y>>, scale, c)
      BY <2>2 DEF pen
    <3>2. Glyph(<<st[k].x, st[k].y>>, scale, c) = Glyph(<<at(i)[1], at(i)[2]>>, scale, c)
      <4> HIDE DEF at, st, c
      <4> QED BY <2>3, GlyphWraps
    <3>3. at(i) = <<at(i)[1], at(i)[2]>>
      <4> HIDE DEF a, b, M, NL, at
      <4> QED BY <1>3
    <3>4. Glyph(at(i), scale, c) = TheCanvas!Letter(at(i), scale, c)
      BY LetterGlyph
    <3>5. Drawn(i) = Drawn(k) \cup TheCanvas!Letter(at(i), scale, c)
      <4>1. 1..i = (1..k) \cup {i}
        BY <1>1, <2>1
      <4> HIDE DEF at
      <4> QED BY <4>1
    <3> HIDE DEF at, Drawn, st
    <3> QED BY <2>3, <3>1, <3>2, <3>3, <3>4, <3>5
  <2>5. /\ at(i + 1)[1] = point[1] + a * (i - M(i + 1))
        /\ at(i + 1)[2] = point[2] + b * Cardinality(NL(i + 1))
        /\ at(i)[1] = point[1] + a * (i - 1 - M(i))
        /\ at(i)[2] = point[2] + b * Cardinality(NL(i))
    <3>1. i + 1 - 1 = i
      BY <2>1
    <3> HIDE DEF a, b, M, NL, at
    <3> DEFINE p(z) == point[1] + (a * (z - 1 - M(z)))
               q(z) == point[2] + (b * Cardinality(NL(z)))
    <3>2. \A z : at(z) = <<p(z), q(z)>>
      BY <1>3
    <3> HIDE DEF p, q
    <3>3. \A z : at(z)[1] = p(z) /\ at(z)[2] = q(z)
      BY <3>2
    <3>4. p(i + 1) = point[1] + a * (i - M(i + 1))
      <4> DEFINE u == i + 1
                 m == M(u)
      <4>1. u \in 1..(n + 1) /\ u - 1 = i /\ u \in Int
        BY <1>1, <2>1
      <4>2. m \in Int
        <5> HIDE DEF M, u
        <5>1. M(u) \in 0..(u - 1)
          BY <1>5, <4>1
        <5> QED BY <4>1, <5>1
      <4> HIDE DEF m
      <4>3. u - 1 - m = i - m
        BY <4>1, <4>2
      <4>4. p(u) = point[1] + (a * (u - 1 - m))
        BY DEF p, m
      <4> QED BY <4>3, <4>4 DEF m
    <3> QED BY <3>3, <3>4 DEF p, q
  <2>6. /\ st[i].x = IF c = "\n" THEN point[1] ELSE (st[k].x + a) % U64
        /\ st[i].y = IF c = "\n" THEN (st[k].y + b) % U64 ELSE st[k].y
    BY <2>2 DEF pen
  <2>7. CASE c = "\n"
    <3>1. M(i + 1) = i /\ Cardinality(NL(i + 1)) = Cardinality(NL(i)) + 1 /\ Cardinality(NL(i)) \in Nat
      BY <1>5, <1>6, <2>1, <2>7
    <3> HIDE DEF at, a, b, M, NL, st, c
    <3>2. at(i + 1)[1] = point[1]
      BY <1>1, <1>2, <2>1, <2>5, <3>1, SMTT(30)
    <3>3. at(i + 1)[2] = at(i)[2] + b
      <4> DEFINE m == Cardinality(NL(i))
      <4>3. m \in Nat
        BY <3>1
      <4> HIDE DEF m
      <4>1. b * (m + 1) = b * m + b /\ b * m \in Nat
        BY <1>2, <4>3
      <4>2. at(i)[2] = point[2] + b * m /\ at(i + 1)[2] = point[2] + b * (m + 1)
        BY <2>5, <3>1 DEF m
      <4> QED BY <1>1, <1>2, <4>1, <4>2
    <3>4. point[1] % U64 = point[1]
      BY <1>1
    <3>5. ((at(i)[2] % U64) + b) % U64 = (at(i)[2] + b) % U64
      BY <1>1, <1>2, <2>3, ModAdd
    <3>7. at(i + 1)[1] \in Nat /\ at(i + 1)[2] \in Nat
      BY <1>1, <1>2, <2>3, <3>2, <3>3, SMTT(30)
    <3>8. st[i].x = at(i + 1)[1] % U64
      BY <2>6, <2>7, <3>2, <3>4
    <3>9. st[i].y = at(i + 1)[2] % U64
      BY <2>3, <2>6, <2>7, <3>3, <3>5
    <3>6. /\ at(i + 1)[1] \in Nat /\ at(i + 1)[2] \in Nat
          /\ st[i].x = at(i + 1)[1] % U64 /\ st[i].y = at(i + 1)[2] % U64
      BY <3>7, <3>8, <3>9
    <3> HIDE DEF Drawn
    <3> QED BY <2>1, <2>4, <3>6 DEF i
  <2>8. CASE c # "\n"
    <3>1. M(i + 1) = M(i) /\ NL(i + 1) = NL(i) /\ M(i) \in 0..(i - 1)
      BY <1>5, <1>7, <2>1, <2>8
    <3> HIDE DEF at, a, b, M, NL, st, c
    <3>2. at(i + 1)[2] = at(i)[2]
      BY <2>5, <3>1
    <3>3. at(i + 1)[1] = at(i)[1] + a
      <4> DEFINE m == i - 1 - M(i)
      <4>1. m \in Nat /\ i - M(i) = m + 1
        BY <2>1, <3>1
      <4> HIDE DEF m
      <4>2. a * (m + 1) = a * m + a /\ a * m \in Nat
        BY <1>2, <4>1
      <4>3. at(i)[1] = point[1] + a * m /\ at(i + 1)[1] = point[1] + a * (m + 1)
        BY <2>5, <3>1, <4>1 DEF m
      <4> QED BY <1>1, <1>2, <4>2, <4>3
    <3>5. ((at(i)[1] % U64) + a) % U64 = (at(i)[1] + a) % U64
      BY <1>1, <1>2, <2>3, ModAdd
    <3>6. /\ at(i + 1)[1] \in Nat /\ at(i + 1)[2] \in Nat
          /\ st[i].x = at(i + 1)[1] % U64 /\ st[i].y = at(i + 1)[2] % U64
      BY <1>2, <2>3, <2>6, <2>8, <3>2, <3>3, <3>5
    <3> HIDE DEF Drawn
    <3> QED BY <2>1, <2>4, <3>6 DEF i
  <2> QED BY <2>7, <2>8
<1>10. n \in S
  <2> HIDE DEF S, n
  <2>1. \A i \in 0..n : i \in S
    BY <1>1, <1>8, <1>9, Upto
  <2> QED BY <1>1, <2>1
<1>11. st[n].pixels = Drawn(n)
  <2> HIDE DEF st, Drawn, at
  <2> QED BY <1>10
<1> HIDE DEF st, at
<1> QED
  BY <1>11 DEF st, at

------------------------------------------------------------------------------
(* The refinement.                                                         *)

\* The pixels of the frame among ps, painted.
LEMMA PaintsFrame ==
  ASSUME ModeInv, FrameInv, FourBytes, UNCHANGED <<display, mode, g_init>>,
         NEW ps, NEW color \in Colors, NEW name,
         Store(Bytes({p \in ps : g_init /\ InFrame(p)}, color), name)
  PROVE  TheCanvas!Paint(ps, color)
<1> DEFINE S == {p \in ps : g_init /\ InFrame(p)}
<1>1. g_fb_info.frameBufferWidth = Mode(mode).width /\ g_fb_info.frameBufferHeight = Mode(mode).height
  BY KernelFields DEF FourBytes
<1>2. S \subseteq Frame /\ \A p \in Frame : p \in S <=> p \in ps
  BY <1>1 DEF InFrame, Frame, FourBytes
<1>3. DOMAIN Picture = Frame
  BY PictureIs
<1> HIDE DEF S
<1>4. Store(Bytes(S, color), name)
  BY DEF S
<1>5. Picture' = [p \in DOMAIN Picture |-> IF p \in S THEN color ELSE Picture[p]]
  BY <1>2, <1>4, Painted
<1>6. Picture' = [p \in DOMAIN Picture |-> IF p \in ps THEN color ELSE Picture[p]]
  BY <1>2, <1>3, <1>5
<1> QED
  BY <1>6 DEF TheCanvas!Paint

LEMMA BoxPaints ==
  ASSUME ModeInv, FrameInv, FourBytes, NEW point \in Points, NEW size \in Sizes, NEW color \in Colors,
         draw_box(point, size, color)
  PROVE  TheCanvas!Box(point, size, color) \/ UNCHANGED Picture
<1> DEFINE box == (point[1]..(point[1] + size[1] - 1)) \X (point[2]..(point[2] + size[2] - 1))
           fits(p) == bufferIdx(p) + g_fb_info.bytesPerPixel - 1 < g_fb_info.frameBufferSize
           S == {p \in box : g_init /\ (\A q \in box : InFrame(q)) /\ fits(p)}
<1>1. UNCHANGED <<display, mode, g_init>> /\ Store(Bytes(S, color), "draw_box")
  BY DEF draw_box, Call, loaderVars
<1>2. /\ g_fb_info.frameBufferWidth = Mode(mode).width /\ g_fb_info.frameBufferHeight = Mode(mode).height
      /\ g_fb_info.pixelsPerScanLine = Mode(mode).pixelsPerScanLine /\ g_fb_info.bytesPerPixel = 4
      /\ g_fb_info.frameBufferSize = BufferSize(mode) /\ g_init
  BY KernelFields DEF FourBytes
<1>3. DOMAIN Picture = Frame /\ Picture = [p \in DOMAIN Picture |-> Picture[p]]
  BY PictureIs
<1>4. ASSUME NEW p \in Frame PROVE fits(p)
  <2> DEFINE w == Mode(mode).width
             h == Mode(mode).height
             l == Mode(mode).pixelsPerScanLine
             i == (p[2] * l + p[1]) * 4
             z == l * h * 4
  <2>1. w \in Nat /\ h \in Nat /\ l \in Nat /\ w <= l /\ p[1] \in 0..(w - 1) /\ p[2] \in 0..(h - 1)
    BY ModeFits DEF Frame
  <2>2. bufferIdx(p) = i /\ BufferSize(mode) = z
    BY <1>2 DEF bufferIdx, BufferSize, FourBytes
  <2> HIDE DEF w, h, l
  <2>3. i \in Nat /\ i + 3 <= z - 1
    BY <2>1, PixelFits
  <2>4. z \in Int
    BY <2>1
  <2> HIDE DEF i, z
  <2> QED BY <1>2, <2>2, <2>3, <2>4
<1>5. \A q : InFrame(q) <=> q \in Frame
  BY <1>2 DEF InFrame, Frame
<1> HIDE DEF box, fits
<1>6. CASE box \subseteq Frame
  <2>1. S = box
    BY <1>2, <1>4, <1>5, <1>6
  <2> HIDE DEF S
  <2>2. Picture' = [p \in DOMAIN Picture |-> IF p \in box THEN color ELSE Picture[p]]
    BY <1>1, <1>6, <2>1, Painted
  <2> QED BY <1>3, <1>6, <2>2 DEF TheCanvas!Box, TheCanvas!Paint, box
<1>7. CASE ~(box \subseteq Frame)
  <2>1. S = {}
    BY <1>5, <1>7
  <2> HIDE DEF S
  <2>2. Picture' = [p \in DOMAIN Picture |-> IF p \in S THEN color ELSE Picture[p]]
    BY <1>1, <2>1, Painted
  <2>3. Picture' = [p \in DOMAIN Picture |-> Picture[p]]
    BY <2>1, <2>2
  <2> QED BY <1>3, <2>3
<1> QED
  BY <1>6, <1>7

LEMMA CharPaints ==
  ASSUME ModeInv, FrameInv, FourBytes, NEW point \in Points, NEW scale \in Scales,
         NEW color \in Colors, NEW ch \in DOMAIN Font, draw_char(point, scale, color, ch)
  PROVE  TheCanvas!Write(point, scale, color, <<ch>>)
<1>1. /\ UNCHANGED <<display, mode, g_init>>
      /\ Store(Bytes({p \in Glyph(point, scale, ch) : g_init /\ InFrame(p)}, color), "draw_char")
  BY DEF draw_char, Call, loaderVars
<1>2. TheCanvas!Paint(Glyph(point, scale, ch), color)
  BY <1>1, PaintsFrame
<1>3. TheCanvas!Place(point, scale, <<ch>>, 1) = point
  <2> DEFINE a == TheCanvas!Stride(scale.width)
             b == TheCanvas!Stride(scale.height)
             N == TheCanvas!Newlines(<<ch>>, 1)
  <2>1. N = {}
    BY DEF TheCanvas!Newlines
  <2>2. Max({0} \cup N) = 0 /\ Cardinality(N) = 0
    <3>1. {0} \cup N \in SUBSET (0..0)
      BY <2>1
    <3> HIDE DEF N
    <3>2. Max({0} \cup N) \in 0..0
      BY <3>1, MaxIsMost
    <3> QED BY <2>1, <3>2, FS_EmptySet
  <2>3. TheCanvas!Place(point, scale, <<ch>>, 1) = <<point[1] + (a * (1 - 1 - 0)), point[2] + (b * 0)>>
    <3> HIDE DEF N, a, b
    <3>1. TheCanvas!Place(point, scale, <<ch>>, 1)
            = <<point[1] + (a * (1 - 1 - Max({0} \cup N))), point[2] + (b * Cardinality(N))>>
      BY CardSame, MaxSame DEF TheCanvas!Place, N, a, b
    <3> QED BY <2>2, <3>1
  <2>4. a \in Int /\ b \in Int
    <3>1. ASSUME NEW z \in {scale.width, scale.height} PROVE TheCanvas!Stride(z) \in Int
      <4>1. z.num \in Nat /\ z.den \in Nat \ {0} /\ GLYPH * z.num \in Nat
        BY CallAssumption
      <4> DEFINE o == (GLYPH * z.num) \div z.den
      <4>2. o \in Nat
        BY <4>1
      <4> HIDE DEF o
      <4>3. {1, o} \in SUBSET (0..(o + 1)) /\ o + 1 \in Nat
        BY <4>2
      <4>4. Max({1, o}) \in {1, o}
        BY <4>3, MaxIsMost
      <4> QED BY <4>2, <4>4, MaxSame DEF TheCanvas!Stride, TheCanvas!Times, o
    <3> QED BY <3>1
  <2>5. point = <<point[1], point[2]>> /\ point[1] \in Int /\ point[2] \in Int
    <3>1. point \in (0..(U64 - 1)) \X (0..(U64 - 1))
      BY CallAssumption
    <3> QED BY <3>1
  <2> HIDE DEF a, b
  <2>6. point[1] + (a * (1 - 1 - 0)) = point[1] /\ point[2] + (b * 0) = point[2]
    BY <2>4, <2>5
  <2> QED BY <2>3, <2>5, <2>6
<1>4. UNION {TheCanvas!Letter(TheCanvas!Place(point, scale, <<ch>>, i), scale, <<ch>>[i]) :
               i \in DOMAIN <<ch>>} = Glyph(point, scale, ch)
  <2>1. TheCanvas!Letter(point, scale, ch) = Glyph(point, scale, ch)
    BY LetterGlyph
  <2>2. DOMAIN <<ch>> = {1} /\ <<ch>>[1] = ch
    OBVIOUS
  <2> QED BY <1>3, <2>1, <2>2
<1> QED
  BY <1>2, <1>4 DEF TheCanvas!Write

LEMMA StringPaints ==
  ASSUME ModeInv, FrameInv, FourBytes, NEW point \in Points, NEW scale \in Scales,
         NEW color \in Colors, NEW s \in Strings, draw_string_f(point, scale, color, s),
         DOMAIN get_vsf(s.fmt, s.args) = 1..Len(get_vsf(s.fmt, s.args)),
         Len(get_vsf(s.fmt, s.args)) \in Nat
  PROVE  TheCanvas!Write(point, scale, color, get_vsf(s.fmt, s.args))
<1> DEFINE text == get_vsf(s.fmt, s.args)
           drawn == Pen(point, scale, text)[Len(text)].pixels
<1>1. /\ UNCHANGED <<display, mode, g_init>>
      /\ Store(Bytes({p \in drawn : g_init /\ InFrame(p)}, color), "draw_string_f")
  BY DEF draw_string_f, Call, loaderVars
<1>2. Len(text) \in Nat /\ DOMAIN text = 1..Len(text)
  OBVIOUS
<1> HIDE DEF text
<1>3. drawn = UNION {TheCanvas!Letter(TheCanvas!Place(point, scale, text, i), scale, text[i]) :
                       i \in DOMAIN text}
  BY <1>2, WriteAs
<1> HIDE DEF drawn
<1>4. TheCanvas!Paint(drawn, color)
  BY <1>1, PaintsFrame
<1> QED
  BY <1>3, <1>4 DEF TheCanvas!Write, text

------------------------------------------------------------------------------
(* Numerals.                                                               *)

\* Quotient and remainder.
LEMMA DivIs ==
  ASSUME NEW a \in Nat, NEW b \in Nat \ {0}
  PROVE  /\ a \div b \in Nat /\ a % b \in 0..(b - 1) /\ a = (a \div b) * b + (a % b)
         /\ a \div b = 0 <=> a < b
<1>1. a \div b \in Nat /\ a % b \in 0..(b - 1) /\ a = (a \div b) * b + (a % b)
  OBVIOUS
<1> DEFINE q == a \div b
           r == a % b
<1>2. q \in Nat /\ r \in 0..(b - 1) /\ a = q * b + r
  BY <1>1
<1> HIDE DEF q, r
<1>3. q = 0 => a < b
  BY <1>2
<1>4. q # 0 => ~(a < b)
  <2>1. q # 0 => q * b >= b
    BY <1>2
  <2>2. q * b \in Nat
    BY <1>2
  <2> QED BY <1>2, <2>1, <2>2
<1> QED
  BY <1>1, <1>3, <1>4 DEF q

\* A quotient is less where the dividend is less than the power.
LEMMA DivLess ==
  ASSUME NEW a \in Nat, NEW d \in Nat, a <= d, NEW b \in Nat \ {0}, NEW c \in Nat \ {0}, c <= b
  PROVE  a \div b <= d \div c
<1> DEFINE x == a \div b
           y == d \div c
           r == a % b
           s == d % c
<1>1. /\ x \in Nat /\ r \in 0..(b - 1) /\ a = x * b + r
      /\ y \in Nat /\ s \in 0..(c - 1) /\ d = y * c + s
  BY DivIs
<1> HIDE DEF x, y, r, s
<1>2. ASSUME y < x PROVE FALSE
  <2>1. (y + 1) * c <= x * c /\ x * c <= x * b
    BY <1>1, <1>2
  <2>2. (y + 1) * c = y * c + c /\ x * b \in Nat /\ y * c \in Nat /\ x * c \in Nat
    BY <1>1
  <2> QED BY <1>1, <2>1, <2>2
<1> QED
  BY <1>1, <1>2 DEF x, y

\* The quotients, one from the other.
LEMMA QuotientsAre ==
  ASSUME NEW v \in Nat, NEW base \in Nat \ {0}, NEW n \in Nat
  PROVE  LET q == Quotients(v, base, n) IN
         /\ q[0] = v /\ \A k \in 0..n : q[k] \in Nat
         /\ \A k \in 1..n : q[k] = q[k - 1] \div base
<1> DEFINE F(g, m) == g = [i \in 0..m |-> IF i = 0 THEN v ELSE g[i - 1] \div base]
           S == {k \in 0..n : \E g : F(g, k)}
           q == Quotients(v, base, n)
<1>1. 0 \in S
  <2> DEFINE g == [i \in 0..0 |-> v]
  <2>1. F(g, 0)
    OBVIOUS
  <2> HIDE DEF F, g
  <2> QED BY <2>1
<1>2. ASSUME NEW k \in 0..(n - 1), k \in S PROVE k + 1 \in S
  <2>1. PICK g : F(g, k)
    BY <1>2
  <2> DEFINE h == [i \in 0..(k + 1) |-> IF i = k + 1 THEN g[k] \div base ELSE g[i]]
  <2>2. F(h, k + 1)
    <3>1. ASSUME NEW i \in 0..k PROVE g[i] = IF i = 0 THEN v ELSE g[i - 1] \div base
      BY <2>1
    <3> QED BY <3>1
  <2> HIDE DEF F, h
  <2> QED BY <2>2
<1>3. \E g : F(g, n)
  <2> HIDE DEF F
  <2>1. n \in 0..n
    OBVIOUS
  <2> HIDE DEF S
  <2>2. n \in S
    BY <1>1, <1>2, <2>1, Upto
  <2> QED BY <2>2 DEF S
<1>4. q = CHOOSE g : F(g, n)
  BY DEF Quotients
<1>5. F(q, n)
  <2> HIDE DEF F, q
  <2> QED BY <1>3, <1>4
<1> HIDE DEF q
<1>6. q[0] = v /\ \A k \in 1..n : q[k] = q[k - 1] \div base
  <2>1. ASSUME NEW k \in 0..n PROVE q[k] = IF k = 0 THEN v ELSE q[k - 1] \div base
    BY <1>5
  <2> QED BY <2>1
<1>7. \A k \in 0..n : q[k] \in Nat
  <2> DEFINE T == {k \in 0..n : q[k] \in Nat}
  <2>1. 0 \in T
    BY <1>6
  <2>2. ASSUME NEW k \in 0..(n - 1), k \in T PROVE k + 1 \in T
    <3>1. k + 1 \in 1..n /\ (k + 1) - 1 = k /\ q[k] \in Nat
      BY <2>2
    <3>2. q[k + 1] = q[k] \div base
      BY <1>6, <3>1
    <3>3. q[k] \div base \in Nat
      BY <3>1, DivIs
    <3> QED BY <3>1, <3>2, <3>3
  <2> HIDE DEF T
  <2>3. \A k \in 0..n : k \in T
    BY <2>1, <2>2, Upto
  <2> QED BY <2>3 DEF T
<1> QED
  BY <1>6, <1>7 DEF q

\* How far the quotients are taken does not matter.
LEMMA QuotientsShort ==
  ASSUME NEW v \in Nat, NEW base \in Nat \ {0}, NEW n \in Nat, NEW m \in 0..n
  PROVE  \A k \in 0..m : Quotients(v, base, m)[k] = Quotients(v, base, n)[k]
<1> DEFINE q == Quotients(v, base, n)
           p == Quotients(v, base, m)
           S == {k \in 0..m : p[k] = q[k]}
<1>1. q[0] = v /\ \A k \in 1..n : q[k] = q[k - 1] \div base
  BY QuotientsAre
<1>2. p[0] = v /\ \A k \in 1..m : p[k] = p[k - 1] \div base
  <2>1. m \in Nat
    OBVIOUS
  <2> QED BY <2>1, QuotientsAre
<1> HIDE DEF q, p
<1>3. 0 \in S
  BY <1>1, <1>2
<1>4. ASSUME NEW k \in 0..(m - 1), k \in S PROVE k + 1 \in S
  <2>1. k + 1 \in 1..m /\ k + 1 \in 1..n /\ (k + 1) - 1 = k
    OBVIOUS
  <2>2. p[k + 1] = p[k] \div base /\ q[k + 1] = q[k] \div base
    BY <1>1, <1>2, <2>1
  <2> QED BY <1>4, <2>1, <2>2
<1>5. m \in Nat
  OBVIOUS
<1> HIDE DEF S
<1>6. \A k \in 0..m : k \in S
  BY <1>3, <1>4, <1>5, Upto
<1> QED
  BY <1>6 DEF S, p, q

\* A number with few digits has few quotients.
LEMMA QuotientsLess ==
  ASSUME NEW v \in Nat, NEW u \in Nat, v <= u, NEW b \in Nat \ {0}, NEW c \in Nat \ {0}, c <= b,
         NEW n \in Nat
  PROVE  \A k \in 0..n : Quotients(v, b, n)[k] <= Quotients(u, c, n)[k]
<1> DEFINE q == Quotients(v, b, n)
           p == Quotients(u, c, n)
           S == {k \in 0..n : q[k] <= p[k]}
<1>1. q[0] = v /\ (\A k \in 0..n : q[k] \in Nat) /\ \A k \in 1..n : q[k] = q[k - 1] \div b
  BY QuotientsAre
<1>2. p[0] = u /\ (\A k \in 0..n : p[k] \in Nat) /\ \A k \in 1..n : p[k] = p[k - 1] \div c
  BY QuotientsAre
<1> HIDE DEF q, p
<1>3. 0 \in S
  BY <1>1, <1>2
<1>4. ASSUME NEW k \in 0..(n - 1), k \in S PROVE k + 1 \in S
  <2>1. k + 1 \in 1..n /\ k \in 0..n /\ (k + 1) - 1 = k
    OBVIOUS
  <2>2. q[k + 1] = q[k] \div b /\ p[k + 1] = p[k] \div c
    BY <1>1, <1>2, <2>1
  <2>3. q[k] \in Nat /\ p[k] \in Nat /\ q[k] <= p[k]
    BY <1>1, <1>2, <1>4, <2>1
  <2>4. q[k] \div b <= p[k] \div c
    BY <2>3, DivLess
  <2> QED BY <2>1, <2>2, <2>4
<1> HIDE DEF S
<1>6. \A k \in 0..n : k \in S
  BY <1>3, <1>4, Upto
<1> QED
  BY <1>6 DEF S, p, q

\* The provers do not know that a literal is a string.
Characters ==
  STRING \cup {"0", "1", "2", "3", "4", "5", "6", "7", "8", "9", "A", "B", "C", "D", "E", "F"}
         \cup {"-", "[", "n", "u", "l", "]", "x", "\n"}

\* A digit is found at its place.
LEMMA Numerals ==
  /\ \A d \in 0..15 : Numeral[d + 1] \in Characters
  /\ \A d \in 0..15 : (CHOOSE n \in 1..16 : Numeral[n] = Numeral[d + 1]) - 1 = d
  /\ \A d \in 0..15 : Numeral[d + 1] = "0" <=> d = 0
<1>1. /\ Numeral[1] = "0" /\ Numeral[2] = "1" /\ Numeral[3] = "2" /\ Numeral[4] = "3"
      /\ Numeral[5] = "4" /\ Numeral[6] = "5" /\ Numeral[7] = "6" /\ Numeral[8] = "7"
      /\ Numeral[9] = "8" /\ Numeral[10] = "9" /\ Numeral[11] = "A" /\ Numeral[12] = "B"
      /\ Numeral[13] = "C" /\ Numeral[14] = "D" /\ Numeral[15] = "E" /\ Numeral[16] = "F"
  BY DEF Numeral
<1>6. ASSUME NEW m \in 1..16 PROVE Numeral[m] \in Characters
  BY <1>1, SMTT(60) DEF Characters
<1>3. ASSUME NEW m \in 1..16, NEW n \in 1..16, Numeral[n] = Numeral[m] PROVE m = n
  BY <1>1, <1>3, SMTT(60)
<1>2. ASSUME NEW m \in 1..16
      PROVE  Numeral[m] \in Characters /\ (Numeral[m] = "0" <=> m = 1)
  BY <1>1, <1>3, <1>6
<1>5. ASSUME NEW d \in 0..15
      PROVE  Numeral[d + 1] \in Characters /\ (Numeral[d + 1] = "0" <=> d = 0)
  <2>1. d + 1 \in 1..16 /\ (d + 1 = 1 <=> d = 0)
    OBVIOUS
  <2> DEFINE m == d + 1
  <2> HIDE DEF m
  <2>2. Numeral[m] \in Characters /\ (Numeral[m] = "0" <=> m = 1)
    BY <1>2, <2>1 DEF m
  <2> QED BY <2>1, <2>2 DEF m
<1>4. ASSUME NEW d \in 0..15 PROVE (CHOOSE n \in 1..16 : Numeral[n] = Numeral[d + 1]) - 1 = d
  <2> DEFINE m == d + 1
             n == CHOOSE n \in 1..16 : Numeral[n] = Numeral[m]
  <2>1. m \in 1..16
    OBVIOUS
  <2> HIDE DEF m
  <2>2. n \in 1..16 /\ Numeral[n] = Numeral[m]
    BY <2>1
  <2> HIDE DEF n
  <2>3. n = m
    BY <1>3, <2>1, <2>2
  <2>4. n - 1 = d
    BY <2>3 DEF m
  <2> QED BY <2>4 DEF n, m
<1> QED
  BY <1>4, <1>5

Bases == {10, 16}

\* The digits, from the quotients.
LEMMA DigitsAre ==
  ASSUME NEW v \in Nat, NEW base \in Bases, NEW n \in Nat
  PROVE  LET s == Digits(v, base, n)
             q == Quotients(v, base, n)
         IN /\ s \in Seq(Characters) /\ Len(s) = n
            /\ \A i \in 1..n : q[n - i] % base \in 0..15 /\ s[i] = Numeral[(q[n - i] % base) + 1]
<1> DEFINE s == Digits(v, base, n)
           q == Quotients(v, base, n)
           d(i) == q[n - i] % base
<1>1. base \in Nat \ {0} /\ base <= 16
  BY DEF Bases
<1>2. \A k \in 0..n : q[k] \in Nat
  BY <1>1, QuotientsAre
<1>3. ASSUME NEW i \in 1..n PROVE d(i) \in 0..15
  <2> DEFINE a == q[n - i]
  <2>1. a \in Nat
    <3> HIDE DEF q
    <3>1. n - i \in 0..n
      OBVIOUS
    <3> QED BY <1>2, <3>1
  <2> HIDE DEF a
  <2>2. a % base \in 0..(base - 1)
    BY <1>1, <2>1
  <2>3. a % base \in 0..15
    BY <1>1, <2>2
  <2> QED BY <2>3 DEF a
<1>4. s = [i \in 1..n |-> Numeral[d(i) + 1]]
  BY DEF Digits
<1> HIDE DEF s, d
<1>5. \A i \in 1..n : Numeral[d(i) + 1] \in Characters
  BY <1>3, Numerals
<1>6. s \in [1..n -> Characters]
  BY <1>4, <1>5
<1>7. s \in Seq(Characters) /\ Len(s) = n
  BY <1>6
<1>8. \A i \in 1..n : d(i) \in 0..15 /\ s[i] = Numeral[d(i) + 1]
  BY <1>3, <1>4
<1> QED
  BY <1>7, <1>8 DEF s, d

\* As many digits as there are quotients before 0 make the numeral.
LEMMA NumeralIs ==
  ASSUME NEW v \in Nat, NEW base \in Bases, NEW n \in Nat \ {0},
         Quotients(v, base, n)[n] = 0, n > 1 => Quotients(v, base, n)[n - 1] # 0
  PROVE  IsNumeral(Digits(v, base, n), v, base)
<1> DEFINE s == Digits(v, base, n)
           q == Quotients(v, base, n)
           at(i) == (CHOOSE m \in 1..16 : Numeral[m] = s[i]) - 1
           F(g, m) == g = [i \in 0..m |-> IF i = 0 THEN 0 ELSE g[i - 1] * base + at(i)]
           S == {k \in 0..n : \E g : F(g, k)}
           sum == CHOOSE g : F(g, n)
<1>1. base \in Nat \ {0} /\ n \in Nat
  BY DEF Bases
<1>2. q[0] = v /\ (\A k \in 0..n : q[k] \in Nat) /\ \A k \in 1..n : q[k] = q[k - 1] \div base
  <2>1. \A m \in Nat : LET p == Quotients(v, base, m) IN
                         /\ p[0] = v /\ \A k \in 0..m : p[k] \in Nat
                         /\ \A k \in 1..m : p[k] = p[k - 1] \div base
    BY <1>1, QuotientsAre
  <2> QED BY <1>1, <2>1
<1>3. /\ s \in Seq(Characters) /\ Len(s) = n
      /\ \A i \in 1..n : q[n - i] % base \in 0..15 /\ s[i] = Numeral[(q[n - i] % base) + 1]
  BY <1>1, DigitsAre, ZenonT(60)
<1> HIDE DEF s, q
<1>4. ASSUME NEW i \in 1..n PROVE at(i) = q[n - i] % base
  <2> DEFINE d == q[n - i] % base
  <2>1. d \in 0..15 /\ s[i] = Numeral[d + 1]
    BY <1>3
  <2> HIDE DEF d
  <2>2. (CHOOSE m \in 1..16 : Numeral[m] = Numeral[d + 1]) - 1 = d
    BY <2>1, Numerals
  <2>3. at(i) = d
    BY <2>1, <2>2
  <2> QED BY <2>3 DEF d
<1> HIDE DEF at
<1>5. 0 \in S
  <2> DEFINE g == [i \in 0..0 |-> 0]
  <2>1. F(g, 0)
    OBVIOUS
  <2> HIDE DEF F, g
  <2> QED BY <2>1
<1>6. ASSUME NEW k \in 0..(n - 1), k \in S PROVE k + 1 \in S
  <2>1. PICK g : F(g, k)
    BY <1>6
  <2> DEFINE h == [i \in 0..(k + 1) |-> IF i = k + 1 THEN g[k] * base + at(k + 1) ELSE g[i]]
  <2>2. F(h, k + 1)
    <3>1. ASSUME NEW i \in 0..k PROVE g[i] = IF i = 0 THEN 0 ELSE g[i - 1] * base + at(i)
      BY <2>1
    <3> QED BY <3>1
  <2> HIDE DEF F, h
  <2> QED BY <2>2
<1>7. \E g : F(g, n)
  <2> HIDE DEF F
  <2>1. n \in 0..n
    OBVIOUS
  <2> HIDE DEF S
  <2>2. n \in S
    BY <1>1, <1>5, <1>6, <2>1, Upto
  <2> QED BY <2>2 DEF S
<1>8. F(sum, n)
  <2> HIDE DEF F
  <2> QED BY <1>7
<1> HIDE DEF sum
<1>9. sum[0] = 0 /\ \A k \in 1..n : sum[k] = sum[k - 1] * base + at(k)
  <2>1. ASSUME NEW k \in 0..n PROVE sum[k] = IF k = 0 THEN 0 ELSE sum[k - 1] * base + at(k)
    BY <1>8
  <2> QED BY <1>1, <2>1
<1> DEFINE T == {k \in 0..n : sum[k] = q[n - k]}
<1>10. 0 \in T
  <2>1. n - 0 = n /\ q[n] = 0
    BY <1>1 DEF q
  <2> QED BY <1>1, <1>9, <2>1
<1>11. ASSUME NEW k \in 0..(n - 1), k \in T PROVE k + 1 \in T
  <2> DEFINE i == k + 1
             a == q[n - i]
  <2>1. i \in 1..n /\ n - i \in 0..n /\ n - k \in 1..n /\ (n - k) - 1 = n - i /\ i - 1 = k /\ i \in 0..n
    BY <1>1
  <2> HIDE DEF i
  <2>2. a \in Nat /\ q[n - k] = a \div base /\ at(i) = a % base
    BY <1>2, <1>4, <2>1
  <2>3. sum[i] = q[n - k] * base + at(i)
    BY <1>9, <1>11, <2>1
  <2> HIDE DEF a
  <2>4. a = (a \div base) * base + (a % base)
    BY <1>1, <2>2, DivIs
  <2>5. sum[i] = a
    BY <2>2, <2>3, <2>4
  <2>6. i \in T
    BY <2>1, <2>5 DEF a
  <2> QED BY <2>6 DEF i
<1>12. sum[n] = v
  <2> HIDE DEF T
  <2>1. n \in T
    <3>1. \A k \in 0..n : k \in T
      BY <1>1, <1>10, <1>11, Upto
    <3> QED BY <1>1, <3>1
  <2>2. n - n = 0
    BY <1>1
  <2> QED BY <1>2, <2>1, <2>2 DEF T
<1>13. ASSUME n > 1 PROVE s[1] # "0"
  <2> DEFINE a == q[n - 1]
  <2>1. n - 1 \in 0..n /\ n \in 1..n /\ 1 \in 1..n
    BY <1>1
  <2>2. a \in Nat /\ a # 0 /\ q[n] = 0 /\ q[n] = a \div base
    BY <1>2, <1>13, <2>1 DEF q
  <2>3. s[1] = Numeral[(a % base) + 1] /\ a % base \in 0..15
    BY <1>3, <2>1
  <2> HIDE DEF a
  <2>4. a % base = a
    <3>1. a < base
      BY <1>1, <2>2, DivIs
    <3> QED BY <1>1, <2>2, <3>1
  <2> QED BY <2>2, <2>3, <2>4, Numerals
<1>14. v = sum[Len(s)] /\ Len(s) > 0 /\ (Len(s) > 1 => s[1] # "0")
  BY <1>1, <1>3, <1>12, <1>13
<1>15. IsNumeral(s, v, base) <=> /\ Len(s) > 0 /\ (Len(s) > 1 => s[1] # "0")
                               /\ v = (CHOOSE g : F(g, Len(s)))[Len(s)]
  BY DEF IsNumeral, at
<1>16. Len(s) = n
  BY <1>3
<1> HIDE DEF F
<1> QED
  BY <1>14, <1>15, <1>16 DEF s, sum

\* The loop for the digits, with room for them or without.
LEMMA DigitsLoop ==
  ASSUME NEW v \in Nat, NEW base \in Bases, NEW room \in Nat \ {0}
  PROVE  LET s == digits(v, base, room)
             q == Quotients(v, base, room)
         IN /\ s \in Seq(Characters) /\ Len(s) \in 1..room
            /\ q[room] = 0 => IsNumeral(s, v, base)
            /\ v # 0 => Len(s) = Min({k \in 0..room : k = room \/ q[k] = 0})
<1> DEFINE q == Quotients(v, base, room)
           K == {k \in 0..room : k = room \/ q[k] = 0}
           n == Min(K)
<1>1. base \in Nat \ {0} /\ room \in Nat
  BY DEF Bases
<1>2. q[0] = v /\ \A k \in 0..room : q[k] \in Nat
  BY <1>1, QuotientsAre
<1>3. K \in SUBSET Nat /\ K # {}
  <2> HIDE DEF q
  <2>1. room \in K
    BY <1>1
  <2> QED BY <2>1
<1> HIDE DEF q
<1>4. n \in K /\ \A k \in K : n <= k
  BY <1>3, MinIsLeast
<1>5. CASE v = 0
  <2>1. digits(v, base, room) = <<"0">>
    BY <1>5 DEF digits
  <2>2. Quotients(0, base, 1)[1] = 0
    <3>1. /\ Quotients(0, base, 1)[0] = 0
          /\ Quotients(0, base, 1)[1] = Quotients(0, base, 1)[1 - 1] \div base
      BY <1>1, QuotientsAre
    <3>2. 0 \div base = 0
      BY <1>1, DivIs
    <3> QED BY <3>1, <3>2
  <2>3. Digits(0, base, 1) = <<"0">>
    <3>1. Quotients(0, base, 1)[0] = 0
      BY <1>1, QuotientsAre
    <3>2. 0 % base = 0
      BY <1>1
    <3>3. Digits(0, base, 1) = [i \in 1..1 |-> Numeral[(Quotients(0, base, 1)[1 - i] % base) + 1]]
      BY DEF Digits
    <3>4. Numeral[0 + 1] = "0"
      BY DEF Numeral
    <3>5. \A i \in 1..1 : Numeral[(Quotients(0, base, 1)[1 - i] % base) + 1] = "0"
      BY <3>1, <3>2, <3>4
    <3>6. Digits(0, base, 1) = [i \in 1..1 |-> "0"]
      BY <3>3, <3>5
    <3> QED BY <3>6
  <2>4. IsNumeral(<<"0">>, 0, base)
    BY <2>2, <2>3, NumeralIs
  <2>5. "0" \in Characters
    BY DEF Characters
  <2>6. <<"0">> \in Seq(Characters) /\ Len(<<"0">>) = 1
    BY <2>5
  <2>7. IsNumeral(digits(v, base, room), v, base)
    BY <1>5, <2>1, <2>4
  <2>8. digits(v, base, room) \in Seq(Characters) /\ Len(digits(v, base, room)) \in 1..room
    BY <1>1, <2>1, <2>6
  <2> QED BY <1>5, <2>7, <2>8
<1>6. CASE v # 0
  <2>1. n \in 1..room
    BY <1>1, <1>2, <1>4, <1>6
  <2>2. digits(v, base, room) = Digits(v, base, n)
    BY <1>6 DEF digits, digits_of_nothing, q
  <2>3. \A k \in 0..n : Quotients(v, base, n)[k] = q[k]
    BY <1>1, <2>1, QuotientsShort DEF q
  <2>4. ASSUME n > 1 PROVE q[n - 1] # 0
    <3>1. n - 1 \notin K
      BY <1>4, <2>1, <2>4
    <3>2. n - 1 \in 0..room /\ n - 1 # room
      BY <1>1, <2>1
    <3> HIDE DEF n
    <3> QED BY <3>1, <3>2
  <2>5. ASSUME q[room] = 0 PROVE q[n] = 0
    BY <1>4, <2>5
  <2> HIDE DEF n
  <2>6. Digits(v, base, n) \in Seq(Characters) /\ Len(Digits(v, base, n)) = n
    BY <2>1, DigitsAre
  <2>7. ASSUME q[room] = 0 PROVE IsNumeral(Digits(v, base, n), v, base)
    <3>1. n \in 0..n /\ (n > 1 => n - 1 \in 0..n) /\ n \in Nat \ {0}
      BY <2>1
    <3>2. Quotients(v, base, n)[n] = 0 /\ (n > 1 => Quotients(v, base, n)[n - 1] # 0)
      BY <2>3, <2>4, <2>5, <2>7, <3>1
    <3> QED BY <3>1, <3>2, NumeralIs
  <2> QED BY <1>1, <2>1, <2>2, <2>6, <2>7 DEF q, n
<1> QED
  BY <1>5, <1>6

\* Without its leading zeroes, what is written in hexadecimal is the numeral.
LEMMA SkipZeroesIs ==
  ASSUME NEW v \in Nat, NEW base \in Bases, NEW n \in Nat \ {0}, Quotients(v, base, n)[n] = 0
  PROVE  LET s == SkipZeroes(Digits(v, base, n)) IN
         s \in Seq(Characters) /\ IsNumeral(s, v, base)
<1> DEFINE q == Quotients(v, base, n)
           d == Digits(v, base, n)
           Z(i) == (i = n \/ d[i] # "0") /\ \A j \in 1..(i - 1) : d[j] = "0"
           from == CHOOSE i \in 1..n : Z(i)
           m == n - from + 1
<1>1. base \in Nat \ {0} /\ n \in Nat
  BY DEF Bases
<1>2. (\A k \in 0..n : q[k] \in Nat) /\ \A k \in 1..n : q[k] = q[k - 1] \div base
  <2>1. \A k \in Nat : LET p == Quotients(v, base, k) IN
                       /\ \A j \in 0..k : p[j] \in Nat
                       /\ \A j \in 1..k : p[j] = p[j - 1] \div base
    BY <1>1, QuotientsAre
  <2> QED BY <1>1, <2>1
<1>3. /\ d \in Seq(Characters) /\ Len(d) = n
      /\ \A i \in 1..n : q[n - i] % base \in 0..15 /\ d[i] = Numeral[(q[n - i] % base) + 1]
  BY <1>1, DigitsAre, ZenonT(60)
<1>0. q[n] = 0
  OBVIOUS
<1> HIDE DEF q, d
<1>4. from \in 1..n /\ Z(from)
  <2> DEFINE N == {i \in 1..n : i = n \/ d[i] # "0"}
  <2>1. N \in SUBSET Nat /\ n \in N
    BY <1>1
  <2>2. Min(N) \in N /\ \A y \in N : Min(N) <= y
    BY <2>1, MinIsLeast
  <2> DEFINE k == Min(N)
  <2>3. k \in 1..n /\ Z(k)
    <3>1. k \in N /\ \A y \in N : k <= y
      BY <2>2
    <3> HIDE DEF k
    <3> QED BY <1>1, <3>1
  <2> HIDE DEF k, Z
  <2> QED BY <2>3
<1>5. SkipZeroes(d) = SubSeq(d, from, n)
  BY <1>3 DEF SkipZeroes
<1> HIDE DEF from
<1>6. m \in 1..n
  BY <1>1, <1>4
<1>7. \A k \in 0..m : Quotients(v, base, m)[k] = q[k]
  BY <1>1, <1>6, QuotientsShort DEF q
<1>8. SubSeq(d, from, n) = Digits(v, base, m)
  <2> DEFINE t == SubSeq(d, from, n)
             u == Digits(v, base, m)
  <2>1. t \in Seq(Characters) /\ Len(t) = m /\ \A i \in 1..m : t[i] = d[from + i - 1]
    BY <1>1, <1>3, <1>4, SubSeqProperties
  <2>2. u \in Seq(Characters) /\ Len(u) = m
        /\ \A i \in 1..m : u[i] = Numeral[(Quotients(v, base, m)[m - i] % base) + 1]
    <3> HIDE DEF m
    <3>1. \A k \in Nat : LET w == Digits(v, base, k) IN
            /\ w \in Seq(Characters) /\ Len(w) = k
            /\ \A i \in 1..k : w[i] = Numeral[(Quotients(v, base, k)[k - i] % base) + 1]
      BY DigitsAre
    <3>2. m \in Nat
      BY <1>6
    <3> QED BY <3>1, <3>2
  <2> HIDE DEF t, u, m
  <2>3. ASSUME NEW i \in 1..m PROVE t[i] = u[i]
    <3>1. /\ from + i - 1 \in 1..n /\ n - (from + i - 1) = m - i /\ m - i \in 0..m
          /\ from + i - 1 \in Int
      BY <1>1, <1>4, <1>6 DEF m
    <3> DEFINE k == from + i - 1
    <3>2. k \in 1..n /\ n - k = m - i
      BY <3>1
    <3> HIDE DEF k
    <3>3. d[k] = Numeral[(q[m - i] % base) + 1]
      BY <1>3, <3>2
    <3>4. t[i] = d[k]
      BY <2>1 DEF k
    <3> QED BY <1>7, <2>2, <3>1, <3>3, <3>4
  <2>4. t = u
    BY <2>1, <2>2, <2>3, SeqEqual
  <2> QED BY <2>4 DEF t, u
<1>9. q[m] = 0
  <2> DEFINE S == {k \in 0..(from - 1) : q[n - k] = 0}
  <2>1. 0 \in S
    BY <1>0, <1>1, <1>4
  <2>2. ASSUME NEW k \in 0..((from - 1) - 1), k \in S PROVE k + 1 \in S
    <3> DEFINE j == k + 1
               a == q[n - j]
    <3>1. /\ j \in 1..(from - 1) /\ j \in 1..n /\ n - j \in 0..n /\ n - k \in 1..n
          /\ (n - k) - 1 = n - j
      BY <1>1, <1>4
    <3> HIDE DEF j
    <3>2. a \in Nat /\ a \div base = 0
      BY <1>2, <2>2, <3>1
    <3>3. d[j] = "0" /\ d[j] = Numeral[(a % base) + 1] /\ a % base \in 0..15
      BY <1>3, <1>4, <3>1
    <3> HIDE DEF a
    <3>4. a % base = 0
      BY <3>3, Numerals
    <3>5. a = 0
      <4>1. a = (a \div base) * base + (a % base)
        BY <1>1, <3>2, DivIs
      <4> QED BY <1>1, <3>2, <3>4, <4>1
    <3> QED BY <3>1, <3>5 DEF a, j
  <2>3. \A k \in 0..(from - 1) : k \in S
    <3>1. from - 1 \in Nat
      BY <1>4
    <3> HIDE DEF S
    <3> QED BY <2>1, <2>2, <3>1, Upto
  <2>4. from - 1 \in 0..(from - 1) /\ n - (from - 1) = m
    BY <1>1, <1>4
  <2> QED BY <2>3, <2>4
<1>10. ASSUME m > 1 PROVE q[m - 1] # 0
  <2>1. from \in 1..n /\ from # n /\ n - from = m - 1
    BY <1>1, <1>4, <1>10
  <2>2. d[from] # "0" /\ d[from] = Numeral[(q[n - from] % base) + 1]
    BY <1>3, <1>4, <2>1
  <2>3. 0 % base = 0
    BY <1>1
  <2>4. Numeral[0 + 1] = "0"
    BY DEF Numeral
  <2> QED BY <2>1, <2>2, <2>3, <2>4
<1>11. IsNumeral(Digits(v, base, m), v, base)
  <2>1. m \in 0..m /\ (m > 1 => m - 1 \in 0..m) /\ m \in Nat \ {0}
    BY <1>6
  <2> HIDE DEF m
  <2>2. Quotients(v, base, m)[m] = 0 /\ (m > 1 => Quotients(v, base, m)[m - 1] # 0)
    BY <1>7, <1>9, <1>10, <2>1
  <2> QED BY <2>1, <2>2, NumeralIs
<1>12. Digits(v, base, m) \in Seq(Characters)
  <2>1. m \in Nat
    BY <1>6
  <2> HIDE DEF m
  <2> QED BY <2>1, DigitsAre
<1> QED
  BY <1>5, <1>8, <1>11, <1>12 DEF d

\* Numbers of U32 have a numeral in tmp, with one place to spare in decimal.
LEMMA NumberFits ==
  ASSUME NEW v \in 0..(U32 - 1)
  PROVE  /\ IsNumeral(utoa(v), v, 10) /\ IsNumeral(uhextoa(v), v, 16)
         /\ v > 0 => Len(utoa(v)) < TMP - 1
<1> DEFINE n == TMP - 2
           m == TMP - 1
           u == U32 - 1
<1>1. v \in Nat /\ u \in Nat /\ v <= u /\ n \in Nat \ {0} /\ m \in Nat \ {0} /\ m = n + 1 /\ n \in 0..m
  BY NumberAssumption
<1>2. Quotients(u, 10, n)[n] = 0
  BY NumberAssumption
<1> HIDE DEF n, m, u
<1>3. n \in 0..n /\ m \in 0..m /\ m \in 1..m /\ m - 1 = n /\ n \in Nat /\ m \in Nat
  BY <1>1
<1>4. ASSUME NEW b \in Bases PROVE Quotients(v, b, n)[n] = 0
  <2>1. b \in Nat \ {0} /\ 10 \in Nat \ {0} /\ 10 <= b
    BY DEF Bases
  <2>2. Quotients(v, b, n)[n] <= Quotients(u, 10, n)[n]
    BY <1>1, <1>3, <2>1, QuotientsLess
  <2>3. Quotients(v, b, n)[n] \in Nat
    BY <1>1, <1>3, <2>1, QuotientsAre
  <2> QED BY <1>2, <2>2, <2>3
<1>5. ASSUME NEW b \in Bases PROVE Quotients(v, b, m)[n] = 0 /\ Quotients(v, b, m)[m] = 0
  <2>1. b \in Nat \ {0}
    BY DEF Bases
  <2>2. \A k \in 0..n : Quotients(v, b, n)[k] = Quotients(v, b, m)[k]
    BY <1>1, <1>3, <2>1, QuotientsShort
  <2>3. Quotients(v, b, m)[n] = 0
    BY <1>3, <1>4, <2>2
  <2>4. \A k \in 1..m : Quotients(v, b, m)[k] = Quotients(v, b, m)[k - 1] \div b
    BY <1>1, <1>3, <2>1, QuotientsAre
  <2>5. Quotients(v, b, m)[m] = 0 \div b
    BY <1>3, <2>3, <2>4
  <2>6. 0 \div b = 0
    BY <2>1, DivIs
  <2> QED BY <2>3, <2>5, <2>6
<1>6. 10 \in Bases /\ 16 \in Bases
  BY DEF Bases
<1>7. IsNumeral(utoa(v), v, 10) /\ IsNumeral(uhextoa(v), v, 16)
  <2>1. Quotients(v, 10, m)[m] = 0 /\ Quotients(v, 16, m)[m] = 0
    BY <1>5, <1>6
  <2>2. IsNumeral(digits(v, 10, m), v, 10) /\ IsNumeral(digits(v, 16, m), v, 16)
    BY <1>1, <1>6, <2>1, DigitsLoop
  <2> QED BY <2>2 DEF utoa, uhextoa, m
<1>8. ASSUME v > 0 PROVE Len(utoa(v)) < m
  <2> DEFINE K == {k \in 0..m : k = m \/ Quotients(v, 10, m)[k] = 0}
  <2>1. v # 0
    BY <1>1, <1>8
  <2>2. Len(digits(v, 10, m)) = Min(K)
    BY <1>1, <1>6, <2>1, DigitsLoop
  <2>3. n \in K /\ K \in SUBSET Nat
    BY <1>1, <1>5, <1>6
  <2>4. Min(K) <= n /\ Min(K) \in Nat
    BY <2>3, MinIsLeast
  <2> HIDE DEF K
  <2> QED BY <1>1, <2>2, <2>4 DEF utoa, m
<1> QED
  BY <1>7, <1>8 DEF m

\* A sign before the numeral of the magnitude.
LEMMA Negated ==
  ASSUME NEW v \in 0..(U32 - 1), v > 0
  PROVE  itoa(-v) = <<"-">> \o utoa(v)
<1>1. U32 \in Nat \ {0} /\ -v < 0 /\ -(-v) = v /\ v % U32 = v
  BY NumberAssumption
<1>2. Len(utoa(v)) < TMP - 1
  BY NumberFits
<1> QED
  BY <1>1, <1>2 DEF itoa, utoa

\* What a directive writes is text.
LEMMA DirectiveTyped ==
  ASSUME NEW c \in Directives, NEW arg \in Args
  PROVE  directive(c, arg) \in Seq(Characters)
<1>1. arg.int \in 0..(U32 - 1) /\ arg.str \in Seq(STRING) /\ U32 \in Nat \ {0} /\ TMP - 1 \in Nat \ {0}
  BY NumberAssumption DEF Args
<1>2. STRING \subseteq Characters
  BY DEF Characters
<1>3. arg.str \in Seq(Characters)
  BY <1>1, <1>2, SeqMonotonic
<1>4. null \in Seq(Characters)
  BY DEF null, Characters
<1>5. ASSUME NEW v \in Nat, NEW b \in Bases PROVE digits(v, b, TMP - 1) \in Seq(Characters)
  BY <1>1, DigitsLoop
<1>6. 10 \in Bases /\ 16 \in Bases
  BY DEF Bases
<1>7. \A v \in Nat : utoa(v) \in Seq(Characters) /\ uhextoa(v) \in Seq(Characters)
  BY <1>5, <1>6 DEF utoa, uhextoa
<1>8. ASSUME NEW v \in Int PROVE itoa(v) \in Seq(Characters)
  <2> DEFINE a == (IF v < 0 THEN -v ELSE v) % U32
             s == digits(a, 10, TMP - 1)
  <2>1. a \in Nat
    BY <1>1
  <2> HIDE DEF a
  <2>2. s \in Seq(Characters)
    BY <1>5, <1>6, <2>1
  <2> HIDE DEF s
  <2>3. "-" \in Characters
    BY DEF Characters
  <2>4. <<"-">> \in Seq(Characters)
    BY <2>3
  <2>5. <<"-">> \o s \in Seq(Characters)
    BY <2>2, <2>4, ConcatProperties
  <2>6. itoa(v) \in {s, <<"-">> \o s}
    BY DEF itoa, s, a
  <2> QED BY <2>2, <2>5, <2>6
<1>9. (IF arg.int < U32 \div 2 THEN arg.int ELSE arg.int - U32) \in Int /\ arg.int \in Nat
  BY <1>1
<1> QED
  BY <1>3, <1>4, <1>7, <1>8, <1>9 DEF directive, Directives

------------------------------------------------------------------------------
(* The log.                                                                *)

\* What print writes to the port is the numeral and the end of the line.
LEMMA Logged ==
  ASSUME NEW value \in Values
  PROVE  /\ LET s == print(value, FALSE) IN IsNumeral(Front(s), value, 10) /\ Last(s) = "\n"
         /\ LET s == print(value, TRUE) IN
            IsNumeral(SubSeq(s, 3, Len(s) - 1), value, 16) /\ Last(s) = "\n"
<1>1. /\ value \in Nat /\ DEC_BUF - 2 \in Nat \ {0} /\ HEX_DIGITS \in Nat \ {0}
      /\ Quotients(value, 10, DEC_BUF - 2)[DEC_BUF - 2] = 0
      /\ Quotients(value, 16, HEX_DIGITS)[HEX_DIGITS] = 0
  BY NumberAssumption, CallAssumption
<1>2. 10 \in Bases /\ 16 \in Bases /\ {"0", "x", "\n"} \subseteq Characters
  BY DEF Bases, Characters
<1>3. LET s == print(value, FALSE) IN IsNumeral(Front(s), value, 10) /\ Last(s) = "\n"
  <2> DEFINE d == digits(value, 10, DEC_BUF - 2)
             s == d \o <<"\n">>
  <2>1. d \in Seq(Characters) /\ IsNumeral(d, value, 10)
    BY <1>1, <1>2, DigitsLoop
  <2>2. print(value, FALSE) = s
    BY DEF print
  <2> HIDE DEF d
  <2>3. <<"\n">> \in Seq(Characters) /\ Len(<<"\n">>) = 1
    BY <1>2
  <2>4. /\ s \in Seq(Characters) /\ Len(s) = Len(d) + 1 /\ s[Len(d) + 1] = "\n"
        /\ \A i \in 1..Len(d) : s[i] = d[i]
    BY <2>1, <2>3, ConcatProperties
  <2>5. SubSeq(s, 1, Len(d)) = d
    <3> DEFINE t == SubSeq(s, 1, Len(d))
    <3>1. t \in Seq(Characters) /\ Len(t) = Len(d) /\ \A i \in 1..Len(d) : t[i] = s[i]
      <4> HIDE DEF s
      <4> QED BY <2>1, <2>4
    <3> HIDE DEF t, s
    <3>2. t = d
      BY <2>1, <2>4, <3>1, SeqEqual
    <3> QED BY <3>2 DEF t
  <2> HIDE DEF s
  <2>6. Front(s) = d /\ Last(s) = "\n"
    <3>1. Len(s) - 1 = Len(d)
      BY <2>1, <2>4
    <3> QED BY <2>4, <2>5, <3>1 DEF Front, Last
  <2> QED BY <2>1, <2>2, <2>6
<1>4. LET s == print(value, TRUE) IN
      IsNumeral(SubSeq(s, 3, Len(s) - 1), value, 16) /\ Last(s) = "\n"
  <2> DEFINE d == SkipZeroes(Digits(value, 16, HEX_DIGITS))
             h == <<"0", "x">> \o d
             s == h \o <<"\n">>
  <2>1. d \in Seq(Characters) /\ IsNumeral(d, value, 16)
    BY <1>1, <1>2, SkipZeroesIs
  <2>2. print(value, TRUE) = s
    BY DEF print
  <2> HIDE DEF d
  <2>3. /\ <<"\n">> \in Seq(Characters) /\ Len(<<"\n">>) = 1
        /\ <<"0", "x">> \in Seq(Characters) /\ Len(<<"0", "x">>) = 2
    BY <1>2
  <2>7. h \in Seq(Characters) /\ Len(h) = Len(d) + 2 /\ \A i \in 1..Len(d) : h[i + 2] = d[i]
    BY <2>1, <2>3, ConcatProperties
  <2> HIDE DEF h
  <2>4. /\ s \in Seq(Characters) /\ Len(s) = Len(d) + 3 /\ s[Len(d) + 3] = "\n"
        /\ \A i \in 1..Len(d) : s[i + 2] = d[i]
    <3>1. /\ s \in Seq(Characters) /\ Len(s) = Len(h) + 1 /\ s[Len(h) + 1] = "\n"
          /\ \A i \in 1..Len(h) : s[i] = h[i]
      BY <2>3, <2>7, ConcatProperties
    <3> HIDE DEF s
    <3>2. \A i \in 1..Len(d) : i + 2 \in 1..Len(h)
      BY <2>1, <2>7
    <3> QED BY <2>1, <2>7, <3>1, <3>2
  <2> HIDE DEF s
  <2>5. SubSeq(s, 3, Len(d) + 2) = d
    <3> DEFINE t == SubSeq(s, 3, Len(d) + 2)
    <3>1. t \in Seq(Characters) /\ Len(t) = Len(d) /\ \A i \in 1..Len(d) : t[i] = s[i + 2]
      BY <2>1, <2>4, SubSeqProperties
    <3> HIDE DEF t
    <3>2. t = d
      BY <2>1, <2>4, <3>1, SeqEqual
    <3> QED BY <3>2 DEF t
  <2>6. SubSeq(s, 3, Len(s) - 1) = d /\ Last(s) = "\n"
    <3>1. Len(s) - 1 = Len(d) + 2
      BY <2>1, <2>4
    <3> QED BY <2>4, <2>5, <3>1 DEF Last
  <2> QED BY <2>1, <2>2, <2>6
<1> QED
  BY <1>3, <1>4

------------------------------------------------------------------------------
(* Formats.                                                                *)

\* The beginning of a text.
LEMMA CutIs ==
  ASSUME NEW s \in Seq(Characters), NEW n \in Nat
  PROVE  /\ Cut(s, n) \in Seq(Characters)
         /\ Len(Cut(s, n)) = IF n <= Len(s) THEN n ELSE Len(s)
         /\ \A i \in 1..Len(Cut(s, n)) : Cut(s, n)[i] = s[i]
<1> DEFINE m == Min({n, Len(s)})
<1>1. m = IF n <= Len(s) THEN n ELSE Len(s)
  <2>1. {n, Len(s)} \in SUBSET Nat /\ {n, Len(s)} # {}
    OBVIOUS
  <2>2. m \in {n, Len(s)} /\ \A y \in {n, Len(s)} : m <= y
    BY <2>1, MinIsLeast
  <2> HIDE DEF m
  <2> QED BY <2>1, <2>2
<1>2. Cut(s, n) = SubSeq(s, 1, m)
  BY DEF Cut
<1> HIDE DEF m
<1>3. m \in 0..Len(s)
  BY <1>1
<1>4. \A i \in 1..m : s[i] \in Characters
  BY <1>3, ElementOfSeq
<1>5. /\ SubSeq(s, 1, m) \in Seq(Characters)
      /\ Len(SubSeq(s, 1, m)) = IF 1 <= m THEN m - 1 + 1 ELSE 0
      /\ \A i \in 1..(m - 1 + 1) : SubSeq(s, 1, m)[i] = s[1 + i - 1]
  BY <1>3, <1>4, SubSeqProperties
<1>6. Len(SubSeq(s, 1, m)) = m
  BY <1>3, <1>5
<1>7. \A i \in 1..m : SubSeq(s, 1, m)[i] = s[i]
  <2>1. ASSUME NEW i \in 1..m PROVE i \in 1..(m - 1 + 1) /\ 1 + i - 1 = i
    BY <1>3
  <2> QED BY <1>5, <2>1
<1> QED
  BY <1>1, <1>2, <1>5, <1>6, <1>7

\* What was cut off does not come back.
LEMMA CutTwice ==
  ASSUME NEW s \in Seq(Characters), NEW t \in Seq(Characters), NEW n \in Nat
  PROVE  Cut(Cut(s, n) \o t, n) = Cut(s \o t, n)
<1> DEFINE a == Cut(s, n)
           x == Cut(a \o t, n)
           y == Cut(s \o t, n)
<1>1. /\ a \in Seq(Characters) /\ Len(a) = IF n <= Len(s) THEN n ELSE Len(s)
      /\ \A i \in 1..Len(a) : a[i] = s[i]
  BY CutIs
<1> HIDE DEF a
<1>2. /\ a \o t \in Seq(Characters) /\ Len(a \o t) = Len(a) + Len(t)
      /\ \A i \in 1..(Len(a) + Len(t)) : (a \o t)[i] = IF i <= Len(a) THEN a[i] ELSE t[i - Len(a)]
  BY <1>1, ConcatProperties
<1>3. /\ s \o t \in Seq(Characters) /\ Len(s \o t) = Len(s) + Len(t)
      /\ \A i \in 1..(Len(s) + Len(t)) : (s \o t)[i] = IF i <= Len(s) THEN s[i] ELSE t[i - Len(s)]
  BY ConcatProperties
<1>4. /\ x \in Seq(Characters) /\ Len(x) = IF n <= Len(a \o t) THEN n ELSE Len(a \o t)
      /\ \A i \in 1..Len(x) : x[i] = (a \o t)[i]
  BY <1>2, CutIs
<1>5. /\ y \in Seq(Characters) /\ Len(y) = IF n <= Len(s \o t) THEN n ELSE Len(s \o t)
      /\ \A i \in 1..Len(y) : y[i] = (s \o t)[i]
  BY <1>3, CutIs
<1> DEFINE u == a \o t
           w == s \o t
<1> HIDE DEF x, y, u, w
<1>6. Len(s) \in Nat /\ Len(t) \in Nat /\ Len(a) \in Nat
  BY <1>1
<1>7. Len(x) = Len(y)
  BY <1>1, <1>2, <1>3, <1>4, <1>5, <1>6
<1>8. ASSUME NEW i \in 1..Len(x) PROVE x[i] = y[i]
  <2>1. x[i] = u[i] /\ y[i] = w[i]
    BY <1>4, <1>5, <1>7 DEF u, w
  <2>2. i \in 1..(Len(a) + Len(t)) /\ i \in 1..(Len(s) + Len(t)) /\ i <= n
    BY <1>1, <1>2, <1>3, <1>4, <1>5, <1>6, <1>7
  <2>3. /\ u[i] = IF i <= Len(a) THEN a[i] ELSE t[i - Len(a)]
        /\ w[i] = IF i <= Len(s) THEN s[i] ELSE t[i - Len(s)]
    BY <1>2, <1>3, <2>2 DEF u, w
  <2>4. CASE n <= Len(s)
    <3>1. Len(a) = n /\ i <= Len(a) /\ i <= Len(s) /\ i \in 1..Len(a)
      BY <1>1, <1>6, <2>2, <2>4
    <3> QED BY <1>1, <2>1, <2>3, <3>1
  <2>5. CASE ~(n <= Len(s))
    <3>1. Len(a) = Len(s)
      BY <1>1, <2>5
    <3>2. i <= Len(a) => i \in 1..Len(a)
      BY <1>6
    <3> QED BY <1>1, <2>1, <2>3, <3>1, <3>2
  <2> QED BY <2>4, <2>5
<1>9. x = y
  BY <1>4, <1>5, <1>7, <1>8, SeqEqual
<1> QED
  BY <1>9 DEF x, y, a

\* Flattened one piece after the other.
LEMMA FlattenIs ==
  ASSUME NEW s, Len(s) \in Nat \ {0}
  PROVE  \E g : /\ FlattenSeq(s) = g[Len(s)] /\ g[1] = s[1]
                /\ \A k \in 2..Len(s) : g[k] = g[k - 1] \o s[k]
<1> DEFINE n == Len(s)
           F(g, m) == g = [i \in 1..m |-> IF i = 1 THEN s[i] ELSE g[i - 1] \o s[i]]
           S == {k \in 0..n : k = 0 \/ \E g : F(g, k)}
           flat == CHOOSE g : F(g, n)
<1>1. 0 \in S
  OBVIOUS
<1>2. ASSUME NEW k \in 0..(n - 1), k \in S PROVE k + 1 \in S
  <2>1. CASE k = 0
    <3> DEFINE g == [i \in 1..1 |-> s[i]]
    <3>1. F(g, 1)
      OBVIOUS
    <3> HIDE DEF F, g
    <3> QED BY <2>1, <3>1
  <2>2. CASE k # 0
    <3>1. PICK g : F(g, k)
      BY <1>2, <2>2
    <3> DEFINE h == [i \in 1..(k + 1) |-> IF i = k + 1 THEN g[k] \o s[k + 1] ELSE g[i]]
    <3>2. F(h, k + 1)
      <4>1. ASSUME NEW i \in 1..k PROVE g[i] = IF i = 1 THEN s[i] ELSE g[i - 1] \o s[i]
        BY <3>1
      <4>2. k \in Nat /\ k >= 1
        BY <2>2
      <4>3. ASSUME NEW i \in 1..(k + 1) PROVE h[i] = IF i = 1 THEN s[i] ELSE h[i - 1] \o s[i]
        <5>1. CASE i = k + 1
          <6>1. k \in 1..(k + 1) /\ k # k + 1 /\ i - 1 = k /\ i # 1
            BY <4>2, <5>1
          <6>2. h[k] = g[k] /\ h[i] = g[k] \o s[k + 1]
            BY <5>1, <6>1
          <6> HIDE DEF h
          <6> QED BY <5>1, <6>1, <6>2
        <5>2. CASE i # k + 1
          <6>1. i \in 1..k /\ h[i] = g[i]
            BY <4>2, <5>2
          <6>2. i # 1 => h[i - 1] = g[i - 1]
            BY <4>2, <6>1
          <6> QED BY <4>1, <6>1, <6>2
        <5> QED BY <5>1, <5>2
      <4>4. h = [i \in 1..(k + 1) |-> h[i]]
        OBVIOUS
      <4> HIDE DEF h
      <4> QED BY <4>3, <4>4
    <3> HIDE DEF F, h
    <3> QED BY <3>2
  <2> QED BY <2>1, <2>2
<1>3. \E g : F(g, n)
  <2> HIDE DEF F
  <2>1. n \in 0..n /\ n # 0 /\ n \in Nat
    OBVIOUS
  <2> HIDE DEF S, n
  <2>2. n \in S
    BY <1>1, <1>2, <2>1, Upto
  <2> QED BY <2>1, <2>2 DEF S
<1>4. F(flat, n)
  <2> HIDE DEF F
  <2> QED BY <1>3
<1>5. FlattenSeq(s) = flat[n]
  BY DEF FlattenSeq
<1> HIDE DEF flat
<1>6. flat[1] = s[1] /\ \A k \in 2..n : flat[k] = flat[k - 1] \o s[k]
  <2>1. ASSUME NEW k \in 1..n PROVE flat[k] = IF k = 1 THEN s[k] ELSE flat[k - 1] \o s[k]
    BY <1>4
  <2>2. 1 \in 1..n /\ \A k \in 2..n : k \in 1..n /\ k # 1
    OBVIOUS
  <2> HIDE DEF n
  <2> QED BY <2>1, <2>2
<1> QED
  BY <1>5, <1>6

\* Whether a position follows an open '%', from the one before it.
LEMMA DirectiveNext ==
  ASSUME NEW fmt
  PROVE  /\ ~DirectiveAt(fmt, 1)
         /\ \A i \in Nat \ {0} : DirectiveAt(fmt, i + 1) <=> fmt[i] = "%" /\ ~DirectiveAt(fmt, i)
<1> DEFINE Run(j, i) == (\A k \in j..(i - 1) : fmt[k] = "%") /\ (j = 1 \/ fmt[j - 1] # "%")
<1>1. ~DirectiveAt(fmt, 1)
  BY DEF DirectiveAt
<1>2. ASSUME NEW i \in Nat \ {0}
      PROVE  DirectiveAt(fmt, i + 1) <=> fmt[i] = "%" /\ ~DirectiveAt(fmt, i)
  <2>1. \A m \in Nat \ {0} : DirectiveAt(fmt, m) <=> \E j \in 1..(m - 1) : (m - j) % 2 = 1 /\ Run(j, m)
    BY DEF DirectiveAt
  <2>2. CASE fmt[i] # "%"
    <3>1. ASSUME NEW j \in 1..i, Run(j, i + 1) PROVE FALSE
      <4>1. i \in j..((i + 1) - 1)
        OBVIOUS
      <4> QED BY <2>2, <3>1, <4>1
    <3>2. i + 1 \in Nat \ {0} /\ (i + 1) - 1 = i
      OBVIOUS
    <3> HIDE DEF Run
    <3> QED BY <2>1, <2>2, <3>1, <3>2
  <2>3. CASE fmt[i] = "%"
    \* Where the run of '%' begins.
    <3> DEFINE J == {j \in 1..i : \A k \in j..i : fmt[k] = "%"}
               b == Min(J)
    <3>1. J \in SUBSET Nat /\ i \in J
      BY <2>3
    <3>2. b \in J /\ \A y \in J : b <= y
      BY <3>1, MinIsLeast
    <3> HIDE DEF b
    <3>3. Run(b, i + 1)
      <4>1. CASE b = 1
        BY <3>2, <4>1
      <4>2. CASE b # 1
        <5>1. b - 1 \in 1..i /\ b - 1 \notin J
          BY <3>2, <4>2
        <5>2. PICK k \in (b - 1)..i : fmt[k] # "%"
          BY <5>1
        <5>3. k = b - 1
          <6>1. k \notin b..i
            BY <3>2, <5>2
          <6> QED BY <3>2, <5>2, <6>1
        <5> QED BY <3>2, <5>2, <5>3
      <4> QED BY <4>1, <4>2
    <3>4. ASSUME NEW j \in 1..i, Run(j, i + 1) PROVE j = b
      <4>1. j \in J /\ b <= j /\ b \in 1..i
        BY <3>2, <3>4
      <4>2. ASSUME b < j PROVE FALSE
        <5>1. j - 1 \in b..i /\ j # 1
          BY <4>1, <4>2
        <5>2. fmt[j - 1] = "%"
          BY <3>2, <5>1
        <5> QED BY <3>4, <5>1, <5>2
      <4> QED BY <4>1, <4>2
    <3>5. DirectiveAt(fmt, i + 1) <=> (i + 1 - b) % 2 = 1
      <4>1. i + 1 \in Nat \ {0} /\ (i + 1) - 1 = i /\ b \in 1..i
        BY <3>2
      <4> HIDE DEF Run, J
      <4>2. DirectiveAt(fmt, i + 1) <=> \E j \in 1..i : (i + 1 - j) % 2 = 1 /\ Run(j, i + 1)
        BY <2>1, <4>1
      <4> QED BY <3>3, <3>4, <4>1, <4>2
    <3>6. ASSUME NEW j \in 1..(i - 1) PROVE Run(j, i) <=> j = b
      <4>1. Run(j, i) <=> Run(j, i + 1)
        BY <2>3
      <4>2. j \in 1..i
        OBVIOUS
      <4> HIDE DEF Run
      <4> QED BY <3>3, <3>4, <4>1, <4>2
    <3>7. DirectiveAt(fmt, i) <=> b # i /\ (i - b) % 2 = 1
      <4>1. b \in 1..i
        BY <3>2
      <4> HIDE DEF Run, J
      <4>2. DirectiveAt(fmt, i) <=> \E j \in 1..(i - 1) : (i - j) % 2 = 1 /\ Run(j, i)
        BY <2>1
      <4>3. b # i => b \in 1..(i - 1)
        BY <4>1
      <4> QED BY <3>6, <4>1, <4>2, <4>3
    <3>8. (i + 1 - b) % 2 = 1 <=> ~(b # i /\ (i - b) % 2 = 1)
      <4>1. b \in 1..i
        BY <3>2
      <4> DEFINE m == i - b
      <4>2. m \in Nat /\ i + 1 - b = m + 1 /\ (b = i <=> m = 0)
        BY <4>1
      <4> HIDE DEF m
      <4>3. (m + 1) % 2 = 1 <=> m % 2 = 0
        BY <4>2
      <4>4. m % 2 \in {0, 1} /\ 0 % 2 = 0
        BY <4>2
      <4> QED BY <4>2, <4>3, <4>4 DEF m
    <3> QED BY <2>3, <3>5, <3>7, <3>8
  <2> QED BY <2>2, <2>3
<1> QED
  BY <1>1, <1>2

\* The arguments taken, likewise; no position takes one back.
LEMMA TakenNext ==
  ASSUME NEW fmt
  PROVE  /\ Taken(fmt, 0) = 0
         /\ \A i \in Nat : /\ Taken(fmt, i) \in Nat
                           /\ Taken(fmt, i + 1) = IF DirectiveAt(fmt, i + 1) /\ fmt[i + 1] \in Directives
                                                  THEN Taken(fmt, i) + 1 ELSE Taken(fmt, i)
         /\ \A n \in Nat : \A i \in 0..n : Taken(fmt, i) <= Taken(fmt, n)
<1> DEFINE T(i) == {j \in 1..i : DirectiveAt(fmt, j) /\ fmt[j] \in Directives}
<1>1. \A i : Taken(fmt, i) = Cardinality(T(i))
  BY DEF Taken
<1>2. ASSUME NEW i \in Nat PROVE IsFiniteSet(T(i)) /\ Cardinality(T(i)) \in Nat
  <2>1. IsFiniteSet(1..i)
    BY FS_Interval
  <2>2. T(i) \subseteq 1..i
    OBVIOUS
  <2> HIDE DEF T
  <2> QED BY <2>1, <2>2, FS_Subset, FS_CardinalityType
<1>3. T(0) = {}
  OBVIOUS
<1>4. ASSUME NEW i \in Nat
      PROVE  /\ DirectiveAt(fmt, i + 1) /\ fmt[i + 1] \in Directives =>
                  T(i + 1) = T(i) \cup {i + 1} /\ i + 1 \notin T(i)
             /\ ~(DirectiveAt(fmt, i + 1) /\ fmt[i + 1] \in Directives) => T(i + 1) = T(i)
  <2>1. 1..(i + 1) = (1..i) \cup {i + 1} /\ i + 1 \notin 1..i
    OBVIOUS
  <2> QED BY <2>1
<1>5. ASSUME NEW n \in Nat, NEW i \in 0..n PROVE T(i) \subseteq T(n)
  OBVIOUS
<1> HIDE DEF T
<1>6. Taken(fmt, 0) = 0
  BY <1>1, <1>3, FS_EmptySet
<1>7. ASSUME NEW i \in Nat
      PROVE  /\ Taken(fmt, i) \in Nat
             /\ Taken(fmt, i + 1) = IF DirectiveAt(fmt, i + 1) /\ fmt[i + 1] \in Directives
                                    THEN Taken(fmt, i) + 1 ELSE Taken(fmt, i)
  BY <1>1, <1>2, <1>4, FS_AddElement
<1>8. ASSUME NEW n \in Nat, NEW i \in 0..n PROVE Taken(fmt, i) <= Taken(fmt, n)
  BY <1>1, <1>2, <1>5, FS_Subset
<1> QED
  BY <1>6, <1>7, <1>8

\* The states of get_vsf, one from the other.
LEMMA StepsAre ==
  ASSUME NEW fmt, NEW args, Len(fmt) \in Nat
  PROVE  LET st == Steps(fmt, args) IN
         /\ st[0] = [percent |-> FALSE, args |-> args, buffer |-> <<>>]
         /\ \A k \in 1..Len(fmt) : st[k] = step(st[k - 1], fmt[k])
<1> DEFINE n == Len(fmt)
           b == [percent |-> FALSE, args |-> args, buffer |-> <<>>]
           F(g, k) == g = [i \in 0..k |-> IF i = 0 THEN b ELSE step(g[i - 1], fmt[i])]
           S == {k \in 0..n : \E g : F(g, k)}
           st == Steps(fmt, args)
<1> HIDE DEF b
<1>1. 0 \in S
  <2> DEFINE g == [i \in 0..0 |-> b]
  <2>1. F(g, 0)
    OBVIOUS
  <2> HIDE DEF F, g
  <2> QED BY <2>1
<1>2. ASSUME NEW k \in 0..(n - 1), k \in S PROVE k + 1 \in S
  <2>1. PICK g : F(g, k)
    BY <1>2
  <2> DEFINE h == [i \in 0..(k + 1) |-> IF i = k + 1 THEN step(g[k], fmt[k + 1]) ELSE g[i]]
  <2>2. F(h, k + 1)
    <3>1. ASSUME NEW i \in 0..k
          PROVE  g[i] = IF i = 0 THEN b ELSE step(g[i - 1], fmt[i])
      BY <2>1
    <3> QED BY <3>1
  <2> HIDE DEF F, h
  <2> QED BY <2>2
<1>3. \E g : F(g, n)
  <2> HIDE DEF F
  <2>1. n \in Nat /\ n \in 0..n
    OBVIOUS
  <2> HIDE DEF S, n
  <2>2. n \in S
    BY <1>1, <1>2, <2>1, Upto
  <2> QED BY <2>2 DEF S
<1>4. st = CHOOSE g : F(g, n)
  BY DEF Steps, b
<1>5. F(st, n)
  <2> HIDE DEF F, st
  <2> QED BY <1>3, <1>4
<1> HIDE DEF st, n
<1>6. ASSUME NEW k \in 0..n PROVE st[k] = IF k = 0 THEN b ELSE step(st[k - 1], fmt[k])
  BY <1>5
<1>7. 0 \in 0..n /\ \A k \in 1..n : k \in 0..n /\ k # 0
  BY DEF n
<1> QED
  BY <1>6, <1>7 DEF n, st, b

\* One character: a '%', text, a directive, and what else follows a '%'.
LEMMA StepPercent ==
  ASSUME NEW P, P \in BOOLEAN, NEW A, NEW B, NEW c, ~P, c = "%"
  PROVE  step([percent |-> P, args |-> A, buffer |-> B], c)
           = [percent |-> TRUE, args |-> A, buffer |-> B]
<1> DEFINE st == [percent |-> P, args |-> A, buffer |-> B]
<1>1. step(st, c) = [st EXCEPT !.percent = TRUE]
  BY DEF step
<1> QED
  BY <1>1

LEMMA StepText ==
  ASSUME NEW P, P \in BOOLEAN, NEW A, NEW B, NEW c, ~P, c # "%"
  PROVE  step([percent |-> P, args |-> A, buffer |-> B], c)
           = [percent |-> FALSE, args |-> A, buffer |-> put(B, <<c>>)]
<1> DEFINE st == [percent |-> P, args |-> A, buffer |-> B]
<1>1. step(st, c) = [st EXCEPT !.buffer = put(B, <<c>>)]
  BY DEF step
<1>2. P = FALSE
  OBVIOUS
<1> QED
  BY <1>1, <1>2

LEMMA StepDirective ==
  ASSUME NEW P, P, NEW A, NEW B, NEW c \in Directives
  PROVE  step([percent |-> P, args |-> A, buffer |-> B], c)
           = [percent |-> FALSE, args |-> Tail(A), buffer |-> put(B, directive(c, Head(A)))]
BY DEF step

LEMMA StepOther ==
  ASSUME NEW P, P, NEW A, NEW B, NEW c, c \notin Directives
  PROVE  step([percent |-> P, args |-> A, buffer |-> B], c)
           = [percent |-> FALSE, args |-> A, buffer |-> put(B, <<c>>)]
<1> DEFINE st == [percent |-> P, args |-> A, buffer |-> B]
<1>1. step(st, c) = [st EXCEPT !.percent = FALSE, !.buffer = put(B, <<c>>)]
  BY DEF step
<1> QED
  BY <1>1

\* The buffer holds as much of the expanded format as fits.
LEMMA Formatted ==
  ASSUME NEW s \in Strings
  PROVE  /\ get_vsf(s.fmt, s.args) \in Seq(Characters)
         /\ get_vsf(s.fmt, s.args) = Cut(Expanded(s), BUFFER - 1)
<1> DEFINE fmt == s.fmt
           n == Len(fmt)
           st == Steps(fmt, s.args)
           B == BUFFER - 1
           p(i) == IF DirectiveAt(fmt, i)
                   THEN IF fmt[i] \in Directives THEN directive(fmt[i], s.args[Taken(fmt, i)])
                        ELSE <<fmt[i]>>
                   ELSE IF fmt[i] = "%" THEN <<>> ELSE <<fmt[i]>>
           pieces == [i \in DOMAIN fmt |-> p(i)]
<1>1. /\ fmt \in Seq(STRING) /\ n \in Nat /\ DOMAIN fmt = 1..n /\ s.args \in Seq(Args)
      /\ Taken(fmt, n) <= Len(s.args) /\ B \in Nat
  BY NumberAssumption, CallAssumption
<1>2. /\ st[0] = [percent |-> FALSE, args |-> s.args, buffer |-> <<>>]
      /\ \A k \in 1..n : st[k] = step(st[k - 1], fmt[k])
  BY <1>1, StepsAre
<1>3. get_vsf(fmt, s.args) = st[n].buffer
  BY DEF get_vsf
<1>4. Expanded(s) = FlattenSeq(pieces)
  BY DEF Expanded
<1> HIDE DEF st, B, n
<1>5. ASSUME NEW i \in 1..n PROVE fmt[i] \in STRING /\ <<fmt[i]>> \in Seq(Characters)
  <2>1. fmt[i] \in STRING
    BY <1>1, ElementOfSeq DEF n
  <2>2. fmt[i] \in Characters
    BY <2>1 DEF Characters
  <2> QED BY <2>1, <2>2
<1>6. ASSUME NEW i \in 1..n, DirectiveAt(fmt, i), fmt[i] \in Directives
      PROVE  /\ Taken(fmt, i) = Taken(fmt, i - 1) + 1 /\ Taken(fmt, i) \in 1..Len(s.args)
             /\ s.args[Taken(fmt, i)] \in Args
  <2> DEFINE j == i - 1
  <2>1. j \in Nat /\ j + 1 = i /\ i \in 0..n
    BY <1>1
  <2> HIDE DEF j
  <2>2. Taken(fmt, i) = Taken(fmt, j) + 1 /\ Taken(fmt, j) \in Nat
    BY <1>6, <2>1, TakenNext
  <2>3. Taken(fmt, i) <= Taken(fmt, n) /\ Taken(fmt, n) \in Nat
    BY <1>1, <2>1, TakenNext
  <2>4. Taken(fmt, i) \in 1..Len(s.args)
    BY <1>1, <2>2, <2>3
  <2> QED BY <1>1, <2>2, <2>4, ElementOfSeq DEF j
<1>7. \A i \in 1..n : p(i) \in Seq(Characters)
  BY <1>5, <1>6, DirectiveTyped
<1>8. /\ \A i \in 1..n : pieces[i] = p(i)
      /\ Len(pieces) = n
  <2>1. pieces \in [1..n -> Seq(Characters)]
    BY <1>1, <1>7
  <2> HIDE DEF p
  <2> QED BY <1>1, <2>1
<1> HIDE DEF pieces
<1>9. PICK g : n # 0 => /\ FlattenSeq(pieces) = g[n] /\ g[1] = p(1)
                        /\ \A k \in 2..n : g[k] = g[k - 1] \o p(k)
  <2>1. CASE n = 0
    BY <2>1
  <2>2. CASE n # 0
    <3>1. Len(pieces) \in Nat \ {0}
      BY <1>1, <1>8, <2>2
    <3>2. PICK g : /\ FlattenSeq(pieces) = g[Len(pieces)] /\ g[1] = pieces[1]
                   /\ \A k \in 2..Len(pieces) : g[k] = g[k - 1] \o pieces[k]
      BY <3>1, FlattenIs
    <3>3. 1 \in 1..n /\ \A k \in 2..n : k \in 1..n
      BY <1>1, <2>2
    <3> HIDE DEF p
    <3>4. g[1] = p(1) /\ \A k \in 2..n : g[k] = g[k - 1] \o p(k)
      BY <1>8, <3>2, <3>3
    <3> QED BY <1>8, <3>2, <3>4
  <2> QED BY <2>1, <2>2
<1> DEFINE G(k) == IF k = 0 THEN <<>> ELSE g[k]
           Rest(k) == SubSeq(s.args, Taken(fmt, k) + 1, Len(s.args))
           S == {k \in 0..n : /\ G(k) \in Seq(Characters) /\ st[k].buffer = Cut(G(k), B)
                              /\ st[k].args = Rest(k)
                              /\ st[k] = [percent |-> st[k].percent, args |-> st[k].args,
                                          buffer |-> st[k].buffer]
                              /\ st[k].percent \in BOOLEAN
                              /\ st[k].percent <=> DirectiveAt(fmt, k + 1)}
<1>10. \A k \in 1..n : G(k - 1) \in Seq(Characters) => G(k) = G(k - 1) \o p(k)
  <2> HIDE DEF p
  <2>1. CASE n = 0
    BY <2>1
  <2>2. CASE n # 0
    <3>1. ASSUME NEW k \in 1..n, k = 1 PROVE G(k) = G(k - 1) \o p(k)
      <4>1. G(k) = p(1) /\ G(k - 1) = <<>> /\ p(1) \in Seq(Characters)
        BY <1>7, <1>9, <2>2, <3>1
      <4> QED BY <3>1, <4>1, ConcatEmptySeq
    <3>2. ASSUME NEW k \in 1..n, k # 1 PROVE G(k) = G(k - 1) \o p(k)
      BY <1>1, <1>9, <2>2, <3>2
    <3> QED BY <3>1, <3>2
  <2> QED BY <2>1, <2>2
<1>11. 0 \in S
  <2>1. Cut(<<>>, B) = <<>> /\ <<>> \in Seq(Characters)
    <3> DEFINE e == <<>>
    <3>1. e \in Seq(Characters) /\ Len(e) = 0
      BY EmptySeq
    <3> HIDE DEF e
    <3>2. Cut(e, B) \in Seq(Characters) /\ Len(Cut(e, B)) = IF B <= 0 THEN B ELSE 0
      BY <1>1, <3>1, CutIs
    <3>3. Len(Cut(e, B)) = 0
      BY <1>1, <3>2
    <3> QED BY <3>1, <3>2, <3>3, EmptySeq DEF e
  <2>2. Rest(0) = s.args
    <3>1. Taken(fmt, 0) + 1 = 1
      BY TakenNext
    <3> QED BY <1>1, <3>1, SubSeqFull
  <2>3. ~DirectiveAt(fmt, 0 + 1)
    BY DirectiveNext
  <2> HIDE DEF Rest
  <2>4. st[0].percent = FALSE /\ st[0].args = s.args /\ st[0].buffer = <<>>
    BY <1>2
  <2>5. st[0] = [percent |-> st[0].percent, args |-> st[0].args, buffer |-> st[0].buffer]
    BY <1>2, <2>4
  <2>6. G(0) = <<>> /\ 0 \in 0..n
    BY <1>1
  <2>7. st[0].percent \in BOOLEAN /\ (st[0].percent <=> DirectiveAt(fmt, 0 + 1))
    BY <2>3, <2>4
  <2> HIDE DEF G
  <2> QED BY <2>1, <2>2, <2>4, <2>5, <2>6, <2>7
<1> HIDE DEF G, p
<1>12. ASSUME NEW k \in 0..(n - 1), k \in S PROVE k + 1 \in S
  <2> DEFINE i == k + 1
             c == fmt[i]
             P == st[k].percent
             A == st[k].args
             b == st[k].buffer
             t == st[i]
  <2>1. i \in 1..n /\ i \in 0..n /\ i \in Nat \ {0} /\ i - 1 = k /\ k \in Nat
    BY <1>1
  <2>2. /\ G(k) \in Seq(Characters) /\ b = Cut(G(k), B) /\ A = Rest(k)
        /\ st[k] = [percent |-> P, args |-> A, buffer |-> b] /\ P \in BOOLEAN
        /\ P <=> DirectiveAt(fmt, i)
    BY <1>12
  <2> HIDE DEF i
  <2>3. t = step(st[k], c)
    BY <1>2, <2>1
  <2> HIDE DEF P, A, b, t, c
  <2>4. t = step([percent |-> P, args |-> A, buffer |-> b], c)
    BY <2>2, <2>3
  <2>5. /\ t = [percent |-> t.percent, args |-> t.args, buffer |-> t.buffer]
        /\ t.percent \in BOOLEAN /\ (t.percent <=> ~P /\ c = "%")
        /\ t.args = IF P /\ c \in Directives THEN Tail(A) ELSE A
        /\ t.buffer = IF P THEN put(b, IF c \in Directives THEN directive(c, Head(A)) ELSE <<c>>)
                      ELSE IF c = "%" THEN b ELSE put(b, <<c>>)
    <3> DEFINE R(Q, X, y) == [percent |-> Q, args |-> X, buffer |-> y]
    <3>1. P \in BOOLEAN
      BY <2>2
    <3>2. CASE ~P /\ c = "%"
      <4>1. t = R(TRUE, A, b)
        BY <2>4, <3>1, <3>2, StepPercent
      <4>2. t.percent = TRUE /\ t.args = A /\ t.buffer = b
        BY <4>1
      <4> QED BY <3>2, <4>1, <4>2
    <3>3. CASE ~P /\ c # "%"
      <4>1. t = R(FALSE, A, put(b, <<c>>))
        BY <2>4, <3>1, <3>3, StepText
      <4>2. t.percent = FALSE /\ t.args = A /\ t.buffer = put(b, <<c>>)
        BY <4>1
      <4> QED BY <3>3, <4>1, <4>2
    <3>4. CASE P /\ c \in Directives
      <4>1. t = R(FALSE, Tail(A), put(b, directive(c, Head(A))))
        BY <2>4, <3>1, <3>4, StepDirective
      <4>2. t.percent = FALSE /\ t.args = Tail(A) /\ t.buffer = put(b, directive(c, Head(A)))
        BY <4>1
      <4> QED BY <3>4, <4>1, <4>2
    <3>5. CASE P /\ c \notin Directives
      <4>1. t = R(FALSE, A, put(b, <<c>>))
        BY <2>4, <3>1, <3>5, StepOther
      <4>2. t.percent = FALSE /\ t.args = A /\ t.buffer = put(b, <<c>>)
        BY <4>1
      <4> QED BY <3>5, <4>1, <4>2
    <3> QED BY <3>2, <3>3, <3>4, <3>5
  <2>6. G(i) = G(k) \o p(i) /\ p(i) \in Seq(Characters)
    BY <1>7, <1>10, <2>1, <2>2
  <2>7. G(i) \in Seq(Characters)
    BY <2>2, <2>6, ConcatProperties
  <2>8. t.percent <=> DirectiveAt(fmt, i + 1)
    BY <2>1, <2>2, <2>5, DirectiveNext DEF c
  <2>9. Taken(fmt, i) = IF P /\ c \in Directives THEN Taken(fmt, k) + 1 ELSE Taken(fmt, k)
    BY <2>1, <2>2, TakenNext DEF c, i
  <2>10. ASSUME P, c \in Directives
         PROVE  Head(A) = s.args[Taken(fmt, i)] /\ Tail(A) = Rest(i)
    <3>1. /\ Taken(fmt, i) = Taken(fmt, k) + 1 /\ Taken(fmt, i) \in 1..Len(s.args)
      BY <1>6, <2>1, <2>2, <2>10 DEF c
    <3> DEFINE a == Taken(fmt, k) + 1
    <3>2. a \in 1..Len(s.args) /\ a = Taken(fmt, i) /\ Len(s.args) \in a..Len(s.args)
      BY <1>1, <3>1
    <3>3. A = SubSeq(s.args, a, Len(s.args)) /\ Rest(i) = SubSeq(s.args, a + 1, Len(s.args))
      BY <2>2, <3>2
    <3> HIDE DEF a, Rest
    <3> QED BY <1>1, <3>2, <3>3, HeadTailOfSubSeq
  <2>11. t.args = Rest(i)
    BY <2>2, <2>5, <2>9, <2>10
  <2>12. ASSUME NEW x \in Seq(Characters) PROVE put(b, x) = Cut(G(k) \o x, B)
    BY <1>1, <2>2, CutTwice DEF put, B
  <2>13. t.buffer = Cut(G(i), B)
    <3>1. CASE P
      <4>1. p(i) = IF c \in Directives THEN directive(c, Head(A)) ELSE <<c>>
        BY <2>2, <2>10, <3>1 DEF p, c
      <4> QED BY <2>5, <2>6, <2>12, <3>1, <4>1
    <3>2. CASE ~P /\ c = "%"
      <4>1. p(i) = <<>>
        BY <2>2, <3>2 DEF p, c
      <4>2. G(i) = G(k)
        BY <2>2, <2>6, <4>1, ConcatEmptySeq
      <4> QED BY <2>2, <2>5, <3>2, <4>2
    <3>3. CASE ~P /\ c # "%"
      <4>1. p(i) = <<c>>
        BY <2>2, <3>3 DEF p, c
      <4> QED BY <2>5, <2>6, <2>12, <3>3, <4>1
    <3> QED BY <3>1, <3>2, <3>3
  <2> HIDE DEF Rest
  <2>14. i \in S
    BY <2>1, <2>5, <2>7, <2>8, <2>11, <2>13 DEF t
  <2> QED BY <2>14 DEF i
<1>13. n \in S
  <2> HIDE DEF S
  <2>1. \A k \in 0..n : k \in S
    BY <1>1, <1>11, <1>12, Upto
  <2> QED BY <1>1, <2>1
<1>14. FlattenSeq(pieces) = G(n)
  <2>1. CASE n = 0
    <3>1. pieces = <<>>
      <4>1. pieces \in [1..n -> Seq(Characters)]
        BY <1>1, <1>7 DEF pieces
      <4>2. pieces \in Seq(Seq(Characters))
        BY <1>1, <4>1
      <4> QED BY <1>8, <2>1, <4>2, EmptySeq
    <3> QED BY <1>8, <2>1, <3>1 DEF FlattenSeq, G
  <2>2. CASE n # 0
    BY <1>9, <2>2 DEF G
  <2> QED BY <2>1, <2>2
<1>15. st[n].buffer = Cut(G(n), B) /\ G(n) \in Seq(Characters)
  <2> HIDE DEF Rest
  <2> QED BY <1>13
<1>16. Cut(G(n), B) \in Seq(Characters)
  BY <1>1, <1>15, CutIs
<1> QED
  BY <1>3, <1>4, <1>14, <1>15, <1>16 DEF B

------------------------------------------------------------------------------
(* The theorems.                                                           *)

\* What was formatted last, and what of it.
SaidInv ==
  \/ said = <<>>
  \/ \E s \in Strings : said = <<"vsf", s, get_vsf(s.fmt, s.args)>>
  \/ \E v \in Values : said = <<"dec", v, print(v, FALSE)>> \/ said = <<"hex", v, print(v, TRUE)>>

LEMMA SaidStep == SaidInv /\ [Next]_vars => SaidInv'
<1> SUFFICES ASSUME SaidInv, [Next]_vars PROVE SaidInv'
  OBVIOUS
<1>1. ASSUME UNCHANGED said PROVE SaidInv'
  BY <1>1 DEF SaidInv
<1>2. CASE Draw
  <2>1. ASSUME NEW p \in Points, NEW c \in Colors,
               \/ draw_pixel(p, c)
               \/ \E s \in Sizes : draw_box(p, s, c)
               \/ \E s \in Scales : \E ch \in DOMAIN Font : draw_char(p, s, c, ch)
        PROVE  SaidInv'
    <3>1. said' = <<>>
      BY <2>1 DEF draw_pixel, draw_box, draw_char
    <3> QED BY <3>1 DEF SaidInv
  <2>2. ASSUME NEW p \in Points, NEW c \in Colors, NEW s \in Scales, NEW t \in Strings,
               draw_string_f(p, s, c, t)
        PROVE  SaidInv'
    <3>1. said' = <<"vsf", t, get_vsf(t.fmt, t.args)>> \/ said' = <<>>
      BY <2>2 DEF draw_string_f
    <3> QED BY <3>1 DEF SaidInv
  <2>3. ASSUME NEW v \in Values, NEW hex \in BOOLEAN, log(v, hex) PROVE SaidInv'
    <3>1. said' = <<IF hex THEN "hex" ELSE "dec", v, print(v, hex)>>
      BY <2>3 DEF log
    <3>2. CASE hex = TRUE
      <4>1. said' = <<"hex", v, print(v, TRUE)>>
        BY <3>1, <3>2
      <4> QED BY <4>1 DEF SaidInv
    <3>3. CASE hex = FALSE
      <4>1. said' = <<"dec", v, print(v, FALSE)>>
        BY <3>1, <3>3
      <4> QED BY <4>1 DEF SaidInv
    <3> QED BY <3>2, <3>3
  <2> QED BY <1>2, <2>1, <2>2, <2>3 DEF Draw
<1>3. CASE ~Draw
  <2>1. UNCHANGED said
    BY <1>3 DEF Next, InitializeGraphics, choose_mode, GetDisplayMode, GetDisplayMode_fails, init,
                clear, vmm_init, switchHigherHalf, Stopped, vars, kernelVars
  <2> QED BY <1>1, <2>1
<1> QED
  BY <1>2, <1>3

LEMMA SaidFaithful == SaidInv => TextFaithful
<1>1. CASE said = <<>>
  BY <1>1 DEF TextFaithful
<1>2. ASSUME NEW s \in Strings, said = <<"vsf", s, get_vsf(s.fmt, s.args)>> PROVE TextFaithful
  <2>1. get_vsf(s.fmt, s.args) = Cut(Expanded(s), BUFFER - 1)
    BY Formatted
  <2>2. ASSUME NEW a \in Range(s.args)
        PROVE  /\ IsNumeral(utoa(a.int), a.int, 10) /\ IsNumeral(uhextoa(a.int), a.int, 16)
               /\ a.int > 0 => itoa(-a.int) = <<"-">> \o utoa(a.int)
    <3>1. s.args \in Seq(Args)
      BY CallAssumption
    <3>2. PICK i \in DOMAIN s.args : a = s.args[i]
      BY DEF Range
    <3>3. i \in 1..Len(s.args)
      BY <3>1, <3>2
    <3>4. a \in Args
      BY <3>1, <3>2, <3>3, ElementOfSeq
    <3>5. a.int \in 0..(U32 - 1)
      BY <3>4 DEF Args
    <3> DEFINE v == a.int
    <3> HIDE DEF v
    <3>6. v \in 0..(U32 - 1)
      BY <3>5 DEF v
    <3>7. IsNumeral(utoa(v), v, 10) /\ IsNumeral(uhextoa(v), v, 16)
      BY <3>6, NumberFits
    <3>8. v > 0 => itoa(-v) = <<"-">> \o utoa(v)
      BY <3>6, Negated
    <3> QED BY <3>7, <3>8 DEF v
  <2>3. said[1] = "vsf" /\ said[2] = s /\ said[3] = get_vsf(s.fmt, s.args)
    BY <1>2
  <2> QED BY <2>1, <2>2, <2>3 DEF TextFaithful
<1>3. ASSUME NEW v \in Values, said = <<"dec", v, print(v, FALSE)>> PROVE TextFaithful
  <2>1. said[1] = "dec" /\ said[2] = v /\ said[3] = print(v, FALSE)
    BY <1>3
  <2>2. IsNumeral(Front(said[3]), said[2], 10) /\ Last(said[3]) = "\n"
    BY <2>1, Logged
  <2> QED BY <2>1, <2>2 DEF TextFaithful
<1>4. ASSUME NEW v \in Values, said = <<"hex", v, print(v, TRUE)>> PROVE TextFaithful
  <2>1. said[1] = "hex" /\ said[2] = v /\ said[3] = print(v, TRUE)
    BY <1>4
  <2>2. IsNumeral(SubSeq(said[3], 3, Len(said[3]) - 1), said[2], 16) /\ Last(said[3]) = "\n"
    BY <2>1, Logged
  <2> QED BY <2>1, <2>2 DEF TextFaithful
<1> QED
  BY <1>1, <1>2, <1>3, <1>4 DEF SaidInv

\* What get_vsf (DirectFrameWriter.cpp:214-285) leaves in its buffer is the format with every
\* directive replaced by its argument, cut one byte before the end: for every format and list
\* of arguments, every size of tmp and buffer that holds a numeral.  The numerals are those of
\* the numbers, the sign included, and so are those debug::print sends to the port.
THEOREM TextAsAsked == Spec => []TextFaithful
<1>1. Init => SaidInv
  BY DEF Init, SaidInv
<1> QED
  BY <1>1, SaidStep, SaidFaithful, PTL DEF Spec

\* Nothing to be seen before the writer is initialised.
LEMMA NoPictureYet == ~g_init => Picture = <<>>
BY DEF Picture

\* The picture is a function of these.
LEMMA PictureSame == UNCHANGED <<display, mode, g_init, memory>> => UNCHANGED Picture
BY DEF Picture, Seen, Mode

LEMMA NotFourBytes ==
  UNCHANGED <<display, mode, g_init>> /\ ~FourBytes => UNCHANGED Picture
BY DEF Picture, FourBytes, Mode

LEMMA Starts ==
  ASSUME ModeInv, FrameInv, init
  PROVE  TheCanvas!Start \/ UNCHANGED Picture
<1>1. /\ pc = "init" /\ ~g_init /\ g_init' /\ UNCHANGED <<display, mode, memory>>
  BY DEF init, loaderVars
<1>2. Picture = <<>>
  BY <1>1, NoPictureYet
<1>3. CASE PixelBytes(Mode(mode).format) # 4
  <2>1. Picture' = <<>>
    BY <1>1, <1>3 DEF Picture, Mode
  <2> QED BY <1>2, <2>1
<1>4. CASE PixelBytes(Mode(mode).format) = 4
  <2> DEFINE w == Mode(mode).width
             h == Mode(mode).height
             l == Mode(mode).pixelsPerScanLine
  <2>1. w \in Nat /\ h \in Nat /\ l \in Nat /\ w <= l
    BY ModeFits
  <2>2. w \in Sides /\ h \in Sides
    <3>1. mode + 1 \in 1..Len(display.modes) /\ display \in Displays
      BY DisplayAssumption DEF ModeInv
    <3> QED BY <3>1, DisplayAssumption DEF Mode
  <2>3. DOMAIN memory = 0..(l * h * 4 - 1) /\ \A o \in DOMAIN memory : memory[o] = 0
    BY <1>1, <1>4 DEF FrameInv, Chosen, BufferSize
  <2>4. Picture' = [p \in (0..(w - 1)) \X (0..(h - 1)) |-> Seen(p)']
    BY <1>1, <1>4 DEF Picture, Mode
  <2>5. ASSUME NEW p \in (0..(w - 1)) \X (0..(h - 1)) PROVE Seen(p)' = TheCanvas!Black
    <3> DEFINE i == (p[2] * l + p[1]) * 4
               z == l * h * 4
    <3>1. i \in Nat /\ i + 3 <= z - 1
      BY <2>1, PixelFits
    <3>2. z \in Int /\ DOMAIN memory = 0..(z - 1)
      BY <2>1, <2>3
    <3>3. Seen(p)' = IF Mode(mode).format = BGR
                     THEN [red |-> memory[i + 2], green |-> memory[i + 1], blue |-> memory[i + 0]]
                     ELSE [red |-> memory[i + 0], green |-> memory[i + 1], blue |-> memory[i + 2]]
      BY <1>1 DEF Seen, Mode
    <3>4. \A o \in 0..(z - 1) : memory[o] = 0
      BY <2>3
    <3> HIDE DEF i, z
    <3>5. memory[i + 0] = 0 /\ memory[i + 1] = 0 /\ memory[i + 2] = 0
      BY <3>1, <3>2, <3>4
    <3> QED BY <3>3, <3>5 DEF TheCanvas!Black
  <2> HIDE DEF w, h
  <2>6. Picture' \in [(0..(w - 1)) \X (0..(h - 1)) -> Colors \cup {TheCanvas!Black}]
    BY <2>4, <2>5
  <2> QED BY <1>2, <2>2, <2>6 DEF TheCanvas!Start, TheCanvas!NoPicture
<1> QED
  BY <1>3, <1>4

LEMMA Clears ==
  ASSUME ModeInv, FrameInv, clear
  PROVE  TheCanvas!Clear \/ UNCHANGED Picture
<1> DEFINE f == [o \in 0..(g_fb_info.frameBufferSize - 1) |-> 0]
<1>1. /\ pc = "clear" /\ UNCHANGED <<display, mode, g_init>> /\ Store(f, "clear")
  BY DEF clear, loaderVars
<1>2. CASE ~FourBytes
  BY <1>1, <1>2, NotFourBytes
<1>3. CASE FourBytes
  <2> DEFINE w == Mode(mode).width
             h == Mode(mode).height
             l == Mode(mode).pixelsPerScanLine
             z == l * h * 4
  <2>1. w \in Nat /\ h \in Nat /\ l \in Nat /\ w <= l
    BY ModeFits
  <2>2. /\ g_fb_info.frameBufferSize = z /\ DOMAIN memory = 0..(z - 1)
        /\ g_fb_info.frameBufferBase \in Mapped
    BY <1>3, KernelFields DEF FourBytes, BufferSize
  <2>3. \A o \in 0..(z - 1) : memory'[o] = 0
    BY <1>1, <2>2 DEF Store
  <2>4. ASSUME NEW p \in Frame PROVE Seen(p)' = TheCanvas!Black
    <3> DEFINE i == (p[2] * l + p[1]) * 4
    <3>1. i \in Nat /\ i + 3 <= z - 1
      BY <2>1, PixelFits DEF Frame
    <3>2. z \in Int
      BY <2>1
    <3>3. Seen(p)' = IF Mode(mode).format = BGR
                     THEN [red |-> memory'[i + 2], green |-> memory'[i + 1], blue |-> memory'[i + 0]]
                     ELSE [red |-> memory'[i + 0], green |-> memory'[i + 1], blue |-> memory'[i + 2]]
      BY <1>1 DEF Seen, Mode
    <3> HIDE DEF i, z
    <3>4. memory'[i + 0] = 0 /\ memory'[i + 1] = 0 /\ memory'[i + 2] = 0
      BY <2>3, <3>1, <3>2
    <3> QED BY <3>3, <3>4 DEF TheCanvas!Black
  <2>5. Picture = [p \in Frame |-> Seen(p)] /\ Picture' = [p \in Frame |-> Seen(p)']
    BY <1>1, <1>3, PictureIs DEF Picture, FourBytes, Frame, Mode
  <2>6. Picture' = [p \in DOMAIN Picture |-> IF p \in DOMAIN Picture THEN TheCanvas!Black
                                             ELSE Picture[p]]
    BY <2>4, <2>5
  <2> QED BY <2>6 DEF TheCanvas!Clear, TheCanvas!Paint
<1> QED
  BY <1>2, <1>3

\* Every call paints what the canvas paints.
LEMMA Draws ==
  ASSUME ModeInv, FrameInv, Draw
  PROVE  TheCanvas!Next \/ UNCHANGED Picture
<1> DEFINE Texts == {get_vsf(s.fmt, s.args) : s \in Strings} \cup {<<c>> : c \in DOMAIN Font}
<1>1. UNCHANGED <<display, mode, g_init>>
  BY DEF Draw, draw_pixel, draw_box, draw_char, draw_string_f, log, Call, loaderVars
<1>2. CASE ~FourBytes
  BY <1>1, <1>2, NotFourBytes
<1>3. CASE FourBytes
  <2>1. ASSUME NEW p \in Points, NEW c \in Colors, draw_pixel(p, c) PROVE TheCanvas!Dot(p, c)
    <3>1. Store(Bytes({q \in {p} : g_init /\ InFrame(q)}, c), "draw_pixel")
      BY <2>1 DEF draw_pixel
    <3>2. TheCanvas!Paint({p}, c)
      BY <1>1, <1>3, <3>1, PaintsFrame
    <3> QED BY <3>2 DEF TheCanvas!Dot
  <2>2. ASSUME NEW p \in Points, NEW c \in Colors, NEW s \in Sizes, draw_box(p, s, c)
        PROVE  TheCanvas!Box(p, s, c) \/ UNCHANGED Picture
    BY <1>3, <2>2, BoxPaints
  <2>3. ASSUME NEW p \in Points, NEW c \in Colors, NEW s \in Scales, NEW ch \in DOMAIN Font,
               draw_char(p, s, c, ch)
        PROVE  \E t \in Texts : TheCanvas!Write(p, s, c, t)
    <3>1. TheCanvas!Write(p, s, c, <<ch>>)
      BY <1>3, <2>3, CharPaints
    <3> QED BY <3>1
  <2>4. ASSUME NEW p \in Points, NEW c \in Colors, NEW s \in Scales, NEW str \in Strings,
               draw_string_f(p, s, c, str)
        PROVE  \E t \in Texts : TheCanvas!Write(p, s, c, t)
    <3> DEFINE text == get_vsf(str.fmt, str.args)
    <3>1. text \in Seq(Characters)
      BY Formatted
    <3>2. DOMAIN text = 1..Len(text) /\ Len(text) \in Nat
      <4> HIDE DEF text
      <4> QED BY <3>1
    <3>3. TheCanvas!Write(p, s, c, text)
      BY <1>3, <2>4, <3>2, StringPaints
    <3> QED BY <3>3
  <2>5. ASSUME NEW v \in Values, NEW hex \in BOOLEAN, log(v, hex) PROVE UNCHANGED Picture
    BY <1>1, <2>5, PictureSame DEF log
  <2>6. \/ \E p \in Points, c \in Colors :
             \/ TheCanvas!Dot(p, c)
             \/ \E s \in Sizes : TheCanvas!Box(p, s, c)
             \/ \E s \in Scales : \E t \in Texts : TheCanvas!Write(p, s, c, t)
        \/ UNCHANGED Picture
    <3> HIDE DEF Texts
    <3> QED BY <2>1, <2>2, <2>3, <2>4, <2>5 DEF Draw
  <2> QED BY <2>6 DEF TheCanvas!Next
<1> QED
  BY <1>2, <1>3

\* What the calls put into the frame buffer, byte by byte and line by line at whatever pitch and
\* order of colours, is what they promise of the picture, for every display, font, scale and
\* text: a box that leaves the picture is not begun (DirectFrameWriter.cpp:82-88), glyphs and text
\* are cut off at its edges, coordinates wrap, and the change of address is not to be seen.
THEOREM CanvasImplemented == Spec => ImplementsCanvas
<1>1. Init => TheCanvas!Init
  BY NoPictureYet DEF Init, TheCanvas!Init, TheCanvas!NoPicture
<1>2. ASSUME IInv, IInv', [Next]_vars PROVE [TheCanvas!Next]_Picture
  <2>1. CASE Draw
    BY <1>2, <2>1, Draws DEF IInv
  <2>2. CASE init
    BY <1>2, <2>2, Starts DEF IInv, TheCanvas!Next
  <2>3. CASE clear
    BY <1>2, <2>3, Clears DEF IInv, TheCanvas!Next
  <2>4. CASE InitializeGraphics \/ GetDisplayMode_fails \/ vmm_init \/ switchHigherHalf \/ Stopped
             \/ UNCHANGED vars
    <3>1. UNCHANGED <<display, mode, g_init, memory>>
      BY <2>4 DEF InitializeGraphics, GetDisplayMode_fails, vmm_init, switchHigherHalf, Stopped,
                  vars, loaderVars, kernelVars
    <3> QED BY <3>1, PictureSame
  <2>5. CASE choose_mode \/ GetDisplayMode
    <3>1. ~g_init /\ ~g_init'
      <4>1. pc \in {"GetNativeDisplayInfo", "GetDisplayMode"} /\ UNCHANGED g_init
        BY <2>5 DEF choose_mode, GetDisplayMode, kernelVars
      <4> QED BY <1>2, <4>1 DEF IInv, FrameInv
    <3> QED BY <3>1 DEF Picture
  <2> QED BY <1>2, <2>1, <2>2, <2>3, <2>4, <2>5 DEF Next
<1> QED
  BY <1>1, <1>2, Inductive, PTL DEF Spec, ImplementsCanvas, TheCanvas!Spec

==============================================================================
