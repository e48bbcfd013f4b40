SPECIFICATION Spec
CONSTANTS
  Displays <- MCDisplays
  U32 = 256
  U64 = 16
  TMP = 5
  BUFFER = 8
  DEC_BUF = 7
  HEX_DIGITS = 4
  GLYPH = 2
  Font <- MCFont
  Colors <- MCColors
  Sides = {2, 3}
  Points <- MCPoints
  Sizes <- MCSizes
  Scales <- MCScales
  Strings <- MCStrings
  Values <- MCValues
  BASE = 1000
  HIGHER_HALF_OFFSET = 5000
  MaxCalls = 2
INVARIANTS
  WritesInFrameBuffer
  ModeIsPreferred
  TextFaithful
PROPERTY
  ImplementsCanvas
