CONSTANTS
  Framebuffers <- TwoScreens
  cell_h = 2
  x_advance = 2
  KCONSOLE_TABSTOP = 2
  BytesPerPixel = 4
  U32_MAX = 31
  Glyphs = {"a"}
  RollLines = 4
SPECIFICATION Spec
INVARIANTS CursorInside ScreenIsTail LinesWhole
