CONSTANTS
  Framebuffers <- TwoScreens
  cell_h = 2
  x_advance = 2
  KCONSOLE_TABSTOP = 2
  BytesPerPixel = 4
  U32_MAX = 31
  Glyphs <- AllGlyphs
  IDT_ENTRIES = 32
  Selectors = {8, 24}
  Faults = {14, 17}
  Greeting <- TwoLines
  Booted <- OneGlyph
  StackFrames = 2
SPECIFICATION Spec
INVARIANTS CharWhole FrameRight PanicShows NothingStale
PROPERTY PanicEnds
