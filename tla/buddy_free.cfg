CONSTANTS
  PFRAME_MAX_ORDER = 3
  PFRAME_MAX_REGIONS = 4
  Ranges <- AlignedRanges
  RangePages = {}
  Calls = {"kbud_alloc", "kbud_free"}
SPECIFICATION Spec
INVARIANTS Inv NoOverlap InBounds NoListCorruption AllocComplete NoLeak Restores
PROPERTIES CallReturns KeepsPromise
