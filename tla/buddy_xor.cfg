CONSTANTS
  PFRAME_MAX_ORDER = 3
  PFRAME_MAX_REGIONS = 4
  Ranges <- OddRanges
  RangePages = {}
  Calls = {"kbud_alloc", "kbud_free"}
SPECIFICATION Spec
INVARIANT NoOverlap
CHECK_DEADLOCK FALSE
