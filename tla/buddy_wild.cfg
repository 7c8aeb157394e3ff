CONSTANTS
  PFRAME_MAX_ORDER = 2
  PFRAME_MAX_REGIONS = 2
  Ranges <- WildRanges
  RangePages = {2, 3}
  Calls = {"kbud_alloc", "kbud_alloc_range", "kbud_free", "kbud_free_range"}
SPECIFICATION Spec
INVARIANTS TableSorted BitImpliesFree
PROPERTY CallReturns
CHECK_DEADLOCK FALSE
