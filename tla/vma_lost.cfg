CONSTANTS
  Nodes = {0, 1, 2, 3}
  NULL = NULL
  RegionLen = 4
  Sizes = {1}
  Calls = {"vma_insert", "vma_free_area"}
  AnyFree = TRUE
SPECIFICATION Spec
INVARIANT TreeHoldsAreas
CHECK_DEADLOCK FALSE
