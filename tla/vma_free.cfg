CONSTANTS
  Nodes = {0, 1, 2, 3, 4, 5, 6, 7}
  NULL = NULL
  RegionLen = 8
  Sizes = {1, 2}
  Calls = {"vma_insert", "vma_alloc_area", "vma_free_area", "vma_remove_by_addr"}
  AnyFree = FALSE
SPECIFICATION Spec
INVARIANTS AreasDisjoint TreeHoldsAreas RedBlack SearchFinds PlaceIsExact
PROPERTY CallReturns
CHECK_DEADLOCK FALSE
