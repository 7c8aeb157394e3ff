CONSTANTS
  PAGESIZE = 5
  HDR_SIZE = 1
  MIN_OBJS = 2
  MAX_SLAB_ORDER = 2
  MAX_EMPTY = 2
  ObjSizes = {2, 4, 9}
  Alignment = 1
  Frames <- FiveFrames
  CountBound = 6
SPECIFICATION Spec
INVARIANTS SlabsListedOnce RightList ObjectsFreeOrHeld HeldIsOwned ObjectsInside EmptyBounded
PROPERTY NewOnlyIfFull
CHECK_DEADLOCK FALSE
