CONSTANTS
  PT_ENTRIES = 8
  KERNEL_PHMMAP = 512
  KERNEL_VMMMAP = 1024
  KERNEL_OFFSET = 3968
  KernPages = 15
  ReadOnly = {11, 12}
  Guards = {13, 14}
  PAGESIZE = 2
  Word = 1024
  MemMaps <- OneMap
  TagSets <- AllTags
  KernStart = 10
  Preinit = {10}
  VmPages = 128
  Devices = {1024, 1040, 1027}
  Lens = {0, 1, 16, 128, 144}
  FlagSets <- TwoFlagSets
  MaxMaps <- Mapped
  AnyPlace = TRUE
SPECIFICATION MemSpec
INVARIANT MappingsRight
CHECK_DEADLOCK FALSE
