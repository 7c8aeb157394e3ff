CONSTANTS
  PT_ENTRIES = 8
  KERNEL_PHMMAP = 512
  KERNEL_VMMMAP = 1024
  KERNEL_OFFSET = 3968
  KernPages = 15
  ReadOnly = {11, 12}
  Guards = {13, 14}
  PAGESIZE = 2
  Word = 1024
  MemMaps <- BiosMaps
  TagSets <- AllTags
  KernStart = 10
  Preinit = {10}
  VmPages = 128
  Devices = {1024, 1040, 1027}
  Lens = {0, 1}
  FlagSets <- TwoFlagSets
  MaxMaps <- Mapped
  AnyPlace = FALSE
SPECIFICATION MemSpec
INVARIANT FramesAligned
CHECK_DEADLOCK FALSE
