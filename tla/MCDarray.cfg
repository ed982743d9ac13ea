SPECIFICATION Spec
CONSTANTS
  p = p
  q = q
  NULL = NULL
  Values <- MCValues
  Rank <- MCRank
  Default = 2
  HeapSlots = 4
  SlotMod = 6
  SizeMod = 12
  Sizes <- MCSizes
VIEW View
INVARIANTS
  TypeOK
  MemorySafe
  BlockMatchesCapacity
PROPERTY RefinesVector
CHECK_DEADLOCK FALSE
