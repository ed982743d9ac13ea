SPECIFICATION Spec
CONSTANTS
  Keys <- MCKeys
  Nodes <- MCNodes
  Values = {v}
  NULL = NULL
  StackSize = 4
VIEW View
INVARIANTS
  TypeOK
  SearchTree
  Balanced
  MemorySafe
PROPERTY RefinesMap
CHECK_DEADLOCK FALSE
