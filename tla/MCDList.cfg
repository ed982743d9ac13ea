SPECIFICATION Spec
CONSTANTS
  Lists = {a, b}
  Nodes = {n1, n2, n3}
  Values = {v}
  NULL = NULL
SYMMETRY Symmetry
VIEW View
INVARIANTS
  TypeOK
  WellLinked
  NodesAccounted
  MemorySafe
  LoopVisitsAll
PROPERTIES
  RefinesDeque
CHECK_DEADLOCK FALSE
