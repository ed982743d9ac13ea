SPECIFICATION FairSpec
CONSTANTS
  c1 = c1
  c2 = c2
  c3 = c3
  c4 = c4
  k1 = k1
  k2 = k2
  k3 = k3
  k4 = k4
  Given <- MCGiven
  Keys = {k1, k2, k3, k4}
  Writable = {k1}
  Scribbles = {c2}
  Contents = {c1, c2, c3, c4}
  Hash <- MCHash
  Values = {v}
  NULL = NULL
  MinCapacity = 3
  LoadFactor = 75
  Capacities = {0}
  HeapNodes = 4
VIEW MCView
INVARIANTS
  TypeOK
  UniqueKeys
  LoadBounded
  NodesAccounted
PROPERTIES
  ForeachVisitsOnce
  ForeachEnds
  RefinesMap
CHECK_DEADLOCK FALSE
