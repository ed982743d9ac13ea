SPECIFICATION QSpec
CONSTANTS
  Lists = {a, b, q}
  Rings = {q}
  Nodes = {n1, n2, n3}
  Values = {10}
  NULL = NULL
  Rank <- MCRank
  Maxima = {2}
SYMMETRY Symmetry
VIEW View
INVARIANTS
  TypeOK
  WellLinked
  IterateVisitsAll
  RingClosed
PROPERTIES
  OnlyKnownFaults
  OrderKept
  FirstInFirstOut
CHECK_DEADLOCK FALSE
