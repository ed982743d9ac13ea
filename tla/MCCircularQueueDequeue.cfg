SPECIFICATION QSpec
CONSTANTS
  Lists = {a, b, q}
  Rings = {q}
  Nodes = {n1, n2, n3}
  Values = {10}
  NULL = NULL
  Rank <- MCRank
  Maxima = {2}
SYMMETRY Symmetry
VIEW View
INVARIANTS
  DequeueReturns
CHECK_DEADLOCK FALSE
