SPECIFICATION Spec
CONSTANTS
  Threads = {t1, t2}
  H = 2
  Sizes = {1, 2, 5, 17, 31}
  SizeMod = 32
  HeapEnd = 14
  Foreign = {1, 2}
  NULL = NULL
SYMMETRY Symmetry
INVARIANT BlocksApart
CHECK_DEADLOCK FALSE
