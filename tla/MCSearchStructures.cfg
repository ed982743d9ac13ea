SPECIFICATION Spec
CONSTANTS
  Kinds = {"avl", "bst", "splay", "skiplist", "btree", "rbtree", "hashmap", "tst", "trie", "graph", "array"}
  Bounds <- MCBounds
  MaxHeight = 3
  Degrees = {2, 3}
  Rate = 2
  Buckets = 2
  Word <- MCWord
  Base = 3
  Junk = Junk
  IntMin <- MCIntMin
  IntMax = 9
  NULL = NULL
  Yes = Yes
  No = No
VIEW View
INVARIANTS
  Searchable
  StaysBalanced
  SortStable
  ArraysSorted
  SuffixesRight
PROPERTIES
  RefinesDictionary
CHECK_DEADLOCK FALSE
