SPECIFICATION Spec
CONSTANTS
  Keys <- MCKeys
  Nodes <- MCNodes
  Values = {v}
  NULL = NULL
  StackSize = 4
VIEW View
INVARIANT DeleteSucceeds
CHECK_DEADLOCK FALSE
