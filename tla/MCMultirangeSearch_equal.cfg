SPECIFICATION Spec
CONSTANTS
  Size <- McSize
  Limits = {0, 2}
  Queries <- McEquals
CHECK_DEADLOCK FALSE
INVARIANT IndexFindsRow
