SPECIFICATION Spec
CONSTANTS
  Size <- McSize
  Limits = {0, 2}
  Queries <- McQueries
CHECK_DEADLOCK FALSE
INVARIANTS
  TypeOK
  EntriesCoverRow
  IndexFindsRow
  RTreeKeepsMatches
