SPECIFICATION Spec
CONSTANTS
  r1 = r1
  r2 = r2
  r3 = r3
  a1 = a1
  b1 = b1
  a2 = a2
  a3 = a3
  q1 = q1
  q2 = q2
  Blocks <- McBlocks
  Rows = {r1, r2, r3}
  Entries = {a1, b1, a2, a3}
  RowOf <- McRowOf
  Dist <- McDist
  Quals = {q1, q2}
  Sat <- McSat
  QualsIn <- McOneQual
  Cap = 2
  MaxRescans <- McNoRescanPlain
  InitIndexes <- McIndexes
  NoBlock = NoBlock
CHECK_DEADLOCK FALSE
INVARIANTS
  TypeOK
  OnlyDeadKilled
  ReturnedOnce
  Complete
  NearestFirst
