CONSTANTS
  r0 = r0 r1 = r1 r2 = r2 r3 = r3 r4 = r4
  k1 = k1 k2 = k2 k3 = k3
  NoProc = NoProc
  Blocks = {1, 3, 4, 5, 6, 7, 8, 9, 10, 11, 12, 13, 14, 15}
  Keys = {k1, k2, k3}
  Groups <- McGroups
  Rows = {r0, r1, r2, r3, r4}
  EntriesOf <- McEntriesOf
  Inserters = {p1, p2}
  Scanners = {s1}
  Cap <- McCap
  SameNodes = 2
  MaxHits = 1
  Clobber = FALSE
  InitTrees <- McStart
SPECIFICATION FairSpec
INVARIANTS
  TypeOK
  OneWayIn
  Findable
  NoTreeErrors
PROPERTIES
  ImplementsContract
  AllEnd
