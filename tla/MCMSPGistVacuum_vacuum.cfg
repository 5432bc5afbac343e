CONSTANTS
  r0 = r0 r1 = r1 r2 = r2
  k1 = k1 k2 = k2 k3 = k3
  NoProc = NoProc
  Blocks = {1, 3, 4, 5, 6, 7, 8, 9, 10, 11, 12}
  Keys = {k1, k2, k3}
  Groups <- McGroups
  Rows = {r0, r1, r2}
  EntriesOf <- McEntriesOf
  Inserters = {p1}
  Scanners = {s1}
  Cap <- McCap
  SameNodes = 2
  MaxHits = 0
  Clobber = FALSE
  InitTrees <- McStart
SPECIFICATION VacSpec
INVARIANTS
  OneWayIn
  Findable
  NoTreeErrors
  PassComplete
  RedirectsLead
PROPERTIES
  ImplementsContract
