CONSTANTS
  r0 = r0 r1 = r1 r2 = r2
  a0 = a0 b0 = b0 c1 = c1 a2 = a2
  k1 = k1 k2 = k2
  NoBlock = NoBlock NoProc = NoProc Vacuum = Vacuum
  Blocks = {0, 1, 2, 3, 4, 5, 6, 7, 8, 9, 10, 11}
  Keys = {k1, k2}
  Rows = {r0, r1, r2}
  Entries = {a0, b0, c1, a2}
  EntriesOf <- McEntriesOf
  KeyOf <- McKeyOf
  Inserters = {p1}
  Lockers = {p1, Vacuum}
  Scanners = {s1}
  Cap <- McTwo
  VarSize = FALSE
  MaxHalves <- McTwo
  MaxAborts = 0
  FailPoints = {}
  Crashes = FALSE
  MaxPasses = 2
  InitTrees <- McStart
SYMMETRY McSymmetry
SPECIFICATION VacSpec
INVARIANTS
  OneWayIn
  Findable
  PassComplete
  InnerNotEmpty
  NobodyOnRecycled
PROPERTIES
  ImplementsContract
