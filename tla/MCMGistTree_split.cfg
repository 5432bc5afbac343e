CONSTANTS
  r0 = r0 r1 = r1 r2 = r2 r3 = r3 r4 = r4
  a0 = a0 b0 = b0 a1 = a1 b1 = b1 a2 = a2 b2 = b2 b3 = b3 a4 = a4
  k1 = k1 k2 = k2
  NoBlock = NoBlock NoProc = NoProc
  Blocks = {0, 1, 2, 3, 4, 5, 6, 7, 8, 9, 10}
  Keys = {k1, k2}
  Rows = {r0, r1, r2, r3}
  Entries = {a0, b0, a1, b1, a2, b3}
  EntriesOf <- McWide
  KeyOf <- McKeyOf
  Inserters = {p1, p2}
  Lockers = {p1, p2}
  Scanners = {}
  Cap <- McTwoTuples
  VarSize = FALSE
  MaxHalves <- McTwo
  MaxAborts = 1
  FailPoints = {"finish"}
  Crashes = FALSE
  InitTrees <- McStartDeep
SYMMETRY McSymmetryWide
SPECIFICATION Spec
INVARIANTS
  TypeOK
  OneWayIn
  DownlinksCover
  Findable
  NoTreeErrors
  LsnOrder
PROPERTIES
  LsnMonotone
  FinishAtomic
