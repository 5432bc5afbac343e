------------------------- MODULE MGistVacuumProofs -------------------------
(***************************************************************************)
(* Proofs about MGistVacuum: under insertions, scans and a vacuum every    *)
(* page keeps its one way in, an internal page keeps a downlink, nobody    *)
(* has a page in mind that was recycled, and a pass misses nothing.        *)
(***************************************************************************)
EXTENDS MGistVacuum, MGistStructureProofs, NaturalLemmas

USE DEF InTree

(***************************************************************************)
(* The inductive invariant, besides those of MGistTree.                    *)
(***************************************************************************)
\* The vacuum has its type (nothing is asked of the count of empty leaves, which
\* only ends the second stage), and the blocks before the end of the file exist.
VacState(n) ==
  [st : {"idle", "pass", "delete"}, blk : Nat, orig : Nat, end : Nat, nsn : Nat,
   doomed : SUBSET Rows, empty : SUBSET Blocks, inner : SUBSET Blocks, remaining : {n},
   par : Blocks, plsn : Nat, todel : SUBSET Blocks, leaf : Blocks \cup {NoBlock}, passes : Nat]
VacShape ==
  /\ vac \in VacState(vac.remaining)
  /\ \A n \in Nat : n < vac.end => n \in Blocks
  /\ seenBy \in [Blocks -> SUBSET (Scanners \cup Rows)]

\* A backend inserts a row of its own from the moment it has something on its stack.
RowsBusy ==
  /\ \A p \in Inserters : pc[p] # "idle" => rowst[row[p]] = "inserting"
  /\ \A p \in Inserters : pc[p] = "idle" => stack[p] = <<>>
  /\ \A p \in Inserters : pc[p] # "findpath" => bfs[p] = {}
  /\ \A p, q \in Inserters : pc[p] # "idle" /\ pc[q] # "idle" /\ row[p] = row[q] => p = q

\* A backend that has a deleted page in mind, which only the last frame of a stack or
\* path can be, inserted its row when the page was deleted.
EndOf(w) == w[Len(w)].blk
Paths(p) == {stack[p]} \cup bfs[p]
Witnessed ==
  \A p \in Inserters : \A w \in Paths(p) :
    w # <<>> /\ pages[EndOf(w)].type = "deleted" => row[p] \in seenBy[EndOf(w)]

\* The vacuum holds the lock of the leaf it looks at and no other.
VacLocks ==
  \A b \in Blocks : /\ xlock[b] \in Inserters \cup {NoProc, Vacuum}
                    /\ xlock[b] = Vacuum <=> b = vac.leaf

\* What the second stage works on: internal pages, and pages in use that were leaves.
VacTargets ==
  /\ \A b \in vac.inner : pages[b].type = "inner"
  /\ vac.todel # {} \/ vac.leaf # NoBlock => pages[vac.par].type = "inner"
  /\ \A c \in vac.todel : InUse(c, pages)
  /\ vac.leaf # NoBlock => InUse(vac.leaf, pages)
  /\ vac.leaf \notin vac.todel
  /\ vac.st # "delete" => vac.leaf = NoBlock /\ vac.todel = {}

NonEmpty(pgs) == \A b \in Blocks : pgs[b].type = "inner" => pgs[b].items # {}

VInv ==
  /\ IInv /\ StructInv
  /\ VacShape /\ RowsBusy /\ Witnessed /\ VacLocks /\ VacTargets
  /\ NonEmpty(pages)
-----------------------------------------------------------------------------
(***************************************************************************)
(* What a step of the vacuum may do to the pages and locks of others.      *)
(***************************************************************************)
Tended ==
  /\ UNCHANGED <<procVars, scan, aborts, errs>>
  /\ GoodPages(pages', lsn') /\ lsn' \in {lsn, lsn + 1}
  /\ OneWay(pages') /\ FreshLinks(pages') /\ Held(xlock', pages')
  /\ xlock' \in [Blocks -> Lockers \cup {NoProc}]
  /\ \A x \in Blocks : xlock[x] \in Inserters => xlock'[x] = xlock[x] /\ pages'[x] = pages[x]
  /\ \A x \in Blocks : pages[x].type = "inner" => pages'[x].type = "inner"
  /\ \A x \in Blocks : pages[x].type = "leaf" => pages'[x].type \in {"leaf", "deleted"}
  /\ \A x \in Blocks : pages[x].type = "deleted" => pages'[x].type \in {"deleted", "new"}
  /\ \A x \in Blocks : \/ pages'[x].type = "new" \/ pages'[x] = pages[x]
                       \/ pages'[x].lsn = lsn' /\ lsn' = lsn + 1
  /\ \A p \in Inserters : \A w \in Paths(p) : w # <<>> => pages'[EndOf(w)].type # "new"

\* The blocks on a stack.
LEMMA FrameBlocks ==
  ASSUME NEW st \in Seq(Frame)
  PROVE  /\ Len(st) \in Nat
         /\ \A i \in 1..Len(st) : st[i] \in Frame /\ st[i].blk \in Blocks /\ st[i].lsn \in Nat
         /\ st # <<>> => Len(st) \in 1..Len(st) /\ EndOf(st) = st[Len(st)].blk /\ EndOf(st) \in Blocks
<1>1. \A i \in 1..Len(st) : st[i] \in Frame OBVIOUS
<1>2. \A f \in Frame : f.blk \in Blocks /\ f.lsn \in Nat BY DEF Frame
<1>3. st # <<>> => Len(st) \in 1..Len(st) OBVIOUS
<1> QED BY <1>1, <1>2, <1>3 DEF EndOf

\* The frames of a stack stay in use when its end does.
LEMMA TendedFrames ==
  ASSUME Tended, NEW st \in Seq(Frame), UsedFrames(st, pages),
         st # <<>> => pages'[EndOf(st)].type # "new"
  PROVE  UsedFrames(st, pages')
<1>1. ASSUME NEW i \in 1..Len(st) - 1 PROVE pages'[st[i].blk].type = "inner"
  <2>1. i \in 1..Len(st) OBVIOUS
  <2>2. st[i].blk \in Blocks BY <2>1, FrameBlocks
  <2> QED BY <2>2 DEF Tended, UsedFrames
<1>2. ASSUME NEW i \in 1..Len(st) PROVE pages'[st[i].blk].type # "new"
  <2>1. CASE i = Len(st) BY <2>1, FrameBlocks
  <2>2. CASE i # Len(st)
    <3>1. i \in 1..Len(st) - 1 BY <2>2
    <3> QED BY <3>1, <1>1
  <2> QED BY <2>1, <2>2
<1> QED BY <1>1, <1>2 DEF UsedFrames

\* The halves of a split are locked, so the vacuum leaves them alone.
LEMMA TendedCalls ==
  ASSUME IInv, StructInv, Tended, NEW p \in Inserters
  PROVE  /\ GoodCalls(fin[p], Len(stack[p]), IF pc[p] = "fixchain" THEN 1 ELSE 2, pages')
         /\ SplitsOK(p, fin[p], pc[p] = "fixchain", stack[p], pages', xlock')
<1> DEFINE min == IF pc[p] = "fixchain" THEN 1 ELSE 2
           fixing == (pc[p] = "fixchain")
<1>1. GoodCalls(fin[p], Len(stack[p]), min, pages) BY DEF IInv, ProcOK
<1>2. SplitsOK(p, fin[p], fixing, stack[p], pages, xlock) BY DEF StructInv, ProcStruct
<1>3. min = 1 => fixing OBVIOUS
<1> HIDE DEF min, fixing
<1>4. ASSUME NEW k \in 1..Len(fin[p])
      PROVE  /\ GoodCall(fin[p][k], Len(stack[p]), min, pages')
             /\ HalvesChained(fin[p][k], fixing, pages')
             /\ CallLocks(fin[p][k], p, stack[p], xlock')
  <2> DEFINE f == fin[p][k]
             n == Len(f.halves)
  <2>1. /\ n \in Nat /\ n >= 1 /\ \A i \in 1..n : f.halves[i].blk \in Blocks
        /\ ParentOf(f, stack[p]) \in Blocks
    BY CallBlocks
  <2>2. /\ GoodCall(f, Len(stack[p]), min, pages) /\ HalvesChained(f, fixing, pages)
        /\ CallLocks(f, p, stack[p], xlock)
    BY <1>1, <1>2 DEF GoodCalls, SplitsOK
  <2> HIDE DEF f
  <2>3. \A i \in 1..n : pages'[f.halves[i].blk] = pages[f.halves[i].blk]
                        /\ xlock'[f.halves[i].blk] = p
    BY <2>1, <2>2 DEF CallLocks, Tended
  <2>4. /\ n \in 1..n /\ \A i \in 1..n - 1 : i \in 1..n BY <2>1
  <2>5. HalvesChained(f, fixing, pages') BY <2>2, <2>3, <2>4 DEF HalvesChained
  <2>6. CallLocks(f, p, stack[p], xlock') BY <2>1, <2>2, <2>3 DEF CallLocks, Tended
  <2>7. \A i \in 1..n : InUse(f.halves[i].blk, pages') BY <2>2, <2>3 DEF GoodCall, InUse
  <2>8. min = 1 => RightUsed(f.halves[n].blk, pages')
    <3> SUFFICES ASSUME min = 1 PROVE RightUsed(f.halves[n].blk, pages') OBVIOUS
    <3>1. pages'[f.halves[n].blk].follow BY <2>5, <1>3 DEF HalvesChained
    <3>2. f.halves[n].blk \in Blocks /\ pages'[f.halves[n].blk].type \in InTree
      BY <2>1, <2>4, <2>7 DEF InUse
    <3> QED BY <3>1, <3>2 DEF Tended, GoodPages, RightUsed
  <2>9. GoodCall(f, Len(stack[p]), min, pages') BY <2>2, <2>7, <2>8 DEF GoodCall
  <2> QED BY <2>5, <2>6, <2>9 DEF f
<1>5. GoodCalls(fin[p], Len(stack[p]), min, pages') BY <1>1, <1>4 DEF GoodCalls
<1>6. SplitsOK(p, fin[p], fixing, stack[p], pages', xlock') BY <1>2, <1>4 DEF SplitsOK
<1> QED BY <1>5, <1>6 DEF min, fixing

\* So the invariants of MGistTree survive a step of the vacuum.
LEMMA TendedOK == ASSUME IInv, StructInv, Tended PROVE IInv' /\ StructInv'
<1>1. /\ UNCHANGED <<rowst, pc, row, pos, stack, xheld, child, fin, ret, bfs>>
      /\ UNCHANGED <<scan, aborts, errs>>
  BY DEF Tended, procVars
<1>2. lsn \in Nat /\ lsn' \in Nat /\ lsn <= lsn'
  BY DEF Tended, IInv, TypeOK
<1>3. TypeOK'
  <2>1. pages' \in [Blocks -> Page] /\ xlock' \in [Blocks -> Lockers \cup {NoProc}]
    BY DEF Tended, GoodPages
  <2> QED BY <1>1, <1>2, <2>1 DEF IInv, TypeOK
<1>4. ASSUME NEW p \in Inserters PROVE ProcOK(p)' /\ ProcStruct(p)'
  <2>1. ProcOK(p) /\ ProcStruct(p) BY DEF IInv, StructInv
  <2>2. stack[p] \in Seq(Frame) /\ \A w \in bfs[p] : w \in Seq(Frame) BY DEF IInv, TypeOK
  <2>3. SeenUpTo(stack[p], lsn') BY <1>2, <2>1, <2>2, StackLater DEF ProcOK
  <2>4. \A w \in bfs[p] : GoodStack(w, lsn')
    BY <1>2, <2>1, <2>2, StackLater DEF ProcOK, GoodStack, Anchored
  <2>5. UsedFrames(stack[p], pages') /\ \A w \in bfs[p] : UsedFrames(w, pages')
    BY <2>1, <2>2, TendedFrames DEF ProcStruct, Tended, Paths
  <2>6. KindOK(pc[p], stack[p], pages') /\ Unmoved(pc[p], stack[p], pages')
    <3> DEFINE f == stack[p][Len(stack[p])]
    <3>1. CASE pc[p] \notin {"lockinner", "lockleaf"} BY <3>1 DEF KindOK, Unmoved
    <3>2. CASE pc[p] \in {"lockinner", "lockleaf"}
      <4>1. stack[p] # <<>> BY <3>2, <2>1 DEF ProcOK, Anchored
      <4>2. f \in Frame /\ f.blk \in Blocks /\ f.lsn \in Nat /\ pages'[f.blk].type # "new"
        BY <4>1, <2>2, FrameBlocks DEF Tended, Paths
      <4>3. KindOK(pc[p], stack[p], pages) /\ Unmoved(pc[p], stack[p], pages)
        BY <2>1 DEF ProcOK, ProcStruct
      <4>4. pages[f.blk].lsn \in Nat /\ pages[f.blk].lsn <= lsn
        BY <4>2 DEF IInv, GoodPages, Page
      <4>5. pages'[f.blk] = pages[f.blk] \/ (pages'[f.blk].lsn = lsn' /\ lsn' = lsn + 1)
        BY <4>2 DEF Tended
      <4>6. /\ pages[f.blk].type = "inner" => pages'[f.blk].type = "inner"
            /\ pages[f.blk].type = "leaf" => pages'[f.blk].type \in {"leaf", "deleted"}
            /\ pages[f.blk].type = "deleted" => pages'[f.blk].type \in {"deleted", "new"}
        BY <4>2 DEF Tended
      <4> HIDE DEF f
      <4>7. KindOK(pc[p], stack[p], pages') BY <4>2, <4>3, <4>6 DEF KindOK, f
      <4>8. pc[p] = "lockinner" =>
              /\ f.lsn <= pages'[f.blk].lsn
              /\ f.lsn = pages'[f.blk].lsn => ~pages'[f.blk].follow
        BY <4>2, <4>3, <4>4, <4>5, <1>2 DEF Unmoved, f
      <4> QED BY <4>7, <4>8 DEF Unmoved, f
    <3> QED BY <3>1, <3>2
  <2>7. ProcOK(p)' BY <1>1, <2>1, <2>3, <2>4, <2>6, TendedCalls DEF ProcOK
  <2>8. ProcStruct(p)' BY <1>1, <2>1, <2>5, <2>6, TendedCalls DEF ProcStruct
  <2> QED BY <2>7, <2>8
<1>5. \A s \in Scanners : \A i \in scan'[s].queue : i.plsn <= lsn'
  <2>1. \A s \in Scanners : \A i \in scan[s].queue : i.plsn \in Nat /\ i.plsn <= lsn
    BY DEF IInv, TypeOK, ScanState
  <2> QED BY <1>1, <1>2, <2>1
<1>6. GoodPages(pages', lsn') BY DEF Tended
<1>7. OneWay(pages') /\ FreshLinks(pages') /\ Held(xlock', pages') BY DEF Tended
<1> QED BY <1>3, <1>4, <1>5, <1>6, <1>7 DEF IInv, StructInv
-----------------------------------------------------------------------------
(***************************************************************************)
(* The vacuum's own state.                                                 *)
(***************************************************************************)
LEMMA VacFields ==
  ASSUME VacShape
  PROVE  /\ vac.st \in {"idle", "pass", "delete"} /\ vac.blk \in Nat /\ vac.orig \in Nat
         /\ vac.end \in Nat /\ vac.nsn \in Nat /\ vac.doomed \in SUBSET Rows
         /\ vac.empty \in SUBSET Blocks /\ vac.inner \in SUBSET Blocks /\ vac.par \in Blocks
         /\ vac.plsn \in Nat /\ vac.todel \in SUBSET Blocks /\ vac.leaf \in Blocks \cup {NoBlock}
         /\ vac.passes \in Nat
BY DEF VacShape, VacState

\* The vacuum is a stranger among the holders of locks.
LEMMA VacuumStranger == Vacuum \in Lockers /\ Vacuum \notin Inserters /\ Vacuum # NoProc
                        /\ NoProc \notin Inserters /\ NoBlock \notin Blocks
BY VacuumAssumption, ProcAssumption, BlocksAssumption

\* A step of the vacuum keeps the invariant if it does so for what is the vacuum's.
LEMMA TendedKeeps ==
  ASSUME VInv, Tended, VacShape', VacTargets', VacLocks', Witnessed', NonEmpty(pages')
  PROVE  VInv'
<1>1. IInv' /\ StructInv' BY TendedOK DEF VInv
<1>2. RowsBusy' BY DEF VInv, Tended, procVars, RowsBusy
<1> QED BY <1>1, <1>2 DEF VInv

\* Nothing but the vacuum's own state changes.
LEMMA OwnStep ==
  ASSUME VInv, UNCHANGED <<vars, seenBy>>, VacShape', VacTargets', vac'.leaf = vac.leaf
  PROVE  VInv'
<1>1. UNCHANGED <<treeVars, procVars, scan, aborts, errs>> BY DEF vars
<1>2. /\ UNCHANGED <<pages, lsn, xlock>>
      /\ UNCHANGED <<rowst, pc, row, pos, stack, xheld, child, fin, ret, bfs>>
  BY <1>1 DEF treeVars, procVars
<1>3. [Next]_vars OBVIOUS
<1>4. IInv' /\ StructInv' BY <1>3, NextOK, NextStruct DEF VInv
<1>5. RowsBusy' /\ NonEmpty(pages') /\ VacLocks' BY <1>2 DEF VInv, RowsBusy, VacLocks
<1>6. Witnessed' BY <1>2 DEF VInv, Witnessed, Paths
<1> QED BY <1>4, <1>5, <1>6 DEF VInv

\* The last block of the file and all before it exist, and no block after it is in use.
LEMMA FileEndOK ==
  ASSUME VInv
  PROVE  /\ FileEnd \in Nat /\ \A n \in Nat : n < FileEnd => n \in Blocks
         /\ \A x \in Blocks : pages[x].type # "new" => x < FileEnd
<1> DEFINE S == {b \in Blocks : pages[b].type # "new"}
<1>1. Blocks \subseteq Nat /\ IsFiniteSet(Blocks) /\ \A b \in Blocks : 0..b \subseteq Blocks
  BY BlocksAssumption, VacuumAssumption
<1>2. Root \in S BY BlocksAssumption DEF VInv, IInv, GoodPages
<1>3. IsFiniteSet(S) /\ S \subseteq Nat BY <1>1, FS_Subset
<1>4. \E m \in S : \A x \in S : x <= m BY <1>2, <1>3, FiniteGreatest
<1>5. Max(S) \in S /\ \A x \in S : x <= Max(S)
  <2> HIDE DEF S
  <2>1. \E m \in S : \A x \in S : m >= x BY <1>3, <1>4
  <2> QED BY <2>1, <1>3 DEF Max
<1>6. FileEnd = 1 + Max(S) BY DEF FileEnd
<1>7. Max(S) \in Blocks /\ Max(S) \in Nat BY <1>1, <1>5
<1>8. \A x \in Blocks : pages[x].type # "new" => x \in S OBVIOUS
<1> HIDE DEF S
<1>9. \A x \in S : x < 1 + Max(S) BY <1>3, <1>5, <1>7
<1>10. \A n \in Nat : n < 1 + Max(S) => n \in 0..Max(S) BY <1>7
<1> QED BY <1>1, <1>6, <1>7, <1>8, <1>9, <1>10

\* The vacuum begins.
LEMMA VacuumStartOK == ASSUME VInv, VacuumStart PROVE VInv'
<1> DEFINE v == [IdleVac EXCEPT !.st = "pass", !.end = FileEnd, !.nsn = lsn, !.doomed = Removable,
                                !.passes = vac.passes + 1]
<1>1. vac' = v /\ UNCHANGED <<vars, seenBy>> /\ vac.st = "idle" BY DEF VacuumStart
<1>2. /\ FileEnd \in Nat /\ lsn \in Nat /\ Removable \in SUBSET Rows /\ vac.passes + 1 \in Nat
      /\ Root \in Blocks
  <2>1. FileEnd \in Nat BY FileEndOK
  <2>2. lsn \in Nat /\ Removable \in SUBSET Rows BY DEF VInv, IInv, TypeOK, Removable
  <2>3. vac.passes + 1 \in Nat BY VacFields DEF VInv
  <2> QED BY <2>1, <2>2, <2>3, BlocksAssumption
<1>3. v \in VacState(v.remaining) /\ v.end = FileEnd /\ v.inner = {} /\ v.todel = {}
      /\ v.leaf = NoBlock
  BY <1>2 DEF IdleVac, VacState
<1> HIDE DEF v
<1>4. VacShape' BY <1>1, <1>3, FileEndOK DEF VInv, VacShape
<1>5. VacTargets' BY <1>1, <1>3 DEF VacTargets
<1>6. vac'.leaf = vac.leaf BY <1>1, <1>3 DEF VInv, VacTargets
<1> QED BY <1>1, <1>4, <1>5, <1>6, OwnStep

\* While the pass goes on, only its place and the pages it remembers change.
LEMMA PassGoesOn ==
  ASSUME VInv, vac.st = "pass", NEW k \in Nat, NEW o \in Nat, NEW E \in SUBSET Blocks,
         NEW I \in SUBSET Blocks, \A b \in I : pages'[b].type = "inner",
         vac' = [vac EXCEPT !.blk = k, !.orig = o, !.empty = E, !.inner = I],
         seenBy' \in [Blocks -> SUBSET (Scanners \cup Rows)]
  PROVE  /\ VacShape' /\ VacTargets' /\ vac'.leaf = vac.leaf /\ vac.leaf = NoBlock
<1>1. /\ vac' \in VacState(vac.remaining) /\ vac'.remaining = vac.remaining /\ vac'.end = vac.end
      /\ vac'.inner = I /\ vac'.todel = vac.todel /\ vac'.leaf = vac.leaf
  BY DEF VInv, VacShape, VacState
<1>2. vac.leaf = NoBlock /\ vac.todel = {} BY DEF VInv, VacTargets
<1>3. VacShape' BY <1>1 DEF VInv, VacShape
<1>4. VacTargets' BY <1>1, <1>2 DEF VacTargets
<1> QED BY <1>1, <1>2, <1>3, <1>4

\* The page the pass is at.
LEMMA AtPageOK ==
  ASSUME VInv, NEW T, AtPage(T)
  PROVE  /\ vac.st = "pass" /\ vac.blk \in Blocks /\ xlock[vac.blk] = NoProc
         /\ pages[vac.blk].type \in T /\ pages[vac.blk] \in Page /\ GoodPage(pages[vac.blk])
<1>1. vac.st = "pass" /\ vac.blk < vac.end /\ xlock[vac.blk] = NoProc /\ pages[vac.blk].type \in T
  BY DEF AtPage, Free
<1>2. vac.blk \in Blocks BY <1>1, VacFields DEF VInv, VacShape
<1> QED BY <1>1, <1>2 DEF VInv, IInv, GoodPages

\* An internal page is remembered.
LEMMA VacuumInnerOK == ASSUME VInv, VacuumInner PROVE VInv'
<1> DEFINE I == IF vac.blk = vac.orig THEN vac.inner \cup {vac.blk} ELSE vac.inner
           o == vac.orig + 1
<1>1. AtPage({"inner"}) /\ UNCHANGED <<vars, seenBy>> BY DEF VacuumInner
<1>2. /\ vac.st = "pass" /\ vac.blk \in Blocks /\ pages[vac.blk].type = "inner"
      /\ vac \in VacState(vac.remaining)
  BY <1>1, AtPageOK DEF VInv, VacShape
<1>3. /\ vac.empty \in SUBSET Blocks /\ vac.inner \in SUBSET Blocks /\ vac.orig \in Nat
  BY VacFields DEF VInv
<1>4. vac' = [vac EXCEPT !.blk = o, !.orig = o, !.empty = vac.empty, !.inner = I]
  <2>1. vac' = Onward(IF vac.blk = vac.orig THEN [vac EXCEPT !.inner = vac.inner \cup {vac.blk}] ELSE vac)
    BY DEF VacuumInner
  <2> QED BY <2>1, <1>2 DEF Onward, VacState
<1>5. I \in SUBSET Blocks /\ o \in Nat BY <1>2, <1>3
<1>6. \A b \in I : pages'[b].type = "inner"
  <2>1. pages' = pages BY <1>1 DEF vars, treeVars
  <2> QED BY <2>1, <1>2 DEF VInv, VacTargets
<1>7. seenBy' \in [Blocks -> SUBSET (Scanners \cup Rows)] BY <1>1 DEF VInv, VacShape
<1> HIDE DEF I, o
<1> QED BY <1>1, <1>2, <1>3, <1>4, <1>5, <1>6, <1>7, PassGoesOn, OwnStep

\* The end of the file is looked at again, and the second stage begins.
LEMMA VacuumRecheckOK == ASSUME VInv, VacuumRecheck PROVE VInv'
<1>1. vac.st = "pass" /\ UNCHANGED <<vars, seenBy>> BY DEF VacuumRecheck
<1>2. vac.leaf = NoBlock /\ vac.todel = {} BY <1>1 DEF VInv, VacTargets
<1>3. pages' = pages BY <1>1 DEF vars, treeVars
<1>4. \A b \in vac.inner : pages[b].type = "inner" BY DEF VInv, VacTargets
<1>5. CASE vac' = [vac EXCEPT !.end = FileEnd]
  <2>1. FileEnd \in Nat /\ \A n \in Nat : n < FileEnd => n \in Blocks BY FileEndOK
  <2>2. /\ vac' \in VacState(vac'.remaining) /\ vac'.end = FileEnd /\ vac'.inner = vac.inner
        /\ vac'.todel = vac.todel /\ vac'.leaf = vac.leaf
    BY <1>5, <2>1 DEF VInv, VacShape, VacState
  <2>3. VacShape' BY <1>1, <2>1, <2>2 DEF VInv, VacShape
  <2>4. VacTargets' BY <1>2, <1>3, <1>4, <2>2 DEF VacTargets
  <2> QED BY <1>1, <2>2, <2>3, <2>4, OwnStep
<1>6. CASE vac' = [vac EXCEPT !.st = "delete", !.end = 0, !.blk = 0, !.orig = 0, !.nsn = 0,
                              !.remaining = Cardinality(vac.empty)]
  <2>1. /\ vac' \in VacState(vac'.remaining) /\ vac'.end = 0 /\ vac'.inner = vac.inner
        /\ vac'.todel = vac.todel /\ vac'.leaf = vac.leaf
    BY <1>6 DEF VInv, VacShape, VacState
  <2>2. VacShape' BY <1>1, <2>1 DEF VInv, VacShape
  <2>3. VacTargets' BY <1>2, <1>3, <1>4, <2>1 DEF VacTargets
  <2> QED BY <1>1, <2>1, <2>2, <2>3, OwnStep
<1> QED BY <1>5, <1>6 DEF VacuumRecheck

\* The downlinks of an internal page to empty leaves are noted.
LEMMA VacuumParentOK == ASSUME VInv, VacuumParent PROVE VInv'
<1> DEFINE b == Min(vac.inner)
           links == pages[b].items
           empties == {d.ptr : d \in links} \cap vac.empty
           n == Min({Cardinality(empties), Cardinality(links) - 1})
<1>1. /\ vac.st = "delete" /\ vac.leaf = NoBlock /\ vac.inner # {} /\ UNCHANGED <<vars, seenBy>>
      /\ \E D \in SUBSET empties :
           vac' = [vac EXCEPT !.todel = D, !.par = b, !.plsn = pages[b].lsn,
                              !.inner = vac.inner \ {b}, !.remaining = vac.remaining - n]
  BY DEF VacuumParent, MoreParents
<1>2. b \in vac.inner
  <2>1. vac.inner \subseteq Nat BY VacFields, BlocksAssumption DEF VInv
  <2>2. \E m \in vac.inner : \A x \in vac.inner : m <= x BY <1>1, <2>1, LeastExists
  <2> QED BY <2>2 DEF Min
<1>3. b \in Blocks /\ pages[b].type = "inner" BY <1>2, VacFields DEF VInv, VacTargets
<1>4. pages[b].lsn \in Nat BY <1>3 DEF VInv, IInv, GoodPages, Page
<1> HIDE DEF n, b
<1>5. PICK D \in SUBSET empties :
        vac' = [vac EXCEPT !.todel = D, !.par = b, !.plsn = pages[b].lsn,
                           !.inner = vac.inner \ {b}, !.remaining = vac.remaining - n]
  BY <1>1
<1>6. \A c \in D : c \in Blocks /\ InUse(c, pages)
  <2>1. OneWay(pages) /\ LinksOn(pages[b]) = links BY <1>3 DEF VInv, StructInv, LinksOn
  <2> QED BY <2>1, <1>3 DEF OneWay
<1>7. /\ vac' \in VacState(vac'.remaining) /\ vac'.end = vac.end /\ vac'.inner \subseteq vac.inner
      /\ vac'.todel = D /\ vac'.leaf = vac.leaf /\ vac'.par = b /\ vac'.st = vac.st
  BY <1>3, <1>4, <1>5, <1>6 DEF VInv, VacShape, VacState
<1>8. VacShape' BY <1>1, <1>7 DEF VInv, VacShape
<1>9. pages' = pages BY <1>1 DEF vars, treeVars
<1>10. VacTargets' BY <1>1, <1>3, <1>6, <1>7, <1>9, VacuumStranger DEF VInv, VacTargets
<1> QED BY <1>1, <1>7, <1>8, <1>10, OwnStep

\* The last downlink stays; the end.
LEMMA VacuumRestsOK == ASSUME VInv, VacuumLastDownlink \/ VacuumEnd PROVE VInv'
<1>1. vac.st = "delete" /\ vac.leaf = NoBlock /\ UNCHANGED <<vars, seenBy>>
  BY DEF VacuumLastDownlink, VacuumEnd
<1>2. pages' = pages BY <1>1 DEF vars, treeVars
<1>3. \A b \in vac.inner : pages[b].type = "inner" BY DEF VInv, VacTargets
<1>4. CASE VacuumLastDownlink
  <2>1. vac' = [vac EXCEPT !.todel = {}] BY <1>4 DEF VacuumLastDownlink
  <2>2. /\ vac' \in VacState(vac'.remaining) /\ vac'.end = vac.end /\ vac'.inner = vac.inner
        /\ vac'.todel = {} /\ vac'.leaf = vac.leaf
    BY <2>1 DEF VInv, VacShape, VacState
  <2>3. VacShape' BY <1>1, <2>2 DEF VInv, VacShape
  <2>4. VacTargets' BY <1>1, <1>2, <1>3, <2>2 DEF VacTargets
  <2> QED BY <1>1, <2>2, <2>3, <2>4, OwnStep
<1>5. CASE VacuumEnd
  <2>1. vac' = [IdleVac EXCEPT !.passes = vac.passes] BY <1>5 DEF VacuumEnd
  <2>2. vac.passes \in Nat /\ Root \in Blocks BY VacFields, BlocksAssumption DEF VInv
  <2>3. /\ vac' \in VacState(vac'.remaining) /\ vac'.end = 0 /\ vac'.inner = {}
        /\ vac'.todel = {} /\ vac'.leaf = NoBlock
    BY <2>1, <2>2 DEF IdleVac, VacState
  <2>4. VacShape' BY <1>1, <2>3 DEF VInv, VacShape
  <2>5. VacTargets' BY <2>3 DEF VacTargets
  <2> QED BY <1>1, <2>3, <2>4, <2>5, OwnStep
<1> QED BY <1>4, <1>5

\* A page in mind is not free, and if it is deleted its recycling waits for the backend.
LEMMA EndNotFreed ==
  ASSUME VInv, NEW p \in Inserters, NEW w \in Paths(p), w # <<>>
  PROVE  /\ EndOf(w) \in Blocks /\ pages[EndOf(w)].type # "new"
         /\ ~Recyclable(EndOf(w))
<1>1. stack[p] \in Seq(Frame) /\ \A x \in bfs[p] : x \in Seq(Frame)
  BY DEF VInv, IInv, TypeOK
<1>2. w \in Seq(Frame) /\ UsedFrames(w, pages) BY <1>1 DEF VInv, StructInv, ProcStruct, Paths
<1>3. EndOf(w) \in Blocks /\ pages[EndOf(w)].type # "new" BY <1>2, FrameBlocks DEF UsedFrames
<1>4. pc[p] # "idle" BY DEF VInv, RowsBusy, Paths
<1>5. rowst[row[p]] = "inserting" /\ row[p] \in Rows BY <1>4 DEF VInv, RowsBusy, IInv, TypeOK
<1>6. pages[EndOf(w)].type = "deleted" => row[p] \in seenBy[EndOf(w)] BY DEF VInv, Witnessed
<1> QED BY <1>3, <1>5, <1>6 DEF Recyclable

\* A page that is neither in the tree before nor after a step is no way in.
LEMMA OutsideOneWay ==
  ASSUME OneWay(pages), FreshLinks(pages), NEW b \in Blocks, NEW pg,
         pages \in [Blocks -> Page], pages' = [pages EXCEPT ![b] = pg],
         pages[b].type \notin InTree, pg.type \notin InTree,
         ~pages[b].follow, ~pg.follow
  PROVE  OneWay(pages') /\ FreshLinks(pages')
<1>1. pages'[b] = pg /\ \A x \in Blocks : x # b => pages'[x] = pages[x] OBVIOUS
<1>2. \A x \in Blocks : LinksOn(pages'[x]) = LinksOn(pages[x]) BY <1>1 DEF LinksOn
<1>3. \A x \in Blocks : /\ pages'[x].follow <=> pages[x].follow
                        /\ pages[x].follow => pages'[x].right = pages[x].right
  BY <1>1
<1>4. \A x \in Blocks : InUse(x, pages') <=> InUse(x, pages) BY <1>1 DEF InUse
<1>5. \A c : (Linked(pages', c) <=> Linked(pages, c)) /\ (Awaited(pages', c) <=> Awaited(pages, c))
  BY <1>2, <1>3 DEF Linked, Awaited
<1>6. OneWay(pages')
  <2>1. /\ \A x, y \in Blocks : \A d \in LinksOn(pages'[x]), e \in LinksOn(pages'[y]) :
             d.ptr = e.ptr => x = y /\ d = e
        /\ \A x, y \in Blocks :
             pages'[x].follow /\ pages'[y].follow /\ pages'[x].right = pages'[y].right => x = y
    BY <1>2, <1>3 DEF OneWay
  <2>2. ASSUME NEW x \in Blocks, NEW y \in Blocks, NEW d \in LinksOn(pages'[x])
        PROVE  /\ d.ptr \in Blocks /\ InUse(d.ptr, pages')
               /\ pages'[y].follow => d.ptr # pages'[y].right
    <3>1. d \in LinksOn(pages[x]) BY <1>2
    <3>2. /\ d.ptr \in Blocks /\ InUse(d.ptr, pages)
          /\ pages[y].follow => d.ptr # pages[y].right
      BY <3>1 DEF OneWay
    <3> QED BY <3>2, <1>3, <1>4
  <2>3. \A x \in Blocks : pages'[x].follow => pages'[x].right \in Blocks BY <1>3 DEF OneWay
  <2>4. \A c \in Blocks : InUse(c, pages') => Linked(pages', c) \/ Awaited(pages', c)
    BY <1>4, <1>5 DEF OneWay
  <2> QED BY <2>1, <2>2, <2>3, <2>4 DEF OneWay
<1>7. ASSUME NEW x \in Blocks, NEW d \in LinksOn(pages'[x]) PROVE pages'[d.ptr].nsn <= pages'[x].lsn
  <2>1. d \in LinksOn(pages[x]) /\ x # b BY <1>1, <1>2 DEF LinksOn
  <2>2. d.ptr \in Blocks /\ InUse(d.ptr, pages) BY <2>1 DEF OneWay
  <2>3. d.ptr # b BY <2>2 DEF InUse
  <2> QED BY <1>1, <2>1, <2>2, <2>3 DEF FreshLinks
<1> QED BY <1>6, <1>7 DEF FreshLinks

\* One page outside the tree is emptied: the others do not notice.
LEMMA EmptiedGood ==
  ASSUME GoodPages(pages, lsn), NEW b \in Blocks, pages[b].type \notin InTree,
         pages' = [pages EXCEPT ![b] = EmptyPage]
  PROVE  GoodPages(pages', lsn)
<1>1. pages \in [Blocks -> Page] /\ lsn \in Nat BY DEF GoodPages
<1>2. EmptyPage \in Page /\ GoodPage(EmptyPage) /\ EmptyPage.lsn <= lsn
  BY <1>1, BlocksAssumption DEF EmptyPage, Page, GoodPage
<1>3. pages'[b] = EmptyPage /\ \A x \in Blocks : x # b => pages'[x] = pages[x] BY <1>1
<1>4. b # Root BY DEF GoodPages
<1>5. ASSUME NEW x \in Blocks, pages'[x].type = "inner" \/ pages'[x].follow,
             pages'[x].right # NoBlock
      PROVE  pages'[pages'[x].right].type = pages'[x].type
  <2>1. x # b BY <1>3, <1>5 DEF EmptyPage
  <2>2. pages'[x] = pages[x] /\ pages[x] \in Page /\ GoodPage(pages[x]) BY <2>1, <1>3 DEF GoodPages
  <2>3. pages[pages[x].right].type = pages[x].type BY <2>2, <1>5 DEF GoodPages
  <2>4. pages[x].type \in InTree BY <2>2, <1>5 DEF GoodPage, Page
  <2>5. pages[x].right \in Blocks \ {b} BY <2>2, <2>3, <2>4, <1>5 DEF Page
  <2> QED BY <2>2, <2>3, <2>5, <1>3
<1>6. \A x \in Blocks : GoodPage(pages'[x]) /\ pages'[x].lsn <= lsn BY <1>2, <1>3 DEF GoodPages
<1>7. pages' \in [Blocks -> Page] BY <1>1, <1>2
<1>8. pages'[Root] = pages[Root] BY <1>3, <1>4, BlocksAssumption
<1> QED BY <1>1, <1>5, <1>6, <1>7, <1>8 DEF GoodPages

\* A deleted page becomes free.
LEMMA VacuumFreeOK == ASSUME VInv, VacuumFree PROVE VInv'
<1> DEFINE b == vac.blk
           o == vac.orig + 1
<1>1. AtPage({"new", "deleted"}) /\ UNCHANGED <<lsn, xlock, procVars, scan, aborts, errs>>
  BY DEF VacuumFree
<1>2. /\ vac.st = "pass" /\ b \in Blocks /\ xlock[b] = NoProc /\ pages[b].type \in {"new", "deleted"}
      /\ GoodPage(pages[b])
  BY <1>1, AtPageOK
<1>3. vac.empty \in SUBSET Blocks /\ vac.inner \in SUBSET Blocks /\ o \in Nat /\ vac.orig \in Nat
  BY VacFields DEF VInv
<1>4. vac' = [vac EXCEPT !.blk = o, !.orig = o, !.empty = vac.empty, !.inner = vac.inner]
  <2>1. vac' = Onward(vac) /\ vac \in VacState(vac.remaining) BY DEF VacuumFree, VInv, VacShape
  <2> QED BY <2>1 DEF Onward, VacState
<1>5. \A x \in vac.inner : pages[x].type = "inner" BY DEF VInv, VacTargets
<1> HIDE DEF o
<1>6. CASE ~Recyclable(b)
  <2>1. UNCHANGED <<vars, seenBy>> BY <1>1, <1>6 DEF VacuumFree, vars, treeVars
  <2>2. pages' = pages /\ seenBy' \in [Blocks -> SUBSET (Scanners \cup Rows)]
    BY <2>1 DEF vars, treeVars, VInv, VacShape
  <2> HIDE DEF b
  <2>3. VacShape' /\ VacTargets' /\ vac'.leaf = vac.leaf
    BY <1>2, <1>3, <1>4, <1>5, <2>2, PassGoesOn
  <2> QED BY <2>1, <2>3, OwnStep
<1>7. CASE Recyclable(b)
  <2>1. /\ pages' = [pages EXCEPT ![b] = EmptyPage] /\ seenBy' = [seenBy EXCEPT ![b] = {}]
    BY <1>7 DEF VacuumFree
  <2> HIDE DEF b
  <2>2. /\ pages \in [Blocks -> Page] /\ seenBy \in [Blocks -> SUBSET (Scanners \cup Rows)]
        /\ GoodPages(pages, lsn) /\ OneWay(pages) /\ FreshLinks(pages) /\ Held(xlock, pages)
        /\ lsn \in Nat /\ xlock \in [Blocks -> Lockers \cup {NoProc}]
    BY DEF VInv, VacShape, IInv, StructInv, TypeOK
  <2>3. /\ pages'[b] = EmptyPage /\ \A x \in Blocks : x # b => pages'[x] = pages[x]
        /\ seenBy' \in [Blocks -> SUBSET (Scanners \cup Rows)]
        /\ \A x \in Blocks : x # b => seenBy'[x] = seenBy[x]
    BY <2>1, <2>2, <1>2
  <2>4. EmptyPage.type = "new" /\ ~EmptyPage.follow BY DEF EmptyPage
  <2>5. GoodPages(pages', lsn) BY <2>1, <2>2, <1>2, EmptiedGood
  <2>6. OneWay(pages') /\ FreshLinks(pages')
    BY <2>1, <2>2, <2>4, <1>2, OutsideOneWay DEF GoodPage
  <2>7. Held(xlock, pages') BY <2>2, <2>3, <1>2 DEF Held
  <2>8. ASSUME NEW p \in Inserters, NEW w \in Paths(p), w # <<>>
        PROVE  EndOf(w) \in Blocks /\ EndOf(w) # b /\ pages'[EndOf(w)] = pages[EndOf(w)]
                /\ pages[EndOf(w)].type # "new"
    <3>1. EndOf(w) \in Blocks /\ pages[EndOf(w)].type # "new" /\ ~Recyclable(EndOf(w))
      BY <2>8, EndNotFreed
    <3> QED BY <3>1, <2>3, <1>7
  <2>9. \A p \in Inserters : \A w \in Paths(p) : w # <<>> => pages'[EndOf(w)].type # "new"
    BY <2>8
  <2>10. \A x \in Blocks : xlock[x] \in Inserters => x # b BY <1>2, VacuumStranger
  <2>11. Tended
    BY <1>1, <1>2, <2>2, <2>3, <2>4, <2>5, <2>6, <2>7, <2>9, <2>10 DEF Tended
  <2>12. \A x \in vac.inner : pages'[x].type = "inner" BY <1>2, <1>3, <1>5, <2>3
  <2>13. VacShape' /\ VacTargets' /\ vac'.leaf = vac.leaf /\ vac.leaf = NoBlock
    BY <1>2, <1>3, <1>4, <2>3, <2>12, PassGoesOn
  <2>14. VacLocks' BY <1>1, <2>13 DEF VInv, VacLocks
  <2>15. Witnessed'
    <3> SUFFICES ASSUME NEW p \in Inserters, NEW w \in Paths(p)', w # <<>>,
                        pages'[EndOf(w)].type = "deleted"
                 PROVE  row'[p] \in seenBy'[EndOf(w)]
      BY DEF Witnessed
    <3>1. w \in Paths(p) /\ row'[p] = row[p] BY <1>1 DEF Paths, procVars
    <3>2. EndOf(w) \in Blocks /\ EndOf(w) # b /\ pages'[EndOf(w)] = pages[EndOf(w)] BY <3>1, <2>8
    <3>3. row[p] \in seenBy[EndOf(w)] BY <3>1, <3>2 DEF VInv, Witnessed
    <3> QED BY <3>1, <3>2, <3>3, <2>3
  <2>16. NonEmpty(pages') BY <2>3, <2>4 DEF VInv, NonEmpty
  <2> QED BY <2>11, <2>13, <2>14, <2>15, <2>16, TendedKeeps
<1> QED BY <1>6, <1>7

\* Index tuples of a leaf go away: no way in is touched.
LEMMA ThinnedOK ==
  ASSUME GoodPages(pages, lsn), OneWay(pages), FreshLinks(pages), NEW b \in Blocks,
         pages[b].type = "leaf", NEW S, S \subseteq pages[b].items,
         pages' = [pages EXCEPT ![b].items = S, ![b].lsn = lsn + 1], lsn' = lsn + 1
  PROVE  /\ GoodPages(pages', lsn') /\ OneWay(pages') /\ FreshLinks(pages')
         /\ pages'[b].type = "leaf" /\ pages'[b].lsn = lsn + 1
         /\ \A x \in Blocks : x # b => pages'[x] = pages[x]
<1> DEFINE pg == [pages[b] EXCEPT !.items = S, !.lsn = lsn + 1]
<1>1. pages \in [Blocks -> Page] /\ lsn \in Nat /\ pages[b] \in Page /\ GoodPage(pages[b])
      /\ pages[b].lsn <= lsn
  BY DEF GoodPages
<1>2. pages' = [pages EXCEPT ![b] = pg] BY <1>1 DEF Page
<1>3. /\ pg \in Page /\ pg.type = "leaf" /\ pg.items = S /\ pg.right = pages[b].right
      /\ pg.nsn = pages[b].nsn /\ pg.lsn = lsn + 1 /\ pg.follow = pages[b].follow
  BY <1>1 DEF Page
<1>4. GoodPage(pg) /\ pages[b].nsn \in Nat /\ pages[b].lsn \in Nat
  <2>1. pages[b].nsn \in Nat /\ pages[b].lsn \in Nat BY <1>1 DEF Page
  <2> QED BY <1>1, <1>3, <2>1 DEF GoodPage
<1> HIDE DEF pg
<1>5. pages'[b] = pg /\ (\A x \in Blocks : x # b => pages'[x] = pages[x]) /\ pages' \in [Blocks -> Page]
  BY <1>1, <1>2, <1>3
<1>6. \A x \in Blocks : /\ pages'[x].type = pages[x].type /\ pages'[x].right = pages[x].right
                        /\ pages'[x].follow = pages[x].follow /\ pages'[x].nsn = pages[x].nsn
                        /\ LinksOn(pages'[x]) = LinksOn(pages[x])
  BY <1>3, <1>5 DEF LinksOn
<1>7. GoodPages(pages', lsn')
  <2>1. \A x \in Blocks : GoodPage(pages'[x]) /\ pages'[x].lsn <= lsn + 1
    <3>1. \A x \in Blocks : GoodPage(pages[x]) /\ pages[x].lsn <= lsn /\ pages[x].lsn \in Nat
      BY DEF GoodPages, Page
    <3> QED BY <1>1, <1>3, <1>4, <1>5, <3>1
  <2>2. \A x \in Blocks : pages[x].right \in Blocks \cup {NoBlock} BY DEF GoodPages, Page
  <2>3. \A x \in Blocks : (pages'[x].type = "inner" \/ pages'[x].follow) /\ pages'[x].right # NoBlock =>
                           pages'[pages'[x].right].type = pages'[x].type
    BY <1>6, <2>2 DEF GoodPages
  <2>4. /\ pages'[Root].type \in InTree /\ pages'[Root].right = NoBlock
        /\ ~pages'[Root].follow /\ pages'[Root].nsn = 0
    BY <1>6, BlocksAssumption DEF GoodPages
  <2>5. lsn' \in Nat /\ lsn' = lsn + 1 BY <1>1
  <2>6. \A x \in Blocks : GoodPage(pages'[x]) /\ pages'[x].lsn <= lsn' BY <2>1, <2>5
  <2> QED BY <1>5, <2>3, <2>4, <2>5, <2>6 DEF GoodPages
<1>8. \A c \in Blocks : InUse(c, pages') <=> InUse(c, pages) BY <1>6 DEF InUse
<1>9. \A c : (Linked(pages', c) <=> Linked(pages, c)) /\ (Awaited(pages', c) <=> Awaited(pages, c))
  BY <1>6 DEF Linked, Awaited
<1>10. OneWay(pages')
  <2>1. ASSUME NEW x \in Blocks, NEW y \in Blocks, NEW d \in LinksOn(pages'[x])
        PROVE  /\ d.ptr \in Blocks /\ InUse(d.ptr, pages')
               /\ pages'[y].follow => d.ptr # pages'[y].right
    <3>1. d \in LinksOn(pages[x]) BY <1>6
    <3>2. /\ d.ptr \in Blocks /\ InUse(d.ptr, pages)
          /\ pages[y].follow => d.ptr # pages[y].right
      BY <3>1 DEF OneWay
    <3> QED BY <3>2, <1>6, <1>8
  <2>2. ASSUME NEW x \in Blocks, NEW y \in Blocks
        PROVE  /\ \A d \in LinksOn(pages'[x]), e \in LinksOn(pages'[y]) :
                    d.ptr = e.ptr => x = y /\ d = e
               /\ pages'[x].follow /\ pages'[y].follow /\ pages'[x].right = pages'[y].right => x = y
               /\ pages'[x].follow => pages'[x].right \in Blocks
    <3>1. /\ \A d \in LinksOn(pages[x]), e \in LinksOn(pages[y]) : d.ptr = e.ptr => x = y /\ d = e
          /\ pages[x].follow /\ pages[y].follow /\ pages[x].right = pages[y].right => x = y
          /\ pages[x].follow => pages[x].right \in Blocks
      BY DEF OneWay
    <3> QED BY <3>1, <1>6
  <2>3. \A c \in Blocks : InUse(c, pages') => Linked(pages', c) \/ Awaited(pages', c)
    BY <1>8, <1>9 DEF OneWay
  <2> QED BY <2>1, <2>2, <2>3 DEF OneWay
<1>11. ASSUME NEW x \in Blocks, NEW d \in LinksOn(pages'[x]) PROVE pages'[d.ptr].nsn <= pages'[x].lsn
  <2>1. d \in LinksOn(pages[x]) /\ x # b BY <1>3, <1>5, <1>6 DEF LinksOn
  <2>2. d.ptr \in Blocks /\ pages[d.ptr].nsn <= pages[x].lsn BY <2>1 DEF OneWay, FreshLinks
  <2> QED BY <1>5, <1>6, <2>1, <2>2
<1> QED BY <1>3, <1>5, <1>7, <1>10, <1>11 DEF FreshLinks

\* Nobody's pages change their kind.
LEMMA WitnessesStay ==
  ASSUME VInv, UNCHANGED procVars,
         \A x \in Blocks : pages'[x].type = "deleted" =>
                             pages[x].type = "deleted" /\ seenBy'[x] = seenBy[x]
  PROVE  Witnessed'
<1> SUFFICES ASSUME NEW p \in Inserters, NEW w \in Paths(p)', w # <<>>,
                    pages'[EndOf(w)].type = "deleted"
             PROVE  row'[p] \in seenBy'[EndOf(w)]
  BY DEF Witnessed
<1>1. w \in Paths(p) /\ row'[p] = row[p] BY DEF Paths, procVars
<1>2. EndOf(w) \in Blocks BY <1>1, EndNotFreed
<1> QED BY <1>1, <1>2 DEF VInv, Witnessed

\* The index tuples of the rows that are removed go; an empty leaf is remembered, and
\* a page that was split sends the pass back.
LEMMA VacuumLeafOK == ASSUME VInv, VacuumLeaf PROVE VInv'
<1> DEFINE b == vac.blk
           pg == pages[b]
           S == {t \in pg.items : RowOf(t.ptr) \notin vac.doomed}
           E == IF S = {} /\ b = vac.orig THEN vac.empty \cup {b} ELSE vac.empty
           noted == IF S = {} /\ b = vac.orig THEN [vac EXCEPT !.empty = @ \cup {b}] ELSE vac
<1>1. AtPage({"leaf"}) /\ UNCHANGED <<xlock, procVars, scan, aborts, errs, seenBy>>
      /\ (IF S = pg.items THEN UNCHANGED <<pages, lsn>>
          ELSE /\ pages' = [pages EXCEPT ![b].items = S, ![b].lsn = lsn + 1]
               /\ lsn' = lsn + 1)
      /\ vac' = IF MovedBack(pg) THEN [noted EXCEPT !.blk = pg.right] ELSE Onward(noted)
  BY DEF VacuumLeaf
<1>2. /\ vac.st = "pass" /\ b \in Blocks /\ xlock[b] = NoProc /\ pages[b].type = "leaf"
      /\ pages[b] \in Page
  BY <1>1, AtPageOK
<1>3. /\ vac.empty \in SUBSET Blocks /\ vac.inner \in SUBSET Blocks /\ vac.orig \in Nat
      /\ vac \in VacState(vac.remaining) /\ Blocks \subseteq Nat
  BY VacFields, BlocksAssumption DEF VInv, VacShape
<1>4. E \in SUBSET Blocks /\ S \subseteq pages[b].items BY <1>2, <1>3
<1>5. PICK k \in Nat, o \in Nat :
        vac' = [vac EXCEPT !.blk = k, !.orig = o, !.empty = E, !.inner = vac.inner]
  <2>1. noted = [vac EXCEPT !.empty = E] BY <1>3 DEF VacState
  <2> HIDE DEF noted, E
  <2>2. CASE MovedBack(pg)
    <3>1. pg.right \in Nat BY <2>2, <1>2, <1>3 DEF MovedBack, Page
    <3>2. vac' = [vac EXCEPT !.blk = pg.right, !.orig = vac.orig, !.empty = E, !.inner = vac.inner]
      BY <2>1, <2>2, <1>1, <1>3 DEF VacState
    <3> QED BY <3>1, <3>2, <1>3
  <2>3. CASE ~MovedBack(pg)
    <3>1. vac' = [vac EXCEPT !.blk = vac.orig + 1, !.orig = vac.orig + 1, !.empty = E,
                             !.inner = vac.inner]
      BY <2>1, <2>3, <1>1, <1>3 DEF VacState, Onward
    <3>2. vac.orig + 1 \in Nat BY <1>3
    <3> QED BY <3>1, <3>2
  <2> QED BY <2>2, <2>3
<1>6. \A x \in vac.inner : pages[x].type = "inner" BY DEF VInv, VacTargets
<1>7. seenBy' \in [Blocks -> SUBSET (Scanners \cup Rows)] BY <1>1 DEF VInv, VacShape
<1> HIDE DEF E, noted
<1>8. CASE S = pg.items
  <2>1. UNCHANGED <<vars, seenBy>> /\ pages' = pages BY <1>1, <1>8 DEF vars, treeVars
  <2> HIDE DEF b, S, pg
  <2>3. \A x \in vac.inner : pages'[x].type = "inner" BY <1>6, <2>1
  <2>2. VacShape' /\ VacTargets' /\ vac'.leaf = vac.leaf
    BY <1>2, <1>3, <1>4, <1>5, <1>7, <2>3, PassGoesOn
  <2> QED BY <2>1, <2>2, OwnStep
<1>9. CASE S # pg.items
  <2>1. pages' = [pages EXCEPT ![b].items = S, ![b].lsn = lsn + 1] /\ lsn' = lsn + 1
    BY <1>1, <1>9
  <2> HIDE DEF b, S, pg
  <2>2. /\ GoodPages(pages, lsn) /\ OneWay(pages) /\ FreshLinks(pages) /\ Held(xlock, pages)
        /\ lsn \in Nat /\ xlock \in [Blocks -> Lockers \cup {NoProc}]
    BY DEF VInv, IInv, StructInv, TypeOK
  <2>3. /\ GoodPages(pages', lsn') /\ OneWay(pages') /\ FreshLinks(pages')
        /\ pages'[b].type = "leaf" /\ pages'[b].lsn = lsn + 1
        /\ \A x \in Blocks : x # b => pages'[x] = pages[x]
    BY <2>1, <2>2, <1>2, <1>4, ThinnedOK
  <2>4. \A p \in Inserters : \A w \in Paths(p) : w # <<>> => pages'[EndOf(w)].type # "new"
    BY <2>3, <1>2, EndNotFreed
  <2>5. \A x \in Blocks : xlock[x] \in Inserters => x # b BY <1>2, VacuumStranger
  <2>6. Held(xlock, pages') BY <2>2, <2>3 DEF Held
  <2>7. Tended BY <1>1, <1>2, <2>1, <2>2, <2>3, <2>4, <2>5, <2>6 DEF Tended
  <2>8. \A x \in vac.inner : pages'[x].type = "inner" BY <1>2, <1>3, <1>6, <2>3
  <2>9. VacShape' /\ VacTargets' /\ vac'.leaf = vac.leaf
    BY <1>2, <1>3, <1>4, <1>5, <1>7, <2>8, PassGoesOn
  <2>10. VacLocks' BY <1>1, <2>9 DEF VInv, VacLocks
  <2>11. \A x \in Blocks : pages'[x].type = "deleted" =>
                             pages[x].type = "deleted" /\ seenBy'[x] = seenBy[x]
    BY <1>1, <2>3
  <2>12. Witnessed' BY <1>1, <2>11, WitnessesStay
  <2>13. NonEmpty(pages') BY <2>3 DEF VInv, NonEmpty
  <2> QED BY <2>7, <2>9, <2>10, <2>12, <2>13, TendedKeeps
<1> QED BY <1>8, <1>9

\* A step that moves but the vacuum's own lock.
LEMMA LockMoves ==
  ASSUME VInv, UNCHANGED <<pages, lsn, procVars, scan, aborts, errs, seenBy>>,
         xlock' \in [Blocks -> Lockers \cup {NoProc}],
         \A x \in Blocks : xlock[x] \in Inserters => xlock'[x] = xlock[x],
         \A x \in Blocks : xlock'[x] = xlock[x] \/ xlock'[x] = NoProc \/ pages[x].type # "new",
         VacShape', VacTargets', VacLocks'
  PROVE  VInv'
<1>1. /\ GoodPages(pages', lsn') /\ OneWay(pages') /\ FreshLinks(pages') BY DEF VInv, IInv, StructInv
<1>2. Held(xlock', pages') BY DEF VInv, StructInv, Held
<1>3. \A p \in Inserters : \A w \in Paths(p) : w # <<>> => pages'[EndOf(w)].type # "new"
  BY EndNotFreed
<1>4. Tended BY <1>1, <1>2, <1>3 DEF Tended
<1>5. Witnessed' BY WitnessesStay
<1>6. NonEmpty(pages') BY DEF VInv
<1> QED BY <1>4, <1>5, <1>6, TendedKeeps

\* A leaf to delete is locked.
LEMMA VacuumLockLeafOK == ASSUME VInv, VacuumLockLeaf PROVE VInv'
<1>1. PICK c \in vac.todel :
        /\ xlock[c] = NoProc
        /\ xlock' = [xlock EXCEPT ![c] = Vacuum]
        /\ vac' = [vac EXCEPT !.leaf = c, !.todel = @ \ {c}]
  BY DEF VacuumLockLeaf, Free
<1>2. /\ vac.st = "delete" /\ vac.leaf = NoBlock
      /\ UNCHANGED <<pages, lsn, procVars, scan, aborts, errs, seenBy>>
  BY DEF VacuumLockLeaf
<1>3. c \in Blocks /\ InUse(c, pages) /\ pages[vac.par].type = "inner"
      /\ \A b \in vac.inner : pages[b].type = "inner"
  BY <1>1, VacFields DEF VInv, VacTargets
<1>4. xlock \in [Blocks -> Lockers \cup {NoProc}] BY DEF VInv, IInv, TypeOK
<1>5. /\ xlock' \in [Blocks -> Lockers \cup {NoProc}] /\ xlock'[c] = Vacuum
      /\ \A x \in Blocks : x # c => xlock'[x] = xlock[x]
  BY <1>1, <1>3, <1>4, VacuumStranger
<1>6. /\ vac' \in VacState(vac'.remaining) /\ vac'.end = vac.end /\ vac'.inner = vac.inner
      /\ vac'.todel = vac.todel \ {c} /\ vac'.leaf = c /\ vac'.par = vac.par /\ vac'.st = vac.st
  BY <1>1, <1>3 DEF VInv, VacShape, VacState
<1>7. VacShape' BY <1>2, <1>6 DEF VInv, VacShape
<1>8. VacTargets' BY <1>2, <1>3, <1>6 DEF VInv, VacTargets
<1>9. VacLocks' BY <1>2, <1>3, <1>5, <1>6, VacuumStranger DEF VInv, VacLocks
<1>10. \A x \in Blocks : xlock[x] \in Inserters => xlock'[x] = xlock[x]
  BY <1>1, <1>5, VacuumStranger
<1>11. \A x \in Blocks : xlock'[x] = xlock[x] \/ xlock'[x] = NoProc \/ pages[x].type # "new"
  BY <1>3, <1>5 DEF InUse
<1> QED BY <1>2, <1>5, <1>7, <1>8, <1>9, <1>10, <1>11, LockMoves

\* The leaf is let go.
LEMMA VacuumGiveUpOK == ASSUME VInv, VacuumGiveUp PROVE VInv'
<1> DEFINE c == vac.leaf
<1>1. /\ c # NoBlock /\ xlock' = Unlocked({c}) /\ vac' = [vac EXCEPT !.leaf = NoBlock]
      /\ UNCHANGED <<pages, lsn, procVars, scan, aborts, errs, seenBy>>
  BY DEF VacuumGiveUp
<1>2. c \in Blocks /\ xlock[c] = Vacuum /\ xlock \in [Blocks -> Lockers \cup {NoProc}]
  BY <1>1, VacFields DEF VInv, VacLocks, IInv, TypeOK
<1>3. /\ xlock' \in [Blocks -> Lockers \cup {NoProc}] /\ xlock'[c] = NoProc
      /\ \A x \in Blocks : x # c => xlock'[x] = xlock[x]
  BY <1>1, <1>2 DEF Unlocked
<1>4. /\ vac' \in VacState(vac'.remaining) /\ vac'.end = vac.end /\ vac'.inner = vac.inner
      /\ vac'.todel = vac.todel /\ vac'.leaf = NoBlock /\ vac'.par = vac.par /\ vac'.st = vac.st
  BY <1>1 DEF VInv, VacShape, VacState
<1>5. VacShape' BY <1>1, <1>4 DEF VInv, VacShape
<1>6. vac.todel \in SUBSET Blocks BY VacFields DEF VInv
<1>7. VacTargets'
  BY <1>1, <1>4, <1>6, VacuumStranger DEF VInv, VacTargets
<1>8. VacLocks' BY <1>1, <1>2, <1>3, <1>4, VacuumStranger DEF VInv, VacLocks
<1> HIDE DEF c
<1>9. \A x \in Blocks : xlock[x] \in Inserters => xlock'[x] = xlock[x]
  BY <1>2, <1>3, VacuumStranger
<1>10. \A x \in Blocks : xlock'[x] = xlock[x] \/ xlock'[x] = NoProc \/ pages[x].type # "new"
  BY <1>3
<1> QED BY <1>1, <1>3, <1>5, <1>7, <1>8, <1>9, <1>10, LockMoves

\* What VacuumDelete makes of the inner page b and its child c, written out.
Cutting(b, c, L) ==
  pages' = [pages EXCEPT ![b].items = @ \ L, ![b].lsn = lsn + 1,
                         ![c].type = "deleted", ![c].lsn = lsn + 1]
Cut(b, c, L) ==
  /\ pages' \in [Blocks -> Page]
  /\ pages'[b].type = "inner" /\ pages'[b].items = pages[b].items \ L
  /\ pages'[b].lsn = lsn + 1 /\ pages'[b].right = pages[b].right
  /\ pages'[b].nsn = pages[b].nsn /\ pages'[b].follow = pages[b].follow
  /\ pages'[c].type = "deleted" /\ pages'[c].items = {}
  /\ pages'[c].lsn = lsn + 1 /\ pages'[c].right = pages[c].right
  /\ pages'[c].nsn = pages[c].nsn /\ ~pages'[c].follow
  /\ \A x \in Blocks : x # b /\ x # c => pages'[x] = pages[x]

LEMMA CutFacts ==
  ASSUME GoodPages(pages, lsn), NEW b \in Blocks, NEW c \in Blocks, b # c, NEW L,
         pages[b].type = "inner", ~pages[c].follow, pages[c].items = {}, Cutting(b, c, L)
  PROVE  Cut(b, c, L)
<1> DEFINE bg == [pages[b] EXCEPT !.items = @ \ L, !.lsn = lsn + 1]
           cg == [pages[c] EXCEPT !.type = "deleted", !.lsn = lsn + 1]
<1>1. pages \in [Blocks -> Page] /\ lsn + 1 \in Nat /\ pages[b] \in Page /\ pages[c] \in Page
  BY DEF GoodPages
<1>2. pages' = [pages EXCEPT ![b] = bg, ![c] = cg] BY <1>1 DEF Page, Cutting
<1>3. /\ bg \in Page /\ bg.type = "inner" /\ bg.items = pages[b].items \ L
      /\ bg.right = pages[b].right /\ bg.nsn = pages[b].nsn /\ bg.lsn = lsn + 1
      /\ bg.follow = pages[b].follow
  BY <1>1 DEF Page
<1>4. /\ cg \in Page /\ cg.type = "deleted" /\ cg.items = {} /\ cg.right = pages[c].right
      /\ cg.nsn = pages[c].nsn /\ cg.lsn = lsn + 1 /\ ~cg.follow
  BY <1>1 DEF Page
<1> HIDE DEF bg, cg
<1>5. /\ pages'[b] = bg /\ pages'[c] = cg /\ pages' \in [Blocks -> Page]
      /\ \A x \in Blocks : x # b /\ x # c => pages'[x] = pages[x]
  <2> DEFINE mid == [pages EXCEPT ![b] = bg]
  <2>1. mid \in [Blocks -> Page] /\ mid[b] = bg /\ \A x \in Blocks : x # b => mid[x] = pages[x]
    BY <1>1, <1>3
  <2>2. pages' = [mid EXCEPT ![c] = cg] BY <1>2
  <2> HIDE DEF mid
  <2>3. pages' \in [Blocks -> Page] /\ pages'[c] = cg /\ \A x \in Blocks : x # c => pages'[x] = mid[x]
    BY <2>1, <2>2, <1>4
  <2> QED BY <2>1, <2>3
<1> QED BY <1>3, <1>4, <1>5 DEF Cut

\* A leaf and its only way in go away together.
LEMMA DeletedOK ==
  ASSUME GoodPages(pages, lsn), OneWay(pages), FreshLinks(pages),
         NEW b \in Blocks, NEW c \in Blocks \ {Root}, b # c,
         pages[b].type = "inner", pages[c].type = "leaf", ~pages[c].follow,
         DownlinksOn(b, c) # {}, Cut(b, c, DownlinksOn(b, c)), lsn' = lsn + 1
  PROVE  /\ GoodPages(pages', lsn') /\ OneWay(pages') /\ FreshLinks(pages')
         /\ \E d \in pages[b].items : DownlinksOn(b, c) = {d}
<1> DEFINE L == DownlinksOn(b, c)
<1>1. /\ pages \in [Blocks -> Page] /\ lsn \in Nat /\ lsn + 1 \in Nat
      /\ \A x \in Blocks : pages[x] \in Page /\ GoodPage(pages[x]) /\ pages[x].lsn <= lsn
                           /\ pages[x].lsn \in Nat /\ pages[x].nsn \in Nat
                           /\ pages[x].right \in Blocks \cup {NoBlock}
  BY DEF GoodPages, Page
<1>2. Cut(b, c, L) /\ \A d \in L : d.ptr = c /\ d \in pages[b].items BY DEF DownlinksOn
<1> HIDE DEF L
<1>6. /\ pages' \in [Blocks -> Page] /\ \A x \in Blocks : x # b /\ x # c => pages'[x] = pages[x]
  BY <1>2 DEF Cut
<1>5. GoodPage(pages'[b]) /\ GoodPage(pages'[c])
  <2>1. /\ pages[b].nsn <= pages[b].lsn /\ pages[b].lsn <= lsn /\ pages[b].right # Root
        /\ pages[c].nsn <= pages[c].lsn /\ pages[c].lsn <= lsn /\ pages[c].right # Root
        /\ \A d \in pages[b].items : d.ptr \in Blocks
        /\ pages[b].nsn \in Nat /\ pages[b].lsn \in Nat /\ pages[c].nsn \in Nat /\ pages[c].lsn \in Nat
    BY <1>1 DEF GoodPage
  <2>2. pages'[b] \in Page /\ pages'[c] \in Page BY <1>6
  <2> QED BY <1>1, <1>2, <2>1, <2>2 DEF GoodPage, Cut
<1>7. ASSUME NEW x \in Blocks
      PROVE  /\ pages'[x].right = pages[x].right
             /\ pages'[x].follow <=> pages[x].follow
             /\ pages'[x].nsn = pages[x].nsn
             /\ pages'[x].type = IF x = c THEN "deleted" ELSE pages[x].type
             /\ pages'[x].lsn = lsn + 1 \/ pages'[x].lsn = pages[x].lsn
             /\ LinksOn(pages'[x]) = IF x = b THEN LinksOn(pages[x]) \ L ELSE LinksOn(pages[x])
  <2>1. CASE x = b BY <1>2, <2>1 DEF Cut, LinksOn
  <2>2. CASE x = c BY <1>2, <2>2 DEF Cut, LinksOn
  <2>3. CASE x # b /\ x # c BY <1>6, <2>3
  <2> QED BY <2>1, <2>2, <2>3
<1>9. PICK l \in LinksOn(pages[b]) : l.ptr = c BY DEF DownlinksOn, LinksOn
<1>10. \A x \in Blocks : \A d \in LinksOn(pages[x]) : d.ptr = c => x = b /\ d = l
  BY <1>9 DEF OneWay
<1>11. \A x \in Blocks : pages[x].follow => pages[x].right # c BY <1>9 DEF OneWay
<1>12. L = {l} /\ l \in pages[b].items
  <2>1. \A d \in L : d \in LinksOn(pages[b]) /\ d.ptr = c BY <1>2 DEF LinksOn
  <2>2. l \in L /\ l \in pages[b].items BY <1>9 DEF L, DownlinksOn, LinksOn
  <2> QED BY <2>1, <2>2, <1>10
<1>13. \A x \in Blocks : \A d \in LinksOn(pages'[x]) :
          d \in LinksOn(pages[x]) /\ d.ptr # c
  <2> SUFFICES ASSUME NEW x \in Blocks, NEW d \in LinksOn(pages'[x])
               PROVE  d \in LinksOn(pages[x]) /\ d.ptr # c
    OBVIOUS
  <2>1. d \in LinksOn(pages[x]) /\ (x = b => d \notin L) BY <1>7
  <2> QED BY <2>1, <1>10, <1>12
<1>14. \A x \in Blocks : InUse(x, pages') <=> InUse(x, pages) /\ x # c BY <1>7 DEF InUse
<1>15. GoodPages(pages', lsn')
  <2>1. ASSUME NEW x \in Blocks PROVE GoodPage(pages'[x]) /\ pages'[x].lsn <= lsn + 1
    <3>1. GoodPage(pages'[x]) BY <1>1, <1>5, <1>6
    <3>2. pages'[x].lsn = lsn + 1 \/ pages'[x].lsn = pages[x].lsn BY <1>7
    <3>3. pages[x].lsn \in Nat /\ pages[x].lsn <= lsn /\ lsn \in Nat BY <1>1
    <3> QED BY <3>1, <3>2, <3>3
  <2>2. ASSUME NEW x \in Blocks, pages'[x].type = "inner" \/ pages'[x].follow,
               pages'[x].right # NoBlock
        PROVE  pages'[pages'[x].right].type = pages'[x].type
    <3>1. x # c BY <2>2, <1>2 DEF Cut
    <3>2. /\ pages[x].type = "inner" \/ pages[x].follow
          /\ pages[x].right \in Blocks /\ pages'[x].type = pages[x].type
      BY <3>1, <2>2, <1>1, <1>7
    <3>3. pages[pages[x].right].type = pages[x].type BY <3>2, BlocksAssumption DEF GoodPages
    <3>4. pages[x].right # c BY <3>2, <3>3, <1>11
    <3> QED BY <3>2, <3>3, <3>4, <1>7
  <2>3. /\ pages'[Root].type \in InTree /\ pages'[Root].right = NoBlock
        /\ ~pages'[Root].follow /\ pages'[Root].nsn = 0
    BY <1>7, BlocksAssumption DEF GoodPages
  <2>4. lsn' \in Nat /\ lsn' = lsn + 1 BY <1>1
  <2> QED BY <1>6, <2>1, <2>2, <2>3, <2>4 DEF GoodPages
<1>16. OneWay(pages')
  <2>1. ASSUME NEW x \in Blocks, NEW y \in Blocks
        PROVE  /\ \A d \in LinksOn(pages'[x]), e \in LinksOn(pages'[y]) :
                    d.ptr = e.ptr => x = y /\ d = e
               /\ pages'[x].follow /\ pages'[y].follow /\ pages'[x].right = pages'[y].right => x = y
               /\ pages'[x].follow => pages'[x].right \in Blocks
    <3>1. /\ \A d \in LinksOn(pages[x]), e \in LinksOn(pages[y]) : d.ptr = e.ptr => x = y /\ d = e
          /\ pages[x].follow /\ pages[y].follow /\ pages[x].right = pages[y].right => x = y
          /\ pages[x].follow => pages[x].right \in Blocks
      BY DEF OneWay
    <3>2. /\ pages'[x].right = pages[x].right /\ (pages'[x].follow <=> pages[x].follow)
          /\ pages'[y].right = pages[y].right /\ (pages'[y].follow <=> pages[y].follow)
      BY <1>7
    <3>3. \A d \in LinksOn(pages'[x]), e \in LinksOn(pages'[y]) :
            d \in LinksOn(pages[x]) /\ e \in LinksOn(pages[y])
      BY <1>13
    <3>4. \A d \in LinksOn(pages'[x]), e \in LinksOn(pages'[y]) : d.ptr = e.ptr => x = y /\ d = e
      BY <3>1, <3>3
    <3> QED BY <3>1, <3>2, <3>4
  <2>2. ASSUME NEW x \in Blocks, NEW y \in Blocks, NEW d \in LinksOn(pages'[x])
        PROVE  /\ d.ptr \in Blocks /\ InUse(d.ptr, pages')
               /\ pages'[y].follow => d.ptr # pages'[y].right
    <3>1. d \in LinksOn(pages[x]) /\ d.ptr # c BY <1>13
    <3>2. /\ d.ptr \in Blocks /\ InUse(d.ptr, pages)
          /\ pages[y].follow => d.ptr # pages[y].right
      BY <3>1 DEF OneWay
    <3> QED BY <3>1, <3>2, <1>7, <1>14
  <2>3. ASSUME NEW x \in Blocks, InUse(x, pages') PROVE Linked(pages', x) \/ Awaited(pages', x)
    <3>1. InUse(x, pages) /\ x # c BY <2>3, <1>14
    <3>2. CASE Linked(pages, x)
      <4>1. PICK y \in Blocks : \E d \in LinksOn(pages[y]) : d.ptr = x BY <3>2 DEF Linked
      <4>2. PICK d \in LinksOn(pages[y]) : d.ptr = x BY <4>1
      <4>3. d # l BY <4>2, <3>1, <1>9
      <4>4. d \in LinksOn(pages'[y]) BY <4>2, <4>3, <1>7, <1>12
      <4> QED BY <4>2, <4>4 DEF Linked
    <3>3. CASE Awaited(pages, x) BY <3>3, <1>7 DEF Awaited
    <3> QED BY <3>1, <3>2, <3>3 DEF OneWay
  <2> QED BY <2>1, <2>2, <2>3 DEF OneWay
<1>17. ASSUME NEW x \in Blocks, NEW d \in LinksOn(pages'[x]) PROVE pages'[d.ptr].nsn <= pages'[x].lsn
  <2>1. d \in LinksOn(pages[x]) BY <1>13
  <2>2. d.ptr \in Blocks /\ pages[d.ptr].nsn <= pages[x].lsn BY <2>1 DEF OneWay, FreshLinks
  <2>3. pages[x].lsn <= pages'[x].lsn /\ pages'[x].lsn \in Nat
    <3>1. pages'[x].lsn = lsn + 1 \/ pages'[x].lsn = pages[x].lsn BY <1>7
    <3>2. pages[x].lsn \in Nat /\ pages[x].lsn <= lsn /\ lsn \in Nat BY <1>1
    <3> QED BY <3>1, <3>2
  <2>4. pages[d.ptr].nsn \in Nat /\ pages[x].lsn \in Nat BY <2>2, <1>1
  <2>5. pages'[d.ptr].nsn = pages[d.ptr].nsn BY <2>2, <1>7
  <2> QED BY <2>2, <2>3, <2>4, <2>5
<1> QED BY <1>12, <1>15, <1>16, <1>17 DEF FreshLinks, L

\* An empty leaf is deleted.
LEMMA VacuumDeleteOK == ASSUME VInv, VacuumDelete PROVE VInv'
<1> DEFINE b == vac.par
           c == vac.leaf
           n == IF pages[b].lsn = vac.plsn THEN lsn + 1 ELSE vac.plsn
<1>1. /\ c # NoBlock /\ xlock[b] = NoProc /\ Deletable(b, c)
      /\ pages' = [pages EXCEPT ![b].items = @ \ DownlinksOn(b, c), ![b].lsn = lsn + 1,
                                ![c].type = "deleted", ![c].lsn = lsn + 1]
      /\ lsn' = lsn + 1 /\ xlock' = Unlocked({c}) /\ seenBy' = [seenBy EXCEPT ![c] = Underway]
      /\ vac' = [vac EXCEPT !.leaf = NoBlock, !.plsn = n]
      /\ UNCHANGED <<procVars, scan, aborts, errs>>
  BY DEF VacuumDelete, Free
<1>2. /\ b \in Blocks /\ c \in Blocks /\ vac.plsn \in Nat /\ vac.todel \in SUBSET Blocks
      /\ vac.inner \in SUBSET Blocks
  BY <1>1, VacFields DEF VInv
<1>3. /\ pages[b].type = "inner" /\ InUse(c, pages) /\ c \notin vac.todel
      /\ (\A x \in vac.inner : pages[x].type = "inner") /\ (\A x \in vac.todel : InUse(x, pages))
      /\ vac.st = "delete"
  BY <1>1 DEF VInv, VacTargets
<1>4. /\ pages[c].type = "leaf" /\ ~pages[c].follow /\ pages[c].items = {}
      /\ Cardinality(pages[b].items) > 1 /\ DownlinksOn(b, c) # {}
  BY <1>1 DEF Deletable
<1>5. /\ GoodPages(pages, lsn) /\ OneWay(pages) /\ FreshLinks(pages) /\ Held(xlock, pages)
      /\ lsn \in Nat /\ xlock \in [Blocks -> Lockers \cup {NoProc}]
      /\ seenBy \in [Blocks -> SUBSET (Scanners \cup Rows)] /\ vac \in VacState(vac.remaining)
  BY DEF VInv, IInv, StructInv, TypeOK, VacShape
<1>6. xlock[c] = Vacuum /\ b # c BY <1>1, <1>2, <1>3, <1>4 DEF VInv, VacLocks
<1>7. n \in Nat BY <1>2, <1>5
<1> HIDE DEF b, c, n
<1>8. c \in Blocks \ {Root} BY <1>2, <1>3 DEF InUse
<1>9. /\ GoodPages(pages', lsn') /\ OneWay(pages') /\ FreshLinks(pages')
      /\ pages'[b].type = "inner" /\ pages'[b].lsn = lsn + 1
      /\ pages'[b].items = pages[b].items \ DownlinksOn(b, c)
      /\ pages'[c].type = "deleted" /\ pages'[c].lsn = lsn + 1
      /\ \A x \in Blocks : x # b /\ x # c => pages'[x] = pages[x]
      /\ \E d \in pages[b].items : DownlinksOn(b, c) = {d}
  <2>1. Cut(b, c, DownlinksOn(b, c))
    <3>1. Cutting(b, c, DownlinksOn(b, c)) BY <1>1 DEF Cutting
    <3> QED BY <3>1, <1>2, <1>3, <1>4, <1>5, <1>6, CutFacts
  <2>2. /\ GoodPages(pages', lsn') /\ OneWay(pages') /\ FreshLinks(pages')
        /\ \E d \in pages[b].items : DownlinksOn(b, c) = {d}
    BY <1>1, <1>2, <1>3, <1>4, <1>5, <1>6, <1>8, <2>1, DeletedOK
  <2> QED BY <2>1, <2>2 DEF Cut
<1>10. /\ xlock' \in [Blocks -> Lockers \cup {NoProc}] /\ xlock'[c] = NoProc
       /\ \A x \in Blocks : x # c => xlock'[x] = xlock[x]
  BY <1>1, <1>2, <1>5 DEF Unlocked
<1>11. \A x \in Blocks : /\ pages[x].type # "new" => pages'[x].type # "new"
                         /\ x # c => pages'[x].type = pages[x].type
  BY <1>3, <1>9
<1>12. Held(xlock', pages') BY <1>5, <1>10, <1>11 DEF Held
<1>13. \A p \in Inserters : \A w \in Paths(p) : w # <<>> => pages'[EndOf(w)].type # "new"
  BY <1>11, EndNotFreed
<1>14. \A x \in Blocks : xlock[x] \in Inserters => x # b /\ x # c BY <1>1, <1>6, VacuumStranger
<1>15. Tended
  <2>1. \A x \in Blocks : xlock[x] \in Inserters => xlock'[x] = xlock[x] /\ pages'[x] = pages[x]
    BY <1>9, <1>10, <1>14
  <2>2. /\ \A x \in Blocks : pages[x].type = "inner" => pages'[x].type = "inner"
        /\ \A x \in Blocks : pages[x].type = "leaf" => pages'[x].type \in {"leaf", "deleted"}
        /\ \A x \in Blocks : pages[x].type = "deleted" => pages'[x].type \in {"deleted", "new"}
    BY <1>4, <1>9, <1>11
  <2>3. \A x \in Blocks : pages'[x] = pages[x] \/ (pages'[x].lsn = lsn' /\ lsn' = lsn + 1)
    BY <1>1, <1>9
  <2> QED BY <1>1, <1>9, <1>10, <1>12, <1>13, <2>1, <2>2, <2>3 DEF Tended
<1>16. /\ vac' \in VacState(vac'.remaining) /\ vac'.end = vac.end /\ vac'.inner = vac.inner
       /\ vac'.todel = vac.todel /\ vac'.leaf = NoBlock /\ vac'.par = b /\ vac'.st = vac.st
  BY <1>1, <1>5, <1>7 DEF VacState, b
<1>17. Underway \subseteq Scanners \cup Rows BY DEF Underway, Running
<1>18. /\ seenBy' \in [Blocks -> SUBSET (Scanners \cup Rows)] /\ seenBy'[c] = Underway
       /\ \A x \in Blocks : x # c => seenBy'[x] = seenBy[x]
  BY <1>1, <1>2, <1>5, <1>17
<1>19. VacShape' BY <1>16, <1>18 DEF VInv, VacShape
<1>20. VacTargets'
  <2>1. \A x \in vac.inner : pages'[x].type = "inner" BY <1>2, <1>3, <1>4, <1>11
  <2>2. \A x \in vac.todel : InUse(x, pages') BY <1>2, <1>3, <1>11 DEF InUse
  <2>3. NoBlock \notin vac.todel BY <1>2, VacuumStranger
  <2> QED BY <1>3, <1>9, <1>16, <2>1, <2>2, <2>3 DEF VacTargets
<1>21. VacLocks' BY <1>2, <1>6, <1>10, <1>16, VacuumStranger DEF VInv, VacLocks, c
<1>22. Witnessed'
  <2> SUFFICES ASSUME NEW p \in Inserters, NEW w \in Paths(p)', w # <<>>,
                      pages'[EndOf(w)].type = "deleted"
               PROVE  row'[p] \in seenBy'[EndOf(w)]
    BY DEF Witnessed
  <2>1. w \in Paths(p) /\ row'[p] = row[p] BY <1>1 DEF Paths, procVars
  <2>2. EndOf(w) \in Blocks BY <2>1, EndNotFreed
  <2>3. CASE EndOf(w) = c
    <3>1. pc[p] # "idle" BY <2>1 DEF VInv, RowsBusy, Paths
    <3>2. rowst[row[p]] = "inserting" /\ row[p] \in Rows BY <3>1 DEF VInv, RowsBusy, IInv, TypeOK
    <3> QED BY <2>1, <2>3, <3>2, <1>18 DEF Underway
  <2>4. CASE EndOf(w) # c
    <3>1. pages[EndOf(w)].type = "deleted" BY <2>2, <2>4, <1>11
    <3> QED BY <2>1, <2>2, <2>4, <3>1, <1>18 DEF VInv, Witnessed
  <2> QED BY <2>3, <2>4
<1>23. NonEmpty(pages')
  <2>1. pages'[b].items # {}
    <3>1. PICK d \in pages[b].items : DownlinksOn(b, c) = {d} BY <1>9
    <3>2. ASSUME pages'[b].items = {} PROVE FALSE
      <4>1. pages[b].items = {d} BY <3>1, <3>2, <1>9
      <4>2. Cardinality(pages[b].items) = 1 BY <4>1, FS_Singleton
      <4> QED BY <4>2, <1>4
    <3> QED BY <3>2
  <2> QED BY <2>1, <1>9 DEF VInv, NonEmpty
<1> QED BY <1>15, <1>19, <1>20, <1>21, <1>22, <1>23, TendedKeeps

\* A row that is deleted is none that somebody inserts.
LEMMA KillOK == ASSUME VInv, NEW r \in Rows, Kill(r) PROVE VInv'
<1>1. /\ UNCHANGED <<pages, lsn, xlock, pc, row, pos, stack, xheld, child, fin, ret, bfs, scan,
                     aborts, errs, vac, seenBy>>
      /\ rowst[r] = "present" /\ rowst' = [rowst EXCEPT ![r] = "dead"]
  BY DEF Kill, treeVars
<1>2. rowst \in [Rows -> {"absent", "inserting", "present", "aborted", "dead"}]
  BY DEF VInv, IInv, TypeOK
<1>3. rowst' \in [Rows -> {"absent", "inserting", "present", "aborted", "dead"}]
      /\ \A q \in Rows : rowst[q] = "inserting" => rowst'[q] = "inserting"
  BY <1>1, <1>2
<1>4. TypeOK' BY <1>1, <1>3 DEF VInv, IInv, TypeOK
<1>5. \A p \in Inserters : ProcOK(p)' BY <1>1 DEF VInv, IInv, ProcOK
<1>6. IInv' BY <1>1, <1>4, <1>5 DEF VInv, IInv
<1>7. StructInv' BY <1>1 DEF VInv, StructInv, ProcStruct
<1>8. RowsBusy'
  <2>1. \A p \in Inserters : row[p] \in Rows BY DEF VInv, IInv, TypeOK
  <2> QED BY <1>1, <1>3, <2>1 DEF VInv, RowsBusy
<1>9. VacShape' /\ VacLocks' /\ VacTargets' /\ NonEmpty(pages')
  BY <1>1 DEF VInv, VacShape, VacLocks, VacTargets
<1>10. Witnessed' BY <1>1 DEF VInv, Witnessed, Paths
<1> QED BY <1>6, <1>7, <1>8, <1>9, <1>10 DEF VInv
-----------------------------------------------------------------------------
(***************************************************************************)
(* What a step of an inserter does to its row and to the pages it has in   *)
(* mind.                                                                   *)
(***************************************************************************)
KeepsRow(p) ==
  \/ pc'[p] # "idle" /\ rowst' = rowst /\ row'[p] = row[p]
  \/ /\ pc'[p] = "idle" /\ stack'[p] = <<>>
     /\ \E st \in {"present", "aborted"} : rowst' = [rowst EXCEPT ![row[p]] = st]

\* A page comes into mind while it is in use.
KnownEnd(p, w) ==
  \/ w = <<>>
  \/ EndOf(w) \in Blocks /\ pages[EndOf(w)].type \in InTree
  \/ \E v \in Paths(p) : v # <<>> /\ EndOf(v) = EndOf(w)

Moves(p) ==
  /\ pc[p] # "idle" /\ UNCHANGED <<scan, aborts>>
  /\ KeepsRow(p)
  /\ pc'[p] # "findpath" => bfs'[p] = {}
  /\ \A w \in Paths(p)' : KnownEnd(p, w)

\* A step that does not search the tree for a parent.
LEMMA MovesStack ==
  ASSUME VInv, NEW p \in Inserters, pc[p] \notin {"idle", "findpath"},
         UNCHANGED <<bfs, scan, aborts>>, KeepsRow(p), KnownEnd(p, stack'[p])
  PROVE  Moves(p)
<1>1. bfs[p] = {} BY DEF VInv, RowsBusy
<1>2. bfs'[p] = {} BY <1>1
<1> QED BY <1>2 DEF Moves, Paths

\* The stack is what it was, as far as its last page goes.
LEMMA KnownTop ==
  ASSUME VInv, NEW p \in Inserters, pc[p] # "idle", NEW st, Len(st) = Depth(p),
         st[Depth(p)].blk = Top(p).blk
  PROVE  KnownEnd(p, st)
<1>1. stack[p] # <<>> /\ EndOf(stack[p]) = Top(p).blk
  <2>1. Depth(p) \in Nat /\ Depth(p) >= 1 BY TopFacts DEF VInv
  <2> QED BY <2>1 DEF Depth, EndOf, Top
<1> QED BY <1>1 DEF KnownEnd, Paths, EndOf

LEMMA KnownSeen ==
  ASSUME VInv, NEW p \in Inserters, pc[p] # "idle"
  PROVE  KnownEnd(p, stack[p]) /\ KnownEnd(p, SeenStack(p))
<1>1. /\ Len(SeenStack(p)) = Depth(p) /\ SeenStack(p)[Len(SeenStack(p))].blk = Top(p).blk
  BY SeenFacts, SeenKind DEF VInv
<1>2. Len(stack[p]) = Depth(p) /\ stack[p][Depth(p)].blk = Top(p).blk BY DEF Depth, Top
<1> QED BY <1>1, <1>2, KnownTop

\* The root is always in use, an internal page leads to pages in use, and so does the
\* parent of a frame.
LEMMA KnownRoot == ASSUME VInv, NEW p PROVE KnownEnd(p, <<NewFrame(Root)>>)
<1>1. NewFrame(Root).blk = Root /\ Root \in Blocks BY NewFrameType, BlocksAssumption
<1>2. pages[Root].type \in InTree BY DEF VInv, IInv, GoodPages
<1>3. EndOf(<<NewFrame(Root)>>) = Root BY <1>1 DEF EndOf
<1> QED BY <1>1, <1>2, <1>3 DEF KnownEnd

LEMMA KnownChild ==
  ASSUME VInv, NEW p, NEW b \in Blocks, pages[b].type = "inner", NEW d \in pages[b].items,
         NEW st \in Seq(Frame)
  PROVE  d.ptr \in Blocks /\ KnownEnd(p, Append(st, NewFrame(d.ptr)))
<1>1. d.ptr \in Blocks /\ InUse(d.ptr, pages) BY DEF VInv, StructInv, OneWay, LinksOn
<1>2. NewFrame(d.ptr) \in Frame /\ NewFrame(d.ptr).blk = d.ptr BY <1>1, NewFrameType
<1>3. EndOf(Append(st, NewFrame(d.ptr))) = d.ptr
  <2> DEFINE f == NewFrame(d.ptr)
  <2>1. Len(Append(st, f)) = Len(st) + 1 /\ Append(st, f)[Len(st) + 1] = f
    BY <1>2, AppendProperties
  <2> QED BY <2>1, <1>2 DEF EndOf
<1> QED BY <1>1, <1>3 DEF KnownEnd, InUse

LEMMA KnownPop ==
  ASSUME VInv, NEW p \in Inserters, pc[p] # "idle", Depth(p) >= 2
  PROVE  KnownEnd(p, SubSeq(stack[p], 1, Depth(p) - 1))
<1> DEFINE st == SubSeq(stack[p], 1, Depth(p) - 1)
           n == Depth(p) - 1
<1>1. stack[p] \in Seq(Frame) /\ Len(stack[p]) \in Nat /\ Len(stack[p]) = Depth(p)
  BY TopFacts DEF VInv, Depth
<1>2. n \in 1..Len(stack[p]) - 1 /\ n \in 1..Len(stack[p]) BY <1>1
<1>3. Len(st) = n /\ st[n] = stack[p][n]
  BY <1>1, <1>2, SubSeqProperties
<1>4. stack[p][n].blk \in Blocks /\ pages[stack[p][n].blk].type = "inner"
  BY <1>1, <1>2, FrameBlocks DEF VInv, StructInv, ProcStruct, UsedFrames
<1>5. EndOf(st) = stack[p][n].blk BY <1>3 DEF EndOf
<1> HIDE DEF n
<1> QED BY <1>4, <1>5 DEF KnownEnd

\* One entry is in.
LEMMA EntryDoneMoves ==
  ASSUME VInv, NEW p \in Inserters, pc[p] \notin {"idle", "findpath"},
         UNCHANGED <<bfs, scan, aborts>>, EntryDone(p)
  PROVE  Moves(p)
<1>1. CASE pos[p] < Len(EntriesOf[row[p]])
  <2>1. stack'[p] = <<NewFrame(Root)>> /\ pc'[p] = "visit" /\ rowst' = rowst /\ row' = row
    BY <1>1 DEF EntryDone, Proceed, VInv, IInv, TypeOK
  <2> QED BY <2>1, KnownRoot, MovesStack DEF KeepsRow
<1>2. CASE ~(pos[p] < Len(EntriesOf[row[p]]))
  <2>1. stack'[p] = <<>> /\ pc'[p] = "idle" /\ rowst' = [rowst EXCEPT ![row[p]] = "present"]
    BY <1>2 DEF EntryDone, Proceed, VInv, IInv, TypeOK
  <2> QED BY <2>1, MovesStack DEF KeepsRow, KnownEnd
<1> QED BY <1>1, <1>2

\* A frame is given up.
LEMMA PopMoves ==
  ASSUME VInv, NEW p \in Inserters, pc[p] \notin {"idle", "findpath"}, Depth(p) >= 2, PopTo(p),
         UNCHANGED <<rowst, row, bfs, scan, aborts>>, pc'[p] # "idle"
  PROVE  Moves(p)
<1>1. stack'[p] = SubSeq(stack[p], 1, Depth(p) - 1) BY DEF PopTo, VInv, IInv, TypeOK
<1> QED BY <1>1, KnownPop, MovesStack DEF KeepsRow

\* An error of the tree code.
LEMMA AbandonMoves ==
  ASSUME VInv, NEW p \in Inserters, pc[p] # "idle", Abandon(p), UNCHANGED aborts PROVE Moves(p)
<1>1. /\ stack'[p] = <<>> /\ bfs'[p] = {} /\ pc'[p] = "idle" /\ UNCHANGED scan
      /\ rowst' = [rowst EXCEPT ![row[p]] = "aborted"]
  BY DEF Abandon, Proceed, VInv, IInv, TypeOK
<1> QED BY <1>1 DEF Moves, KeepsRow, Paths, KnownEnd
-----------------------------------------------------------------------------
LEMMA PlaceDownlinkMoves ==
  ASSUME VInv, NEW p \in Inserters, pc[p] \in {"visit", "lockinner"},
         TopPage(p).type = "inner", NEW d \in TopPage(p).items, PlaceDownlink(p, d)
  PROVE  Moves(p)
<1>1. UNCHANGED <<rowst, row, bfs, scan, aborts>> BY DEF PlaceDownlink
<1>2. pc'[p] \in {"visit", "finish"}
  BY DEF PlaceDownlink, StartFinish, Proceed, VInv, IInv, TypeOK
<1>3. stack'[p] \in {SeenStack(p), Append(SeenStack(p), NewFrame(d.ptr))}
  BY DEF PlaceDownlink, VInv, IInv, TypeOK
<1>4. SeenStack(p) \in Seq(Frame) /\ Top(p).blk \in Blocks BY SeenFacts, TopFacts DEF VInv
<1>5. KnownEnd(p, Append(SeenStack(p), NewFrame(d.ptr))) BY <1>4, KnownChild DEF TopPage
<1>6. KnownEnd(p, stack'[p]) BY <1>3, <1>5, KnownSeen
<1> QED BY <1>1, <1>2, <1>6, MovesStack DEF KeepsRow

LEMMA PlaceEntryMoves ==
  ASSUME VInv, NEW p \in Inserters, pc[p] \in {"visit", "lockleaf"}, PlaceEntry(p)
  PROVE  Moves(p)
<1>1. UNCHANGED <<bfs, scan, aborts>> BY DEF PlaceEntry
<1>2. \/ EntryDone(p)
      \/ /\ \E P, blks : StartFinish(p, P, blks, "leaf")
         /\ stack' = [stack EXCEPT ![p] = SeenStack(p)]
         /\ UNCHANGED <<rowst, row, pos>>
  BY DEF PlaceEntry
<1>3. CASE /\ \E P, blks : StartFinish(p, P, blks, "leaf")
           /\ stack' = [stack EXCEPT ![p] = SeenStack(p)]
           /\ UNCHANGED <<rowst, row, pos>>
  <2>1. pc'[p] = "finish" /\ stack'[p] = SeenStack(p)
    BY <1>3 DEF StartFinish, Proceed, VInv, IInv, TypeOK
  <2> QED BY <1>1, <1>3, <2>1, KnownSeen, MovesStack DEF KeepsRow
<1> QED BY <1>1, <1>2, <1>3, EntryDoneMoves

\* The descent.
LEMMA DescentMoves ==
  ASSUME VInv, NEW p \in Inserters,
         PopRetry(p) \/ VisitStale(p) \/ VisitInner(p) \/ VisitAdjust(p) \/ VisitLeaf(p)
  PROVE  Moves(p)
<1>1. pc[p] = "visit" /\ pc[p] # "idle"
  BY DEF PopRetry, VisitStale, VisitInner, VisitAdjust, VisitLeaf, Visiting
<1>2. CASE PopRetry(p)
  <2>1. Depth(p) >= 2 BY <1>1, <1>2, TopFacts DEF PopRetry, VInv
  <2> QED BY <1>1, <1>2, <2>1, PopMoves DEF PopRetry
<1>3. CASE VisitStale(p)
  <2>1. Depth(p) >= 2 BY <1>1, <1>3, TopFacts DEF VisitStale, Stale, VInv
  <2> QED BY <1>1, <1>3, <2>1, PopMoves DEF VisitStale
<1>4. CASE VisitInner(p)
  <2>1. UNCHANGED <<rowst, pc, row, bfs, scan, aborts>> /\ TopPage(p).type = "inner"
    BY <1>4 DEF VisitInner
  <2>2. PICK d \in TopPage(p).items :
          stack' = [stack EXCEPT ![p] = Append(SeenStack(p), NewFrame(d.ptr))]
    BY <1>4 DEF VisitInner
  <2>3. stack'[p] = Append(SeenStack(p), NewFrame(d.ptr)) BY <2>2 DEF VInv, IInv, TypeOK
  <2>4. SeenStack(p) \in Seq(Frame) /\ Top(p).blk \in Blocks
    BY <1>1, SeenFacts, TopFacts DEF VInv
  <2>5. KnownEnd(p, stack'[p]) BY <2>1, <2>3, <2>4, KnownChild DEF TopPage
  <2> QED BY <1>1, <2>1, <2>5, MovesStack DEF KeepsRow
<1>5. CASE VisitAdjust(p)
  <2>1. TopPage(p).type = "inner" BY <1>5 DEF VisitAdjust
  <2>2. PICK d \in TopPage(p).items :
          \/ PlaceDownlink(p, d)
          \/ /\ stack' = [stack EXCEPT ![p] = SeenStack(p)] /\ Proceed(p, "lockinner")
             /\ UNCHANGED <<rowst, row, bfs, scan, aborts>>
    BY <1>5 DEF VisitAdjust
  <2>3. CASE PlaceDownlink(p, d) BY <1>1, <2>1, <2>3, PlaceDownlinkMoves
  <2>4. CASE /\ stack' = [stack EXCEPT ![p] = SeenStack(p)] /\ Proceed(p, "lockinner")
             /\ UNCHANGED <<rowst, row, bfs, scan, aborts>>
    <3>1. stack'[p] = SeenStack(p) /\ pc'[p] = "lockinner"
      BY <2>4 DEF Proceed, VInv, IInv, TypeOK
    <3> QED BY <1>1, <2>4, <3>1, KnownSeen, MovesStack DEF KeepsRow
  <2> QED BY <2>2, <2>3, <2>4
<1>6. CASE VisitLeaf(p)
  <2>1. CASE PlaceEntry(p) BY <1>1, <2>1, PlaceEntryMoves
  <2>2. CASE /\ stack' = [stack EXCEPT ![p] = SeenStack(p)] /\ Proceed(p, "lockleaf")
             /\ UNCHANGED <<rowst, row, bfs, scan, aborts>>
    <3>1. stack'[p] = SeenStack(p) /\ pc'[p] = "lockleaf"
      BY <2>2 DEF Proceed, VInv, IInv, TypeOK
    <3> QED BY <1>1, <2>2, <3>1, KnownSeen, MovesStack DEF KeepsRow
  <2> QED BY <1>6, <2>1, <2>2 DEF VisitLeaf
<1> QED BY <1>2, <1>3, <1>4, <1>5, <1>6

\* Swapping the lock, and taking over a split.
LEMMA LockMovesOn ==
  ASSUME VInv, NEW p \in Inserters,
         LockInner(p) \/ LockLeaf(p) \/ VisitFollow(p) \/ LockFix(p) \/ FixChain(p)
         \/ FinishLock(p)
  PROVE  Moves(p)
<1>1. pc[p] \notin {"idle", "findpath"}
  BY DEF LockInner, LockLeaf, VisitFollow, LockFix, FixChain, FinishLock, Visiting, Finishing
<1>2. CASE UNCHANGED <<rowst, row, bfs, scan, aborts>> /\ pc'[p] # "idle"
           /\ stack' \in {stack, [stack EXCEPT ![p] = SeenStack(p)]}
  <2>1. stack'[p] \in {stack[p], SeenStack(p)} BY <1>2 DEF VInv, IInv, TypeOK
  <2> QED BY <1>1, <1>2, <2>1, KnownSeen, MovesStack DEF KeepsRow
<1>3. CASE LockInner(p)
  <2>1. CASE \E d \in TopPage(p).items : PlaceDownlink(p, d)
    <3>1. TopPage(p).type = "inner"
      BY <1>3 DEF LockInner, VInv, IInv, ProcOK, KindOK, TopPage, Top, Depth
    <3> QED BY <1>3, <2>1, <3>1, PlaceDownlinkMoves DEF LockInner
  <2>2. CASE Proceed(p, "visit") /\ UNCHANGED <<rowst, row, stack, bfs, scan, aborts>>
    <3>1. pc'[p] = "visit" BY <2>2 DEF Proceed, VInv, IInv, TypeOK
    <3> QED BY <2>2, <3>1, <1>2
  <2> QED BY <1>3, <2>1, <2>2 DEF LockInner
<1>4. CASE LockLeaf(p)
  <2>1. CASE PlaceEntry(p) BY <1>4, <2>1, PlaceEntryMoves DEF LockLeaf
  <2>2. CASE /\ Top(p).blk # Root /\ PopTo(p) /\ Proceed(p, "visit")
             /\ UNCHANGED <<rowst, row, bfs, scan, aborts>>
    <3>1. pc'[p] = "visit" BY <2>2 DEF Proceed, VInv, IInv, TypeOK
    <3>2. Depth(p) >= 2 BY <1>1, <2>2, TopFacts DEF VInv
    <3> QED BY <1>1, <2>2, <3>1, <3>2, PopMoves
  <2>3. CASE /\ stack' = [stack EXCEPT ![p] = SeenStack(p)] /\ Proceed(p, "visit")
             /\ UNCHANGED <<rowst, row, bfs, scan, aborts>>
    <3>1. pc'[p] = "visit" BY <2>3 DEF Proceed, VInv, IInv, TypeOK
    <3> QED BY <2>3, <3>1, <1>2
  <2> QED BY <1>4, <2>1, <2>2, <2>3 DEF LockLeaf
<1>5. CASE VisitFollow(p)
  <2>1. pc'[p] \in {"fixchain", "lockfix"}
    BY <1>5 DEF VisitFollow, StartFix, Proceed, VInv, IInv, TypeOK
  <2> QED BY <1>5, <2>1, <1>2 DEF VisitFollow
<1>6. CASE LockFix(p)
  <2>1. pc'[p] \in {"fixchain", "visit"}
    BY <1>6 DEF LockFix, StartFix, Proceed, VInv, IInv, TypeOK
  <2> QED BY <1>6, <2>1, <1>2 DEF LockFix
<1>7. CASE FixChain(p)
  <2>1. pc' = pc \/ pc' = [pc EXCEPT ![p] = "finish"] BY <1>7 DEF FixChain, Proceed
  <2>2. pc'[p] # "idle" BY <1>1, <2>1 DEF VInv, IInv, TypeOK
  <2> QED BY <1>7, <2>2, <1>2 DEF FixChain
<1>8. CASE FinishLock(p)
  <2>1. UNCHANGED <<pc, rowst, row, stack, bfs, scan, aborts>> BY <1>8 DEF FinishLock
  <2> QED BY <1>1, <2>1, <1>2
<1> QED BY <1>3, <1>4, <1>5, <1>6, <1>7, <1>8

\* Looking for the parent to the right, and at the end of the chain from the root.
LEMMA MoveRightMoves == ASSUME VInv, NEW p \in Inserters, FinishMoveRight(p) PROVE Moves(p)
<1>1. pc[p] = "finish" /\ UNCHANGED <<rowst, row, scan, aborts>>
  BY DEF FinishMoveRight, Finishing
<1>2. /\ stack[p] \in Seq(Frame) /\ Depth(p) \in Nat /\ ParentIx(p) \in 1..Depth(p)
      /\ ParentIx(p) + 1 \in 2..Depth(p)
  BY <1>1, CallFacts DEF VInv, Splitting
<1>3. CASE /\ stack' = [stack EXCEPT ![p][ParentIx(p)].blk = pages[ParentBlk(p)].right]
           /\ UNCHANGED <<pc, bfs>>
  <2> DEFINE i == ParentIx(p)
             g == [stack[p][i] EXCEPT !.blk = pages[ParentBlk(p)].right]
  <2>1. stack'[p] = [stack[p] EXCEPT ![i] = g] BY <1>3 DEF VInv, IInv, TypeOK
  <2> HIDE DEF g
  <2>2. Len(stack'[p]) = Depth(p) /\ stack'[p][Depth(p)] = stack[p][Depth(p)]
    BY <1>2, <2>1 DEF Depth
  <2>3. KnownEnd(p, stack'[p]) BY <1>1, <2>2, KnownTop DEF Top
  <2> QED BY <1>1, <1>3, <2>3, MovesStack DEF KeepsRow
<1>4. CASE /\ Proceed(p, "findpath")
           /\ bfs' = [bfs EXCEPT ![p] = {<<NewFrame(Root)>>}]
           /\ UNCHANGED stack
  <2>1. pc'[p] = "findpath" /\ bfs'[p] = {<<NewFrame(Root)>>} /\ stack'[p] = stack[p]
    BY <1>4 DEF Proceed, VInv, IInv, TypeOK
  <2>2. \A w \in Paths(p)' : KnownEnd(p, w) BY <1>1, <2>1, KnownSeen, KnownRoot DEF Paths
  <2> QED BY <1>1, <2>1, <2>2 DEF Moves, KeepsRow
<1> QED BY <1>3, <1>4 DEF FinishMoveRight

\* gistFindPath takes in pages that the tree leads to.
LEMMA FindPathMoves == ASSUME VInv, NEW p \in Inserters, FindPathStep(p) PROVE Moves(p)
<1>1. pc[p] = "findpath" /\ UNCHANGED <<rowst, row, scan, aborts>> BY DEF FindPathStep
<1>2. PICK w \in bfs[p] :
        LET b == w[Len(w)].blk IN
        /\ pages[b].type = "inner"
        /\ \/ /\ stack' = [stack EXCEPT ![p] =
                            Seen(w) \o SubSeq(stack[p], ChildIx(p), Depth(p))]
              /\ bfs' = [bfs EXCEPT ![p] = {}]
              /\ Proceed(p, "finish")
           \/ /\ bfs' = [bfs EXCEPT ![p] = (@ \ {w}) \cup MissedRight(w)
                             \cup {Append(Seen(w), NewFrame(d.ptr)) : d \in pages[b].items}]
              /\ UNCHANGED <<stack, pc>>
  BY DEF FindPathStep, NextPaths
<1> DEFINE b == w[Len(w)].blk
<1>3. /\ GoodStack(w, lsn) /\ w \in Seq(Frame) /\ Len(w) \in Nat /\ Len(w) >= 1
  BY DEF VInv, IInv, ProcOK, GoodStack, Anchored, TypeOK
<1>4. b \in Blocks /\ pages[b].type = "inner"
  <2>1. w[Len(w)] \in Frame BY <1>3
  <2> QED BY <2>1, <1>2 DEF Frame
<1>5. Seen(w) \in Seq(Frame) /\ Len(Seen(w)) = Len(w)
  BY <1>3, SeenPath DEF VInv, IInv, GoodStack, Anchored
<1>6. /\ stack[p] \in Seq(Frame) /\ Depth(p) \in Nat /\ ChildIx(p) \in 2..Depth(p)
      /\ Len(stack[p]) = Depth(p)
  BY <1>1, CallFacts DEF VInv, Splitting, Depth
<1>7. CASE /\ stack' = [stack EXCEPT ![p] =
                          Seen(w) \o SubSeq(stack[p], ChildIx(p), Depth(p))]
           /\ bfs' = [bfs EXCEPT ![p] = {}]
           /\ Proceed(p, "finish")
  <2> DEFINE c == ChildIx(p)
             s == SubSeq(stack[p], c, Depth(p))
             q == Seen(w) \o s
  <2>1. stack'[p] = q /\ bfs'[p] = {} /\ pc'[p] = "finish"
    BY <1>7 DEF Proceed, VInv, IInv, TypeOK
  <2>2. \A i \in c..Depth(p) : stack[p][i] \in Frame BY <1>6
  <2>3. /\ s \in Seq(Frame) /\ Len(s) = Depth(p) - c + 1
        /\ \A i \in 1..Depth(p) - c + 1 : s[i] = stack[p][c + i - 1]
    BY <1>6, <2>2, SubSeqProperties
  <2> HIDE DEF s
  <2>4. /\ q \in Seq(Frame) /\ Len(q) = Len(w) + Len(s)
        /\ \A i \in 1..Len(w) + Len(s) : q[i] = IF i <= Len(w) THEN Seen(w)[i] ELSE s[i - Len(w)]
    <3> DEFINE t == Seen(w)
    <3>1. t \in Seq(Frame) /\ Len(t) = Len(w) BY <1>5
    <3>2. s \in Seq(Frame) BY <2>3
    <3> HIDE DEF t
    <3>3. /\ t \o s \in Seq(Frame) /\ Len(t \o s) = Len(t) + Len(s)
          /\ \A i \in 1..Len(t) + Len(s) : (t \o s)[i] = IF i <= Len(t) THEN t[i] ELSE s[i - Len(t)]
      BY <3>1, <3>2, ConcatProperties
    <3> QED BY <3>1, <3>3 DEF t
  <2> HIDE DEF q
  <2>5. Len(s) \in 1..Len(s) /\ s[Len(s)] = stack[p][Depth(p)]
    <3> HIDE DEF c
    <3>2. c \in 2..Depth(p) /\ Depth(p) \in Nat BY <1>6 DEF c
    <3>3. Len(s) = Depth(p) - c + 1 BY <2>3
    <3>1. Len(s) \in 1..Depth(p) - c + 1 /\ c + Len(s) - 1 = Depth(p) BY <3>2, <3>3
    <3> QED BY <3>1, <2>3
  <2>6. q[Len(q)] = stack[p][Depth(p)] BY <1>3, <2>3, <2>4, <2>5
  <2>7. EndOf(q) = EndOf(stack[p]) BY <2>6, <1>6 DEF EndOf
  <2>8. stack[p] # <<>> BY <1>6
  <2>9. KnownEnd(p, q) BY <2>7, <2>8 DEF KnownEnd, Paths
  <2>10. \A x \in Paths(p)' : KnownEnd(p, x) BY <2>1, <2>9 DEF Paths
  <2> QED BY <1>1, <2>1, <2>10 DEF Moves, KeepsRow
<1>8. CASE /\ bfs' = [bfs EXCEPT ![p] = (@ \ {w}) \cup MissedRight(w)
                         \cup {Append(Seen(w), NewFrame(d.ptr)) : d \in pages[b].items}]
           /\ UNCHANGED <<stack, pc>>
  <2>1. \A d \in pages[b].items : KnownEnd(p, Append(Seen(w), NewFrame(d.ptr)))
    BY <1>4, <1>5, KnownChild
  <2>2. \A x \in MissedRight(w) : KnownEnd(p, x)
    <3> DEFINE r == pages[b].right
               x == Append(SubSeq(w, 1, Len(w) - 1), NewFrame(r))
    <3>1. CASE Len(w) > 1 /\ r # NoBlock
      <4>1. MissedRight(w) \subseteq {x} BY DEF MissedRight
      <4>2. r \in Blocks /\ pages[r].type = "inner"
        BY <3>1, <1>4 DEF VInv, IInv, GoodPages, Page
      <4>3. SubSeq(w, 1, Len(w) - 1) \in Seq(Frame)
        BY <3>1, <1>3, StackPop DEF VInv, IInv, TypeOK, GoodStack, Anchored
      <4>4. NewFrame(r) \in Frame /\ NewFrame(r).blk = r BY <4>2, NewFrameType
      <4>5. EndOf(x) = r BY <4>3, <4>4, AppendProperties DEF EndOf
      <4> HIDE DEF x, r
      <4>6. KnownEnd(p, x) BY <4>2, <4>5 DEF KnownEnd
      <4> QED BY <4>1, <4>6
    <3>2. CASE ~(Len(w) > 1 /\ r # NoBlock) BY <3>2 DEF MissedRight
    <3> QED BY <3>1, <3>2
  <2>3. \A x \in bfs[p] : x # <<>> /\ KnownEnd(p, x)
    BY DEF VInv, IInv, ProcOK, GoodStack, Anchored, KnownEnd, Paths
  <2>4. bfs'[p] = (bfs[p] \ {w}) \cup MissedRight(w)
                  \cup {Append(Seen(w), NewFrame(d.ptr)) : d \in pages[b].items}
    BY <1>8 DEF VInv, IInv, TypeOK
  <2>5. stack'[p] = stack[p] /\ pc'[p] = "findpath" BY <1>1, <1>8
  <2>6. KnownEnd(p, stack[p]) BY <1>1, KnownSeen
  <2>7. \A x \in Paths(p)' : KnownEnd(p, x) BY <2>1, <2>2, <2>3, <2>4, <2>5, <2>6 DEF Paths
  <2> QED BY <1>1, <2>5, <2>7 DEF Moves, KeepsRow
<1> QED BY <1>2, <1>7, <1>8

\* The end of a split.
LEMMA FinishMoves ==
  ASSUME VInv, NEW p \in Inserters, InsertDownlink(p) \/ FinishReturn(p) PROVE Moves(p)
<1>1. CASE InsertDownlink(p)
  <2>1. pc[p] = "finish" /\ UNCHANGED <<rowst, row, bfs, scan, aborts>>
    BY <1>1 DEF InsertDownlink, Finishing
  <2>2. pc' = pc \/ \E l \in {"return", "finish"} : pc' = [pc EXCEPT ![p] = l]
    BY <1>1 DEF InsertDownlink, Proceed
  <2>3. pc'[p] # "idle" BY <2>1, <2>2 DEF VInv, IInv, TypeOK
  <2>4. /\ Len(stack'[p]) = Depth(p)
        /\ \A i \in 1..Depth(p) : stack'[p][i].blk = stack[p][i].blk
    BY <1>1, DownlinkStack DEF VInv
  <2>5. Depth(p) \in 1..Depth(p) BY <2>1, TopFacts DEF VInv
  <2>6. KnownEnd(p, stack'[p]) BY <2>1, <2>4, <2>5, KnownTop DEF Top
  <2> QED BY <2>1, <2>3, <2>6, MovesStack DEF KeepsRow
<1>2. CASE FinishReturn(p)
  <2>1. pc[p] = "return" /\ UNCHANGED <<bfs, scan, aborts>> BY <1>2 DEF FinishReturn
  <2>2. CASE EntryDone(p) BY <2>1, <2>2, EntryDoneMoves
  <2>3. CASE PopTo(p) /\ Proceed(p, "visit") /\ UNCHANGED <<rowst, row, pos>>
    <3>1. pc'[p] = "visit" BY <2>3 DEF Proceed, VInv, IInv, TypeOK
    <3>2. Depth(p) >= 2 BY <2>1 DEF VInv, IInv, ProcOK, Depth
    <3> QED BY <2>1, <2>3, <3>1, <3>2, PopMoves
  <2> QED BY <1>2, <2>2, <2>3 DEF FinishReturn
<1> QED BY <1>1, <1>2

LEMMA StepMoves == ASSUME VInv, NEW p \in Inserters, Step(p) PROVE Moves(p)
<1>1. CASE FindPathError(p) BY <1>1, AbandonMoves DEF FindPathError
<1>2. CASE InsertDownlinkError(p) BY <1>2, AbandonMoves DEF InsertDownlinkError, Finishing
<1> QED BY <1>1, <1>2, DescentMoves, LockMovesOn, MoveRightMoves, FindPathMoves, FinishMoves
        DEF Step
-----------------------------------------------------------------------------
(***************************************************************************)
(* A step of the tree keeps the invariant.                                 *)
(***************************************************************************)
\* A write leaves a downlink on every internal page.
LEMMA WriteNonEmpty ==
  ASSUME GoodPages(pages, lsn), NonEmpty(pages), NEW b, NEW N, NEW left, WriteOK(b, N, left),
         NEW new, Writes(new, b, N, left)
  PROVE  NonEmpty(new)
<1>1. /\ b \in Blocks /\ pages[b].type \in InTree
      /\ pages[b].type = "inner" => \A e \in pages[b].items : \E d \in N : d.ptr = e.ptr
  BY DEF WriteOK
<1>2. pages[b].type = "inner" => N # {} BY <1>1 DEF NonEmpty
<1>3. ASSUME NEW P \in Partitions(b, N), NEW i \in 1..Len(P) PROVE P[i] # {}
  <2>1. DOMAIN P = 1..Len(P) BY <1>1, PartitionFacts
  <2> QED BY <2>1, <1>3 DEF Partitions
<1>4. ASSUME NEW x \in Blocks, Kept(pages[x], new[x], x = left), new[x].type = "inner"
      PROVE  new[x].items # {}
  BY <1>4 DEF Kept, NonEmpty
<1>5. CASE Fitted(new, b, N, left)
  <2>1. ASSUME NEW x \in Blocks, new[x].type = "inner" PROVE new[x].items # {}
    <3>1. CASE x = b BY <1>1, <1>2, <1>5, <2>1, <3>1 DEF Fitted
    <3>2. CASE x # b BY <1>4, <1>5, <2>1, <3>2 DEF Fitted
    <3> QED BY <3>1, <3>2
  <2> QED BY <2>1 DEF NonEmpty
<1>6. ASSUME NEW P \in Partitions(b, N), NEW blks \in Seq(Blocks), Divided(new, b, N, left, P, blks)
      PROVE  NonEmpty(new)
  <2>1. ASSUME NEW x \in Blocks, new[x].type = "inner" PROVE new[x].items # {}
    <3>1. ASSUME NEW i \in 1..Len(blks), blks[i] = x PROVE new[x].items # {}
      <4>1. i \in 1..Len(P) /\ new[x].items = P[i] BY <1>6, <3>1 DEF Divided
      <4> QED BY <4>1, <1>3
    <3>2. CASE \A i \in 1..Len(blks) : blks[i] # x BY <1>4, <1>6, <2>1, <3>2 DEF Divided
    <3> QED BY <3>1, <3>2
  <2> QED BY <2>1 DEF NonEmpty
<1>7. ASSUME b = Root, NEW P \in Partitions(b, N), NEW blks \in Seq(Blocks),
             RootDivided(new, N, left, P, blks)
      PROVE  NonEmpty(new)
  <2>1. ASSUME NEW x \in Blocks, new[x].type = "inner" PROVE new[x].items # {}
    <3>1. ASSUME NEW i \in 1..Len(blks), blks[i] = x PROVE new[x].items # {}
      <4>1. i \in 1..Len(P) /\ new[x].items = P[i] BY <1>7, <3>1 DEF RootDivided
      <4> QED BY <4>1, <1>3
    <3>2. CASE x = Root
      <4>1. Downlink(blks[1], P[1]) \in new[x].items BY <1>7, <3>2 DEF RootDivided
      <4> QED BY <4>1
    <3>3. CASE x # Root /\ \A i \in 1..Len(blks) : blks[i] # x
      BY <1>4, <1>7, <2>1, <3>3 DEF RootDivided
    <3> QED BY <3>1, <3>2, <3>3
  <2> QED BY <2>1 DEF NonEmpty
<1> QED BY <1>5, <1>6, <1>7 DEF Writes

\* What the vacuum relies on is not disturbed.
LEMMA TreeKeeps ==
  ASSUME VInv, IInv', StructInv', Grown, OneWrite, HandsOff, UNCHANGED <<vac, seenBy>>,
         RowsBusy', Witnessed'
  PROVE  VInv'
<1>1. VacShape' BY DEF VInv, VacShape
<1>2. GoodPages(pages, lsn) /\ NonEmpty(pages) BY DEF VInv, IInv
<1>3. SameKinds(pages, pages') BY <1>2, GrownFacts
<1>4. VacLocks'
  <2>1. ASSUME NEW b \in Blocks
        PROVE  /\ xlock'[b] \in Inserters \cup {NoProc, Vacuum}
               /\ xlock'[b] = Vacuum <=> b = vac.leaf
    BY VacuumStranger DEF VInv, VacLocks, HandsOff
  <2> QED BY <2>1 DEF VacLocks
<1>5. /\ \A b \in Blocks : pages[b].type = "inner" => pages'[b].type = "inner"
      /\ \A b \in Blocks : InUse(b, pages) => InUse(b, pages')
  BY <1>3 DEF SameKinds, InUse
<1>6. VacTargets'
  <2>1. /\ vac.inner \in SUBSET Blocks /\ vac.par \in Blocks /\ vac.todel \in SUBSET Blocks
        /\ vac.leaf \in Blocks \cup {NoBlock}
    BY VacFields DEF VInv
  <2> QED BY <1>5, <2>1 DEF VInv, VacTargets
<1>7. NonEmpty(pages')
  <2>1. CASE UNCHANGED pages BY <1>2, <2>1
  <2>2. ASSUME NEW b, NEW N, NEW left, WriteOK(b, N, left), Writes(pages', b, N, left)
        PROVE  NonEmpty(pages')
    BY <1>2, <2>2, WriteNonEmpty
  <2> QED BY <2>1, <2>2 DEF OneWrite
<1> QED BY <1>1, <1>4, <1>6, <1>7 DEF VInv

\* Nobody has two rows to insert, and nobody a row that is not being inserted.
LEMMA MovesRows ==
  ASSUME VInv, NEW p \in Inserters, Moves(p), OthersSame(p) PROVE RowsBusy'
<1>1. \A q \in Inserters : row[q] \in Rows BY DEF VInv, IInv, TypeOK
<1>2. rowst \in [Rows -> {"absent", "inserting", "present", "aborted", "dead"}]
  BY DEF VInv, IInv, TypeOK
<1>3. \A q \in Inserters : q # p =>
        pc'[q] = pc[q] /\ row'[q] = row[q] /\ stack'[q] = stack[q] /\ bfs'[q] = bfs[q]
  BY DEF OthersSame
<1>4. /\ \A q \in Inserters : pc[q] # "idle" => rowst[row[q]] = "inserting"
      /\ \A q \in Inserters : pc[q] = "idle" => stack[q] = <<>>
      /\ \A q \in Inserters : pc[q] # "findpath" => bfs[q] = {}
      /\ \A q, s \in Inserters : pc[q] # "idle" /\ pc[s] # "idle" /\ row[q] = row[s] => q = s
  BY DEF VInv, RowsBusy
<1>5. pc[p] # "idle" /\ (pc'[p] # "findpath" => bfs'[p] = {}) BY DEF Moves
<1>6. CASE pc'[p] # "idle" /\ rowst' = rowst /\ row'[p] = row[p]
  BY <1>3, <1>4, <1>5, <1>6 DEF RowsBusy
<1>7. CASE /\ pc'[p] = "idle" /\ stack'[p] = <<>>
           /\ \E st \in {"present", "aborted"} : rowst' = [rowst EXCEPT ![row[p]] = st]
  <2>1. \A q \in Inserters : pc[q] # "idle" /\ q # p => rowst'[row[q]] = rowst[row[q]]
    BY <1>1, <1>2, <1>4, <1>5, <1>7
  <2> QED BY <1>3, <1>4, <1>5, <1>7, <2>1 DEF RowsBusy
<1> QED BY <1>6, <1>7 DEF Moves, KeepsRow

\* Who comes to have a page in mind finds it in use, and no page is deleted.
LEMMA MovesWitness ==
  ASSUME VInv, NEW p \in Inserters, Moves(p), OthersSame(p), Grown, UNCHANGED seenBy
  PROVE  Witnessed'
<1> SUFFICES ASSUME NEW q \in Inserters, NEW w \in Paths(q)', w # <<>>,
                    pages'[EndOf(w)].type = "deleted"
             PROVE  row'[q] \in seenBy[EndOf(w)]
  BY DEF Witnessed
<1>1. SameKinds(pages, pages') BY GrownFacts DEF VInv, IInv
<1>2. ASSUME NEW v \in Paths(q), v # <<>>, EndOf(v) = EndOf(w), row'[q] = row[q]
      PROVE  row'[q] \in seenBy[EndOf(w)]
  <2>1. EndOf(v) \in Blocks /\ pages[EndOf(v)].type # "new" BY <1>2, EndNotFreed
  <2>2. pages[EndOf(v)].type = "deleted" BY <1>1, <1>2, <2>1 DEF SameKinds
  <2> QED BY <1>2, <2>2 DEF VInv, Witnessed
<1>3. CASE q # p
  <2>1. w \in Paths(q) /\ row'[q] = row[q] BY <1>3 DEF OthersSame, Paths
  <2> QED BY <2>1, <1>2
<1>4. CASE q = p
  <2>1. KnownEnd(p, w) BY <1>4 DEF Moves
  <2>2. pages[EndOf(w)].type \notin InTree \/ EndOf(w) \notin Blocks
    BY <1>1 DEF SameKinds
  <2>3. \E v \in Paths(p) : v # <<>> /\ EndOf(v) = EndOf(w) BY <2>1, <2>2 DEF KnownEnd
  <2>4. row'[p] = row[p]
    <3>1. CASE pc'[p] # "idle" /\ row'[p] = row[p] BY <3>1
    <3>2. CASE pc'[p] = "idle" /\ stack'[p] = <<>>
      <4>1. bfs'[p] = {} BY <3>2 DEF Moves
      <4> QED BY <3>2, <4>1, <1>4 DEF Paths
    <3> QED BY <3>1, <3>2 DEF Moves, KeepsRow
  <2> QED BY <1>2, <1>4, <2>3, <2>4
<1> QED BY <1>3, <1>4

LEMMA StepKeeps ==
  ASSUME VInv, NEW p \in Inserters, Step(p), UNCHANGED <<vac, seenBy>> PROVE VInv'
<1>1. IInv' /\ Grown /\ OthersSame(p) BY TreeStepOK DEF VInv
<1>2. StructInv' /\ Logged BY StepStruct DEF VInv
<1>3. Moves(p) BY StepMoves
<1>4. ~Crash
  <2>1. aborts' = aborts /\ aborts \in Nat BY <1>3, BoundAssumption DEF Moves, VInv, IInv, TypeOK
  <2> QED BY <2>1 DEF Crash
<1>5. OneWrite /\ HandsOff BY <1>2, <1>4 DEF Logged
<1>6. RowsBusy' BY <1>1, <1>3, MovesRows
<1>7. Witnessed' BY <1>1, <1>3, MovesWitness
<1> QED BY <1>1, <1>2, <1>5, <1>6, <1>7, TreeKeeps

\* A new row is nobody else's.
LEMMA BeginRowKeeps ==
  ASSUME VInv, NEW p \in Inserters, NEW r \in Rows, BeginRow(p, r), UNCHANGED <<vac, seenBy>>
  PROVE  VInv'
<1>1. IInv' /\ Grown /\ OthersSame(p) BY BeginRowOK DEF VInv
<1>2. StructInv' /\ Logged BY BeginRowStruct DEF VInv
<1>3. /\ pc[p] = "idle" /\ rowst[r] = "absent" /\ rowst' = [rowst EXCEPT ![r] = "inserting"]
      /\ row'[p] = r /\ stack'[p] = <<NewFrame(Root)>> /\ pc'[p] = "visit"
      /\ UNCHANGED <<pages, bfs, aborts>>
  BY DEF BeginRow, Proceed, treeVars, VInv, IInv, TypeOK
<1>4. ~Crash
  <2>1. aborts' = aborts /\ aborts \in Nat BY <1>3, BoundAssumption DEF VInv, IInv, TypeOK
  <2> QED BY <2>1 DEF Crash
<1>5. OneWrite /\ HandsOff BY <1>2, <1>4 DEF Logged
<1>6. \A q \in Inserters : q # p =>
        pc'[q] = pc[q] /\ row'[q] = row[q] /\ stack'[q] = stack[q]
  BY <1>1 DEF OthersSame
<1>7. \A q \in Inserters : row[q] \in Rows BY DEF VInv, IInv, TypeOK
<1>8. rowst \in [Rows -> {"absent", "inserting", "present", "aborted", "dead"}]
  BY DEF VInv, IInv, TypeOK
<1>9. RowsBusy'
  <2>1. \A q \in Inserters : pc[q] # "idle" => rowst[row[q]] = "inserting" /\ row[q] # r
    BY <1>3 DEF VInv, RowsBusy
  <2>2. \A q \in Inserters : pc[q] # "idle" => rowst'[row[q]] = "inserting"
    BY <1>3, <1>7, <1>8, <2>1
  <2>3. rowst'[r] = "inserting" BY <1>3, <1>8
  <2> QED BY <1>3, <1>6, <2>1, <2>2, <2>3 DEF VInv, RowsBusy
<1>10. Witnessed'
  <2> SUFFICES ASSUME NEW q \in Inserters, NEW w \in Paths(q)', w # <<>>,
                      pages'[EndOf(w)].type = "deleted"
               PROVE  row'[q] \in seenBy'[EndOf(w)]
    BY DEF Witnessed
  <2>1. CASE q # p
    <3>1. w \in Paths(q) BY <2>1, <1>3, <1>6 DEF Paths
    <3> QED BY <2>1, <3>1, <1>3, <1>6 DEF VInv, Witnessed
  <2>2. CASE q = p
    <3>1. bfs[p] = {} BY <1>3 DEF VInv, RowsBusy
    <3>2. w = <<NewFrame(Root)>> BY <2>2, <3>1, <1>3 DEF Paths
    <3>3. EndOf(w) = Root BY <3>2, NewFrameType, BlocksAssumption DEF EndOf
    <3>4. pages[Root].type \in InTree BY DEF VInv, IInv, GoodPages
    <3> QED BY <3>3, <3>4, <1>3
  <2> QED BY <2>1, <2>2
<1> QED BY <1>1, <1>2, <1>5, <1>9, <1>10, TreeKeeps

\* Scans and stuttering.
LEMMA ScanKeeps ==
  ASSUME VInv, UNCHANGED <<treeVars, procVars, vac, seenBy>>, IInv' PROVE VInv'
<1>1. StructInv' BY IdleStruct DEF VInv
<1>2. /\ UNCHANGED <<pages, lsn, xlock>>
      /\ UNCHANGED <<rowst, pc, row, pos, stack, xheld, child, fin, ret, bfs>>
  BY DEF treeVars, procVars
<1>3. RowsBusy' /\ NonEmpty(pages') /\ VacLocks' BY <1>2 DEF VInv, RowsBusy, VacLocks
<1>4. Witnessed' BY <1>2 DEF VInv, Witnessed, Paths
<1>5. VacShape' /\ VacTargets' BY <1>2 DEF VInv, VacShape, VacTargets
<1> QED BY <1>1, <1>3, <1>4, <1>5 DEF VInv
-----------------------------------------------------------------------------
(***************************************************************************)
(* The invariant holds initially, and every step keeps it.                 *)
(***************************************************************************)
LEMMA VacInitOK == VacInit => VInv
<1> SUFFICES ASSUME VacInit PROVE VInv OBVIOUS
<1>1. Init /\ vac = IdleVac /\ seenBy = [b \in Blocks |-> {}] BY DEF VacInit
<1>2. IInv /\ StructInv BY <1>1, InitOK, InitStruct
<1>3. /\ xlock = [b \in Blocks |-> NoProc]
      /\ \A p \in Inserters : pc[p] = "idle" /\ stack[p] = <<>> /\ bfs[p] = {}
  BY <1>1 DEF Init
<1>4. VacShape
  <2>1. vac \in VacState(vac.remaining)
    BY <1>1, BlocksAssumption DEF IdleVac, VacState
  <2>2. vac.end = 0 BY <1>1 DEF IdleVac
  <2> QED BY <1>1, <2>1, <2>2 DEF VacShape
<1>5. RowsBusy BY <1>3 DEF RowsBusy
<1>6. Witnessed BY <1>3 DEF Witnessed, Paths
<1>7. VacLocks /\ VacTargets
  <2>1. vac.leaf = NoBlock /\ vac.inner = {} /\ vac.todel = {} BY <1>1 DEF IdleVac
  <2>2. NoProc # Vacuum BY VacuumAssumption, ProcAssumption
  <2>3. VacLocks BY <1>3, <2>1, <2>2, BlocksAssumption DEF VacLocks
  <2>4. VacTargets BY <2>1 DEF VacTargets
  <2> QED BY <2>3, <2>4
<1>8. NonEmpty(pages)
  <2>1. PICK t \in InitTrees : pages = InitPages(t) BY <1>1 DEF Init
  <2>2. \A b \in DOMAIN t.items \cap t.inner : t.items[b] # {}
    BY InitAssumption DEF InitTree
  <2> QED BY <2>1, <2>2 DEF NonEmpty, InitPages, EmptyPage
<1> QED BY <1>2, <1>4, <1>5, <1>6, <1>7, <1>8 DEF VInv

LEMMA TreeKeepsVacuum == ASSUME VInv, TreeStep PROVE VInv'
<1>1. UNCHANGED <<vac, seenBy>> BY DEF TreeStep
<1>2. ASSUME NEW p \in Inserters, NEW r \in Rows, BeginRow(p, r) PROVE VInv'
  BY <1>1, <1>2, BeginRowKeeps
<1>3. ASSUME NEW p \in Inserters, Step(p) PROVE VInv' BY <1>1, <1>3, StepKeeps
<1>4. ASSUME NEW s \in Scanners, NEW k \in Keys, ScanStart(s, k) PROVE VInv'
  <2>1. IInv' BY <1>4, ScanStartOK DEF VInv
  <2>2. UNCHANGED <<treeVars, procVars>> BY <1>4 DEF ScanStart
  <2> QED BY <1>1, <2>1, <2>2, ScanKeeps
<1>5. ASSUME NEW s \in Scanners, ScanStep(s) PROVE VInv'
  <2>1. IInv' BY <1>5, ScanPageOK, ScanEndOK DEF VInv, ScanStep
  <2>2. UNCHANGED <<treeVars, procVars>> BY <1>5 DEF ScanStep, ScanPage, ScanEnd
  <2> QED BY <1>1, <2>1, <2>2, ScanKeeps
<1> QED BY <1>2, <1>3, <1>4, <1>5 DEF TreeStep

LEMMA VacuumKeeps == ASSUME VInv, VacuumStep PROVE VInv'
BY VacuumStartOK, VacuumFreeOK, VacuumLeafOK, VacuumInnerOK, VacuumRecheckOK, VacuumParentOK,
   VacuumRestsOK, VacuumLockLeafOK, VacuumDeleteOK, VacuumGiveUpOK DEF VacuumStep

LEMMA VacNextOK == VInv /\ [VacNext]_allVars => VInv'
<1> SUFFICES ASSUME VInv, [VacNext]_allVars PROVE VInv' OBVIOUS
<1>1. CASE UNCHANGED allVars
  <2>1. UNCHANGED vars /\ UNCHANGED <<vac, seenBy>> BY <1>1 DEF allVars
  <2>2. IInv' BY <2>1, NextOK DEF VInv
  <2>3. UNCHANGED <<treeVars, procVars>> BY <2>1 DEF vars
  <2> QED BY <2>1, <2>2, <2>3, ScanKeeps
<1>2. CASE TreeStep BY <1>2, TreeKeepsVacuum
<1>3. ASSUME NEW r \in Rows, Kill(r) PROVE VInv' BY <1>3, KillOK
<1>4. CASE VacuumStep BY <1>4, VacuumKeeps
<1> QED BY <1>1, <1>2, <1>3, <1>4 DEF VacNext

\* The inductive invariant of insertions, scans and vacuums together.
THEOREM VacuumInductive == VacSpec => []VInv
<1>1. VInv /\ [VacNext]_allVars => VInv' BY VacNextOK
<1> QED BY <1>1, VacInitOK, PTL DEF VacSpec

\* Type correctness with a vacuum that deletes and recycles pages: no downlink and
\* no right link leads to a page that is not in use, no stack to a block that is
\* not one (gistvacuum_delete_empty_pages, gistdeletepage).
THEOREM VacuumTypeCorrect == VacSpec => []TypeOK
<1>1. VInv => TypeOK BY DEF VInv, IInv
<1> QED BY <1>1, VacuumInductive, PTL

\* Deletion takes the downlink and the page in one step, and recycling takes only
\* pages without a way in: a page in use keeps exactly one downlink or, while it
\* is the fresh half of a split, one left sibling (gistdeletepage, gistNewBuffer).
THEOREM VacuumOneWayIn == VacSpec => []OneWayIn
<1>1. VInv => OneWayIn BY CountWays DEF VInv
<1> QED BY <1>1, VacuumInductive, PTL

\* A vacuum leaves the last downlink of an internal page alone, however the page was
\* split since it was looked at (gistvacuum_delete_empty_pages, gistdeletepage).
THEOREM InnerNeverEmpty == VacSpec => []InnerNotEmpty
<1>1. VInv => InnerNotEmpty BY DEF VInv, NonEmpty, InnerNotEmpty, Inner
<1> QED BY <1>1, VacuumInductive, PTL
\* The NSN of a page does not exceed the LSN of the page with its downlink, also when
\* the vacuum writes parents and leaves and recycled blocks come back into use.
THEOREM VacuumParentsFresh == VacSpec => []FreshParentSuffices
<1>1. VInv => FreshParentSuffices BY FreshParents DEF VInv
<1> QED BY <1>1, VacuumInductive, PTL
-----------------------------------------------------------------------------
(***************************************************************************)
(* No scan is sent to a page that was recycled.                            *)
(***************************************************************************)
\* Each page has a bound on its NSN that the LSN of the page with its downlink
\* reaches, and that the pages right of it inherit while their downlinks are
\* missing: who has read a parent follows to the right only unfinished splits and
\* those finished since.
Bounds(F, pgs) ==
  /\ \A b \in Blocks : \A d \in LinksOn(pgs[b]) : F[d.ptr] <= pgs[b].lsn
  /\ \A b \in Blocks : pgs[b].follow => F[pgs[b].right] <= F[b]
  /\ \A b \in Blocks : pgs[b].type \in InTree => pgs[b].nsn <= F[b]
FreshChains(pgs, l) == \E F \in [Blocks -> 0..l] : Bounds(F, pgs)

\* R is all a running scan has queued and all it will get to from there over right
\* links; no page of it is recycled before the scan is over.
ScanItem == [blk : Blocks, plsn : Nat]
ItemFor(b, l) == [blk |-> b, plsn |-> l]
Closed(R, pgs) ==
  \A i \in R :
    LET pg == pgs[i.blk] IN
    i.plsn # 0 /\ (pg.follow \/ i.plsn < pg.nsn) /\ pg.right # NoBlock => ItemFor(pg.right, i.plsn) \in R
Reserved(b, s) == pages[b].type # "new" /\ (pages[b].type = "deleted" => s \in seenBy[b])
ScanAhead(s) ==
  IF scan[s].st = "running"
  THEN \E R \in SUBSET ScanItem : /\ scan[s].queue \subseteq R /\ Closed(R, pages)
                                  /\ \A i \in R : Reserved(i.blk, s)
  ELSE scan[s].queue = {}
ScansInv == FreshChains(pages, lsn) /\ \A s \in Scanners : ScanAhead(s)

\* The blocks H over which a write has spread page b, if it was split, and what the
\* write has made of the right links and NSNs.
Spread(H, b, left, new) ==
  /\ \A x \in H : /\ x = b \/ pages[x].type = "new"
                  /\ new[x].type \in InTree /\ new[x].nsn <= pages[b].nsn
                  /\ \/ new[x].right \in H
                     \/ ~new[x].follow /\ new[x].right = NoBlock
                     \/ /\ ~new[x].follow /\ new[x].right = pages[b].right
                        /\ new[x].nsn = pages[b].nsn
  /\ \A x \in Blocks \ H :
       /\ new[x].right = pages[x].right
       /\ new[x].type \in InTree => pages[x].type \in InTree
       /\ \/ (new[x].follow <=> pages[x].follow) /\ new[x].nsn = pages[x].nsn
          \/ x = left /\ pages[x].follow /\ ~new[x].follow

LEMMA WriteSpread ==
  ASSUME GoodPages(pages, lsn), NEW b, NEW N, NEW left, WriteOK(b, N, left),
         NEW new, Writes(new, b, N, left)
  PROVE  \E H \in SUBSET Blocks : Spread(H, b, left, new)
<1>1. /\ b \in Blocks /\ pages[b].type \in InTree /\ ~pages[b].follow /\ pages[b].nsn \in Nat
      /\ left # NoBlock => pages[left].follow
      /\ left \in (Blocks \ {Root}) \cup {NoBlock} /\ NoBlock \notin Blocks /\ Root \in Blocks
      /\ pages[Root].type \in InTree /\ pages[Root].right = NoBlock /\ ~pages[Root].follow
      /\ pages[Root].nsn = 0
  BY BlocksAssumption DEF WriteOK, GoodPages, Page
<1>2. ASSUME NEW x \in Blocks, Kept(pages[x], new[x], x = left)
      PROVE  /\ new[x].right = pages[x].right /\ new[x].type = pages[x].type
             /\ \/ (new[x].follow <=> pages[x].follow) /\ new[x].nsn = pages[x].nsn
                \/ x = left /\ pages[x].follow /\ ~new[x].follow
  BY <1>1, <1>2 DEF Kept
<1>3. CASE Fitted(new, b, N, left)
  <2>1. ASSUME NEW x \in Blocks
        PROVE  /\ new[x].right = pages[x].right /\ new[x].type = pages[x].type
               /\ \/ (new[x].follow <=> pages[x].follow) /\ new[x].nsn = pages[x].nsn
                  \/ x = left /\ pages[x].follow /\ ~new[x].follow
    <3>1. CASE x = b BY <1>3, <3>1 DEF Fitted
    <3>2. CASE x # b BY <1>2, <1>3, <3>2 DEF Fitted
    <3> QED BY <3>1, <3>2
  <2>2. Spread({}, b, left, new) BY <2>1 DEF Spread
  <2> QED BY <2>2
<1>4. ASSUME NEW P \in Partitions(b, N), NEW blks \in Seq(Blocks), Divided(new, b, N, left, P, blks)
      PROVE  \E H \in SUBSET Blocks : Spread(H, b, left, new)
  <2> DEFINE H == {blks[i] : i \in 1..Len(blks)}
             n == Len(blks)
  <2>1. n \in Nat /\ n >= 2 /\ blks[1] = b /\ \A i \in 1..n : blks[i] \in Blocks BY <1>4 DEF Divided
  <2>2. ASSUME NEW i \in 1..n
        PROVE  LET x == blks[i] IN
               /\ x = b \/ pages[x].type = "new"
               /\ new[x].type \in InTree /\ new[x].nsn = pages[b].nsn
               /\ \/ new[x].right \in H
                  \/ ~new[x].follow /\ new[x].right = pages[b].right
    <3>1. /\ new[blks[i]].type = pages[b].type /\ new[blks[i]].nsn = pages[b].nsn
          /\ new[blks[i]].right = IF i < n THEN blks[i + 1] ELSE pages[b].right
          /\ new[blks[i]].follow = (i < n)
      BY <1>4 DEF Divided
    <3>2. blks[i] = b \/ pages[blks[i]].type = "new"
      <4>1. i = 1 \/ i \in 2..n BY <2>1
      <4> QED BY <4>1, <2>1, <1>4 DEF Divided
    <3>3. CASE i < n
      <4>1. i + 1 \in 1..n BY <2>1, <3>3
      <4> QED BY <4>1, <3>1, <3>2, <3>3, <1>1
    <3>4. CASE ~(i < n) BY <3>1, <3>2, <3>4, <1>1
    <3> QED BY <3>3, <3>4
  <2>3. ASSUME NEW x \in Blocks \ H PROVE Kept(pages[x], new[x], x = left) BY <1>4 DEF Divided
  <2>4. H \in SUBSET Blocks BY <2>1
  <2>5. \A x \in H : \E i \in 1..n : x = blks[i] OBVIOUS
  <2>6. pages[b].nsn <= pages[b].nsn BY <1>1
  <2> HIDE DEF H, n
  <2>7. Spread(H, b, left, new) BY <1>2, <2>2, <2>3, <2>4, <2>5, <2>6 DEF Spread
  <2> QED BY <2>4, <2>7
<1>5. ASSUME b = Root, NEW P \in Partitions(b, N), NEW blks \in Seq(Blocks),
             RootDivided(new, N, left, P, blks)
      PROVE  \E H \in SUBSET Blocks : Spread(H, b, left, new)
  <2> DEFINE H == {blks[i] : i \in 1..Len(blks)}
             n == Len(blks)
  <2>1. n \in Nat /\ \A i \in 1..n : blks[i] \in Blocks BY <1>5 DEF RootDivided
  <2>2. ASSUME NEW i \in 1..n
        PROVE  LET x == blks[i] IN
               /\ pages[x].type = "new"
               /\ new[x].type \in InTree /\ new[x].nsn = 0 /\ ~new[x].follow
               /\ new[x].right \in H \/ new[x].right = NoBlock
    <3>1. /\ new[blks[i]].type = pages[Root].type /\ new[blks[i]].nsn = 0
          /\ new[blks[i]].right = IF i < n THEN blks[i + 1] ELSE NoBlock
          /\ ~new[blks[i]].follow /\ pages[blks[i]].type = "new"
      BY <1>5 DEF RootDivided
    <3>2. CASE i < n
      <4>1. i + 1 \in 1..n BY <2>1, <3>2
      <4> QED BY <4>1, <3>1, <3>2, <1>1
    <3>3. CASE ~(i < n) BY <3>1, <3>3, <1>1
    <3> QED BY <3>2, <3>3
  <2>3. ASSUME NEW x \in Blocks \ H, x # Root PROVE Kept(pages[x], new[x], x = left)
    BY <1>5, <2>3 DEF RootDivided
  <2>4. H \in SUBSET Blocks BY <2>1
  <2>5. \A x \in H : \E i \in 1..n : x = blks[i] OBVIOUS
  <2>6. 0 <= pages[b].nsn BY <1>1
  <2>7. new[Root].right = NoBlock /\ ~new[Root].follow /\ new[Root].nsn = 0
    BY <1>5 DEF RootDivided
  <2> HIDE DEF H, n
  <2>8. ASSUME NEW x \in Blocks \ H
        PROVE  /\ new[x].right = pages[x].right
               /\ new[x].type \in InTree => pages[x].type \in InTree
               /\ \/ (new[x].follow <=> pages[x].follow) /\ new[x].nsn = pages[x].nsn
                  \/ x = left /\ pages[x].follow /\ ~new[x].follow
    <3>1. CASE x = Root BY <3>1, <2>7, <1>1
    <3>2. CASE x # Root BY <3>2, <2>3, <1>2
    <3> QED BY <3>1, <3>2
  <2>9. ASSUME NEW x \in H
        PROVE  /\ x = b \/ pages[x].type = "new"
               /\ new[x].type \in InTree /\ new[x].nsn <= pages[b].nsn
               /\ new[x].right \in H \/ (~new[x].follow /\ new[x].right = NoBlock)
    BY <2>2, <2>5, <2>6
  <2>10. Spread(H, b, left, new) BY <2>8, <2>9 DEF Spread
  <2> QED BY <2>4, <2>10
<1> QED BY <1>3, <1>4, <1>5 DEF Writes
\* A write keeps the bounds: the pages whose NSN it moves get their way in on a page
\* it writes.
LEMMA WriteBounds ==
  ASSUME GoodPages(pages, lsn), OneWay(pages), FreshChains(pages, lsn),
         NEW b, NEW N, NEW left, WriteOK(b, N, left), NEW new, Writes(new, b, N, left),
         GoodPages(new, lsn + 1)
  PROVE  FreshChains(new, lsn + 1)
<1>1. PICK F \in [Blocks -> 0..lsn] : Bounds(F, pages) BY DEF FreshChains
<1>2. PICK H \in SUBSET Blocks : Spread(H, b, left, new) BY WriteSpread
<1>3. PICK S \in SUBSET Blocks : LedFrom(S, b) /\ (left # NoBlock => left \in S)
  <2>1. CASE left = NoBlock
    <3>1. LedFrom({}, b) BY DEF LedFrom
    <3> QED BY <2>1, <3>1
  <2>2. CASE left # NoBlock BY <2>2 DEF WriteOK, Led
  <2> QED BY <2>1, <2>2
<1>4. /\ b \in Blocks /\ pages[b].type \in InTree /\ ~pages[b].follow /\ lsn \in Nat
      /\ left # NoBlock \/ left \notin Blocks
  BY BlocksAssumption DEF WriteOK, GoodPages
<1> DEFINE G == [x \in Blocks |-> IF x \in S THEN lsn + 1 ELSE IF x \in H THEN F[b] ELSE F[x]]
<1>5. \A x \in Blocks : F[x] \in Nat /\ F[x] <= lsn BY <1>4
<1>6. G \in [Blocks -> 0..lsn + 1] BY <1>4, <1>5
<1>7. /\ \A x \in Blocks : G[x] \in Nat /\ G[x] <= lsn + 1
      /\ \A x \in S : G[x] = lsn + 1
      /\ \A x \in H : x \notin S => G[x] = F[b]
      /\ \A x \in Blocks : x \notin S /\ x \notin H => G[x] = F[x]
  BY <1>4, <1>5
<1> HIDE DEF G
<1>8. \A x \in H : (x = b \/ pages[x].type = "new") /\ x \notin S
  <2>1. \A x \in S : pages[x].follow BY <1>3 DEF LedFrom
  <2>2. \A x \in Blocks : pages[x].type = "new" => ~pages[x].follow BY DEF GoodPages, GoodPage
  <2> QED BY <1>2, <1>4, <2>1, <2>2 DEF Spread
<1>9. ASSUME NEW x \in Blocks, pages[x].type # "new", x \notin S PROVE G[x] = F[x]
  BY <1>7, <1>8, <1>9
<1>10. ASSUME NEW x \in Blocks, NEW d \in LinksOn(new[x]) PROVE G[d.ptr] <= new[x].lsn
  <2>1. d.ptr \in Blocks BY DEF LinksOn, GoodPages, GoodPage
  <2>2. CASE new[x].lsn = lsn + 1 BY <2>1, <2>2, <1>7
  <2>3. CASE new[x] = pages[x] /\ x # b
    <3>1. d \in LinksOn(pages[x]) BY <2>3
    <3>2. d.ptr \notin S BY <3>1, <2>3, <1>3 DEF LedFrom
    <3>3. pages[d.ptr].type # "new" BY <3>1 DEF OneWay, InUse
    <3>4. F[d.ptr] <= pages[x].lsn BY <3>1, <1>1 DEF Bounds
    <3> QED BY <2>1, <2>3, <3>2, <3>3, <3>4, <1>9
  <2> QED BY <2>2, <2>3, WriteFacts
<1>11. ASSUME NEW x \in Blocks, new[x].follow PROVE G[new[x].right] <= G[x]
  <2>1. CASE x \in H
    <3>1. new[x].right \in H BY <2>1, <1>2, <1>11 DEF Spread
    <3> QED BY <2>1, <3>1, <1>4, <1>5, <1>7, <1>8
  <2>2. CASE x \notin H
    <3> DEFINE r == pages[x].right
    <3>1. pages[x].follow /\ new[x].right = r BY <2>2, <1>2, <1>11 DEF Spread
    <3>2. r \in Blocks /\ F[r] <= F[x] BY <3>1, <1>1 DEF OneWay, Bounds
    <3>3. pages[x].type # "new" /\ pages[r].type # "new"
      <4>1. pages[x].type # "new" BY <3>1 DEF GoodPages, GoodPage
      <4> QED BY <3>1, <3>2, <4>1, BlocksAssumption DEF GoodPages
    <3>4. CASE x \in S BY <3>1, <3>2, <3>4, <1>7
    <3>5. CASE x \notin S
      <4>1. r \notin S BY <3>1, <3>5, <1>3 DEF LedFrom
      <4> QED BY <3>1, <3>2, <3>3, <3>5, <4>1, <1>9
    <3> QED BY <3>4, <3>5
  <2> QED BY <2>1, <2>2
<1>12. ASSUME NEW x \in Blocks, new[x].type \in InTree PROVE new[x].nsn <= G[x]
  <2>1. new[x].nsn \in Nat /\ new[x].nsn <= lsn + 1
    <3>1. new[x] \in Page /\ GoodPage(new[x]) /\ new[x].lsn <= lsn + 1 BY DEF GoodPages
    <3> QED BY <3>1, <1>4 DEF GoodPage, Page
  <2>2. CASE x \in S BY <2>1, <2>2, <1>7
  <2>3. CASE x \in H
    <3>1. new[x].nsn <= pages[b].nsn BY <2>3, <1>2 DEF Spread
    <3>2. pages[b].nsn <= F[b] /\ pages[b].nsn \in Nat BY <1>1, <1>4 DEF Bounds, GoodPages, Page
    <3> QED BY <2>1, <2>3, <3>1, <3>2, <1>4, <1>5, <1>7, <1>8
  <2>4. CASE x \notin H /\ x \notin S
    <3>1. pages[x].type \in InTree /\ new[x].nsn = pages[x].nsn
      BY <2>4, <1>2, <1>3, <1>4, <1>12 DEF Spread
    <3> QED BY <2>4, <3>1, <1>1, <1>7 DEF Bounds
  <2> QED BY <2>2, <2>3, <2>4
<1>13. Bounds(G, new) BY <1>10, <1>11, <1>12 DEF Bounds
<1> QED BY <1>6, <1>13 DEF FreshChains

\* A write keeps the way of a scan: what it moves, it moves to where the scan will get.
LEMMA WriteScans ==
  ASSUME GoodPages(pages, lsn), SameKinds(pages, pages'), NEW b, NEW N, NEW left,
         WriteOK(b, N, left), Writes(pages', b, N, left), UNCHANGED <<scan, seenBy>>,
         NEW s \in Scanners, ScanAhead(s)
  PROVE  ScanAhead(s)'
<1>1. CASE scan[s].st # "running" BY <1>1 DEF ScanAhead
<1>2. CASE scan[s].st = "running"
  <2>1. PICK R \in SUBSET ScanItem : /\ scan[s].queue \subseteq R /\ Closed(R, pages)
                                     /\ \A i \in R : Reserved(i.blk, s)
    BY <1>2 DEF ScanAhead
  <2>2. PICK H \in SUBSET Blocks : Spread(H, b, left, pages') BY WriteSpread
  <2>3. b \in Blocks /\ pages[b].type \in InTree BY DEF WriteOK
  <2> DEFINE Moved == {j \in ScanItem : j.blk \in H /\ ItemFor(b, j.plsn) \in R}
             T == R \cup Moved
  <2>4. \A i \in ScanItem : /\ i.blk \in Blocks /\ i.plsn \in Nat /\ i = ItemFor(i.blk, i.plsn)
    BY DEF ScanItem, ItemFor
  <2>5. \A x \in Blocks, l \in Nat : ItemFor(x, l) \in ScanItem /\ ItemFor(x, l).blk = x
                                     /\ ItemFor(x, l).plsn = l
    BY DEF ScanItem, ItemFor
  <2>6. \A i \in R : i.blk \in H => i \in Moved
    <3> SUFFICES ASSUME NEW i \in R, i.blk \in H PROVE i \in Moved OBVIOUS
    <3>1. pages[i.blk].type # "new" BY <2>1 DEF Reserved
    <3>2. i.blk = b BY <3>1, <2>2 DEF Spread
    <3> QED BY <3>2, <2>4
  <2>7. \A i \in T : i \in ScanItem /\ (i \in Moved \/ (i \in R /\ i.blk \notin H)) BY <2>6
  <2>8. \A x \in H, l \in Nat : ItemFor(b, l) \in R => ItemFor(x, l) \in T BY <2>5
  <2>9. \A i \in Moved : i.blk \in H /\ ItemFor(b, i.plsn) \in R OBVIOUS
  <2>10. R \subseteq T /\ T \in SUBSET ScanItem OBVIOUS
  <2> HIDE DEF T, Moved
  <2>11. ASSUME NEW i \in T PROVE Reserved(i.blk, s)'
    <3>1. CASE i \in Moved BY <3>1, <2>2, <2>9 DEF Reserved, Spread
    <3>2. CASE i \in R
      <4>1. Reserved(i.blk, s) /\ i.blk \in Blocks BY <3>2, <2>1, <2>4
      <4> QED BY <4>1 DEF Reserved, SameKinds
    <3> QED BY <3>1, <3>2, <2>7
  <2>12. ASSUME NEW i \in T, i.plsn # 0, pages'[i.blk].right # NoBlock,
                pages'[i.blk].follow \/ i.plsn < pages'[i.blk].nsn
         PROVE  ItemFor(pages'[i.blk].right, i.plsn) \in T
    <3> DEFINE x == i.blk
    <3>1. x \in Blocks /\ i.plsn \in Nat BY <2>4, <2>7
    <3>2. CASE i \in Moved
      <4>1. x \in H /\ ItemFor(b, i.plsn) \in R BY <3>2, <2>9
      <4>2. CASE pages'[x].right \in H BY <4>1, <4>2, <3>1, <2>8
      <4>3. CASE ~pages'[x].follow /\ pages'[x].right = pages[b].right /\ pages'[x].nsn = pages[b].nsn
        <5>1. i.plsn < pages[b].nsn /\ pages[b].right # NoBlock BY <4>3, <2>12
        <5>2. ItemFor(pages[b].right, i.plsn) \in R
          BY <4>1, <5>1, <3>1, <2>1, <2>3, <2>5, <2>12 DEF Closed
        <5> QED BY <4>3, <5>2, <2>10
      <4> QED BY <4>1, <4>2, <4>3, <2>2, <2>12 DEF Spread
    <3>3. CASE i \in R /\ x \notin H
      <4>1. /\ pages'[x].right = pages[x].right
            /\ \/ (pages'[x].follow <=> pages[x].follow) /\ pages'[x].nsn = pages[x].nsn
               \/ pages[x].follow
        BY <3>1, <3>3, <2>2 DEF Spread
      <4>2. ItemFor(pages[x].right, i.plsn) \in R BY <4>1, <3>3, <2>1, <2>12 DEF Closed
      <4> QED BY <4>1, <4>2, <2>10
    <3> QED BY <3>2, <3>3, <2>7
  <2>13. Closed(T, pages') BY <2>12 DEF Closed
  <2>14. scan'[s].st = "running" /\ scan'[s].queue \subseteq T BY <1>2, <2>1, <2>10
  <2> QED BY <2>10, <2>11, <2>13, <2>14 DEF ScanAhead
<1> QED BY <1>1, <1>2
\* A step of the tree keeps the way of all scans.
LEMMA TreeScans ==
  ASSUME VInv, ScansInv, Grown, OneWrite, UNCHANGED <<scan, seenBy>> PROVE ScansInv'
<1>1. GoodPages(pages, lsn) /\ OneWay(pages) BY DEF VInv, IInv, StructInv
<1>2. /\ GoodPages(pages', lsn') /\ SameKinds(pages, pages') /\ lsn \in Nat /\ lsn' \in Nat
      /\ lsn <= lsn'
  BY <1>1, GrownFacts
<1>3. CASE UNCHANGED pages
  <2>1. FreshChains(pages, lsn) BY DEF ScansInv
  <2>2. 0..lsn \subseteq 0..lsn' BY <1>2
  <2>3. FreshChains(pages', lsn')
    <3>1. PICK F \in [Blocks -> 0..lsn] : Bounds(F, pages) BY <2>1 DEF FreshChains
    <3>2. F \in [Blocks -> 0..lsn'] BY <2>2
    <3> QED BY <1>3, <3>1, <3>2 DEF FreshChains
  <2>4. ASSUME NEW s \in Scanners PROVE ScanAhead(s)'
    BY <1>3 DEF ScansInv, ScanAhead, Closed, Reserved
  <2> QED BY <2>3, <2>4 DEF ScansInv
<1>4. ASSUME NEW b, NEW N, NEW left, WriteOK(b, N, left), Writes(pages', b, N, left), lsn' = lsn + 1
      PROVE  ScansInv'
  <2>1. FreshChains(pages', lsn') BY <1>1, <1>2, <1>4, WriteBounds DEF ScansInv
  <2>2. ASSUME NEW s \in Scanners PROVE ScanAhead(s)'
    <3>1. ScanAhead(s) BY DEF ScansInv
    <3> QED BY <1>1, <1>2, <1>4, <3>1, WriteScans
  <2> QED BY <2>1, <2>2 DEF ScansInv
<1> QED BY <1>3, <1>4 DEF OneWrite

\* The scans a step of another scan finds as they were.
LEMMA OtherScans ==
  ASSUME VInv, ScansInv, NEW s \in Scanners, NEW q, scan' = [scan EXCEPT ![s] = q],
         UNCHANGED <<treeVars, seenBy>>, ScanAhead(s)'
  PROVE  ScansInv'
<1>1. scan \in [Scanners -> ScanState] BY DEF VInv, IInv, TypeOK
<1>2. pages' = pages /\ lsn' = lsn /\ seenBy' = seenBy BY DEF treeVars
<1>3. ASSUME NEW t \in Scanners, t # s PROVE ScanAhead(t)'
  <2>1. scan'[t] = scan[t] BY <1>1, <1>3
  <2> QED BY <2>1, <1>2 DEF ScansInv, ScanAhead, Closed, Reserved
<1>4. FreshChains(pages', lsn') BY <1>2 DEF ScansInv
<1> QED BY <1>3, <1>4 DEF ScansInv

LEMMA ScanStartScans ==
  ASSUME VInv, ScansInv, NEW s \in Scanners, NEW k \in Keys, ScanStart(s, k), UNCHANGED seenBy
  PROVE  ScansInv'
<1> DEFINE i == ItemFor(Root, 0)
           q == [st |-> "running", key |-> k, queue |-> {i}, found |-> {},
                 must |-> {r \in Rows : rowst[r] = "present" /\ k \in RowKeys(r)}]
<1>1. scan' = [scan EXCEPT ![s] = q] /\ UNCHANGED <<treeVars, seenBy>>
  BY DEF ScanStart, ItemFor
<1>2. scan \in [Scanners -> ScanState] /\ pages[Root].type \in InTree
  BY DEF VInv, IInv, TypeOK, GoodPages
<1>3. i \in ScanItem /\ i.blk = Root /\ i.plsn = 0 BY BlocksAssumption DEF ItemFor, ScanItem
<1>4. q.st = "running" /\ q.queue = {i} OBVIOUS
<1> HIDE DEF q, i
<1>5. scan'[s] = q /\ pages' = pages BY <1>1, <1>2 DEF treeVars
<1>6. ScanAhead(s)'
  <2>1. Closed({i}, pages') BY <1>3 DEF Closed
  <2>2. \A j \in {i} : Reserved(j.blk, s)' BY <1>2, <1>3, <1>5 DEF Reserved
  <2>3. {i} \in SUBSET ScanItem /\ scan'[s].queue \subseteq {i} BY <1>3, <1>4, <1>5
  <2> QED BY <1>4, <1>5, <2>1, <2>2, <2>3 DEF ScanAhead
<1> QED BY <1>1, <1>6, OtherScans

\* The children of a page lead over unfinished splits only.
LEMMA ScanPageScans ==
  ASSUME VInv, ScansInv, NEW s \in Scanners, ScanPage(s), UNCHANGED seenBy PROVE ScansInv'
<1>1. PICK i \in scan[s].queue : scan' = [scan EXCEPT ![s] = Examined(scan[s], i)]
  BY DEF ScanPage
<1>2. UNCHANGED <<treeVars, seenBy>> /\ pages' = pages /\ scan[s].st = "running"
  BY DEF ScanPage, treeVars
<1>3. /\ GoodPages(pages, lsn) /\ OneWay(pages) /\ scan \in [Scanners -> ScanState]
      /\ scan[s] \in ScanState
  BY DEF VInv, IInv, StructInv, TypeOK
<1>4. PICK R \in SUBSET ScanItem : /\ scan[s].queue \subseteq R /\ Closed(R, pages)
                                   /\ \A j \in R : Reserved(j.blk, s)
  BY <1>2 DEF ScansInv, ScanAhead
<1>5. PICK F \in [Blocks -> 0..lsn] : Bounds(F, pages) BY DEF ScansInv, FreshChains
<1> DEFINE b == i.blk
           l == pages[b].lsn
           hits == {t \in pages[b].items : scan[s].key \in t.pred}
           others == (scan[s].queue \ {i}) \cup GoRight(i)
           New == {j \in ScanItem : InUse(j.blk, pages) /\ F[j.blk] <= l /\ j.plsn = l}
           T == R \cup New
<1>6. i \in ScanItem /\ i \in R /\ b \in Blocks /\ l \in Nat
  BY <1>3, <1>4 DEF ScanItem, GoodPages, Page
<1>7. GoRight(i) \subseteq R
  <2>1. GoRight(i) = IF i.plsn # 0 /\ (pages[b].follow \/ i.plsn < pages[b].nsn) /\ pages[b].right # NoBlock
                     THEN {ItemFor(pages[b].right, i.plsn)} ELSE {}
    BY DEF GoRight, ItemFor
  <2> QED BY <2>1, <1>4, <1>6 DEF Closed
<1>8. ASSUME NEW t \in hits, pages[b].type # "leaf" PROVE ItemFor(t.ptr, l) \in New
  <2>1. pages[b].type = "inner"
    <3>1. GoodPage(pages[b]) /\ pages[b].type \in {"new", "leaf", "inner", "deleted"} /\ t \in pages[b].items
      BY <1>3, <1>6, <1>8 DEF GoodPages, Page
    <3> QED BY <3>1, <1>8 DEF GoodPage
  <2>2. t \in LinksOn(pages[b]) BY <2>1 DEF LinksOn
  <2>3. t.ptr \in Blocks /\ InUse(t.ptr, pages) BY <2>2, <1>3, <1>6 DEF OneWay
  <2>4. F[t.ptr] <= l BY <2>2, <1>5, <1>6 DEF Bounds
  <2> QED BY <2>3, <2>4, <1>6 DEF ItemFor, ScanItem
<1>9. Examined(scan[s], i).st = "running" /\ Examined(scan[s], i).queue \subseteq T
  <2>1. others \subseteq R BY <1>4, <1>7
  <2>2. CASE pages[b].type = "leaf"
    <3>1. Examined(scan[s], i) = [scan[s] EXCEPT !.queue = others,
                                   !.found = scan[s].found \cup {RowOf(t.ptr) : t \in hits}]
      BY <2>2 DEF Examined
    <3>2. Examined(scan[s], i).queue = others /\ Examined(scan[s], i).st = "running"
      BY <3>1, <1>2, <1>3 DEF ScanState
    <3> QED BY <3>2, <2>1
  <2>3. CASE pages[b].type # "leaf"
    <3>1. Examined(scan[s], i) = [scan[s] EXCEPT !.queue = others \cup {ItemFor(t.ptr, l) : t \in hits}]
      BY <2>3 DEF Examined, ItemFor
    <3>2. /\ Examined(scan[s], i).queue = others \cup {ItemFor(t.ptr, l) : t \in hits}
          /\ Examined(scan[s], i).st = "running"
      BY <3>1, <1>2, <1>3 DEF ScanState
    <3> QED BY <3>2, <2>1, <2>3, <1>8
  <2> QED BY <2>2, <2>3
<1>10. ASSUME NEW j \in New
       PROVE  /\ Reserved(j.blk, s)
              /\ LET pg == pages[j.blk] IN
                 (pg.follow \/ j.plsn < pg.nsn) /\ pg.right # NoBlock => ItemFor(pg.right, j.plsn) \in New
  <2> DEFINE x == j.blk
             r == pages[x].right
  <2>1. x \in Blocks /\ InUse(x, pages) /\ F[x] <= l /\ j.plsn = l BY DEF ScanItem
  <2>2. Reserved(x, s) BY <2>1 DEF Reserved, InUse
  <2>3. ~(l < pages[x].nsn)
    <3>1. pages[x].nsn <= F[x] BY <2>1, <1>5 DEF Bounds, InUse
    <3>2. pages[x].nsn \in Nat /\ F[x] \in Nat BY <2>1, <1>3 DEF GoodPages, Page
    <3> QED BY <2>1, <3>1, <3>2, <1>6
  <2>4. ASSUME pages[x].follow, r # NoBlock PROVE ItemFor(r, l) \in New
    <3>1. r \in Blocks /\ F[r] <= F[x] BY <2>1, <2>4, <1>3, <1>5 DEF OneWay, Bounds
    <3>2. InUse(r, pages)
      <4>1. pages[r].type = pages[x].type /\ r # Root BY <2>1, <2>4, <1>3 DEF GoodPages, GoodPage
      <4> QED BY <4>1, <2>1 DEF InUse
    <3>3. F[r] \in Nat /\ F[x] \in Nat BY <2>1, <3>1, <1>3 DEF GoodPages
    <3>4. F[r] <= l BY <2>1, <3>1, <3>3, <1>6
    <3> QED BY <3>1, <3>2, <3>4, <1>6 DEF ItemFor, ScanItem
  <2> QED BY <2>1, <2>2, <2>3, <2>4
<1>11. T \in SUBSET ScanItem /\ R \subseteq T /\ New \subseteq T /\ \A j \in T : j \in R \/ j \in New OBVIOUS
<1> HIDE DEF T, New
<1>12. Closed(T, pages') BY <1>2, <1>4, <1>10, <1>11 DEF Closed
<1>13. \A j \in T : Reserved(j.blk, s)'
  <2>1. \A j \in T : Reserved(j.blk, s) BY <1>4, <1>10, <1>11
  <2> QED BY <2>1, <1>2 DEF Reserved
<1>14. scan'[s] = Examined(scan[s], i) BY <1>1, <1>3
<1>15. ScanAhead(s)' BY <1>9, <1>11, <1>12, <1>13, <1>14 DEF ScanAhead
<1> QED BY <1>1, <1>2, <1>15, OtherScans

LEMMA ScanEndScans ==
  ASSUME VInv, ScansInv, NEW s \in Scanners, ScanEnd(s), UNCHANGED seenBy PROVE ScansInv'
<1> DEFINE q == [scan[s] EXCEPT !.st = "done"]
<1>1. scan' = [scan EXCEPT ![s] = q] /\ UNCHANGED <<treeVars, seenBy>> /\ scan[s].queue = {}
  BY DEF ScanEnd
<1>2. scan \in [Scanners -> ScanState] /\ scan[s] \in ScanState BY DEF VInv, IInv, TypeOK
<1>3. q.st = "done" /\ q.queue = {} BY <1>1, <1>2 DEF ScanState
<1> HIDE DEF q
<1>4. scan'[s] = q BY <1>1, <1>2
<1>5. ScanAhead(s)' BY <1>3, <1>4 DEF ScanAhead
<1> QED BY <1>1, <1>5, OtherScans
\* A step of the vacuum takes ways away, and a block only if it is on no scan's way.
Recedes ==
  /\ UNCHANGED scan /\ lsn' \in {lsn, lsn + 1}
  /\ \A x \in Blocks :
       /\ LinksOn(pages'[x]) \subseteq LinksOn(pages[x])
       /\ pages'[x].type = "inner" => pages'[x].lsn \in {pages[x].lsn, lsn + 1}
       /\ pages'[x].follow => pages[x].follow /\ pages'[x].right = pages[x].right
       /\ pages'[x].type \in InTree => pages[x].type \in InTree /\ pages'[x].nsn = pages[x].nsn
       /\ \/ pages[x].type = "new"
          \/ pages[x].type = "deleted" /\ Running \cap seenBy[x] = {}
          \/ /\ pages'[x].right = pages[x].right /\ pages'[x].nsn = pages[x].nsn
             /\ pages'[x].follow <=> pages[x].follow
             /\ \/ pages'[x].type = pages[x].type /\ seenBy'[x] = seenBy[x]
                \/ pages'[x].type = "deleted" /\ Running \subseteq seenBy'[x]

LEMMA RecedesScans == ASSUME VInv, ScansInv, Recedes PROVE ScansInv'
<1>1. /\ GoodPages(pages, lsn) /\ OneWay(pages) /\ lsn \in Nat /\ lsn' \in Nat /\ lsn <= lsn'
      /\ UNCHANGED scan
  BY DEF VInv, IInv, StructInv, TypeOK, Recedes
<1>2. FreshChains(pages', lsn')
  <2>1. PICK F \in [Blocks -> 0..lsn] : Bounds(F, pages) BY DEF ScansInv, FreshChains
  <2>2. F \in [Blocks -> 0..lsn'] BY <1>1
  <2>3. ASSUME NEW x \in Blocks, NEW d \in LinksOn(pages'[x]) PROVE F[d.ptr] <= pages'[x].lsn
    <3>1. pages'[x].type = "inner" BY DEF LinksOn
    <3>2. d \in LinksOn(pages[x]) /\ pages'[x].lsn \in {pages[x].lsn, lsn + 1} BY <3>1 DEF Recedes
    <3>3. F[d.ptr] <= pages[x].lsn /\ d.ptr \in Blocks BY <3>2, <2>1, <1>1 DEF Bounds, OneWay
    <3>4. F[d.ptr] \in Nat /\ F[d.ptr] <= lsn BY <3>3, <1>1
    <3> QED BY <3>2, <3>3, <3>4, <1>1
  <2>4. \A x \in Blocks : pages'[x].follow => F[pages'[x].right] <= F[x] BY <2>1 DEF Recedes, Bounds
  <2>5. \A x \in Blocks : pages'[x].type \in InTree => pages'[x].nsn <= F[x]
    BY <2>1 DEF Recedes, Bounds
  <2>6. Bounds(F, pages') BY <2>3, <2>4, <2>5 DEF Bounds
  <2> QED BY <2>2, <2>6 DEF FreshChains
<1>3. ASSUME NEW s \in Scanners, scan[s].st = "running" PROVE ScanAhead(s)'
  <2>1. PICK R \in SUBSET ScanItem : /\ scan[s].queue \subseteq R /\ Closed(R, pages)
                                     /\ \A i \in R : Reserved(i.blk, s)
    BY <1>3 DEF ScansInv, ScanAhead
  <2>2. s \in Running BY <1>3 DEF Running
  <2>3. ASSUME NEW i \in R
        PROVE  LET x == i.blk IN
               /\ pages'[x].right = pages[x].right /\ pages'[x].nsn = pages[x].nsn
               /\ pages'[x].follow <=> pages[x].follow
               /\ \/ pages'[x].type = pages[x].type /\ seenBy'[x] = seenBy[x]
                  \/ pages'[x].type = "deleted" /\ Running \subseteq seenBy'[x]
    <3>1. i.blk \in Blocks BY <2>1 DEF ScanItem
    <3>2. pages[i.blk].type # "new" /\ (pages[i.blk].type = "deleted" => s \in Running \cap seenBy[i.blk])
      BY <2>1, <2>2 DEF Reserved
    <3> QED BY <3>1, <3>2 DEF Recedes
  <2>4. Closed(R, pages') BY <2>1, <2>3 DEF Closed
  <2>5. \A i \in R : Reserved(i.blk, s)' BY <2>1, <2>2, <2>3 DEF Reserved
  <2>6. scan'[s].st = "running" /\ scan'[s].queue \subseteq R BY <1>1, <1>3, <2>1
  <2> QED BY <2>4, <2>5, <2>6 DEF ScanAhead
<1>4. ASSUME NEW s \in Scanners, scan[s].st # "running" PROVE ScanAhead(s)'
  BY <1>1, <1>4 DEF ScansInv, ScanAhead
<1> QED BY <1>2, <1>3, <1>4 DEF ScansInv

LEMMA StillScans == ASSUME ScansInv, UNCHANGED <<pages, lsn, scan, seenBy>> PROVE ScansInv'
BY DEF ScansInv, FreshChains, ScanAhead, Closed, Reserved

LEMMA VacuumFreeScans == ASSUME VInv, ScansInv, VacuumFree PROVE ScansInv'
<1> DEFINE b == vac.blk
<1>1. AtPage({"new", "deleted"}) /\ UNCHANGED <<lsn, scan>> BY DEF VacuumFree
<1>2. b \in Blocks /\ pages \in [Blocks -> Page] /\ seenBy \in [Blocks -> SUBSET (Scanners \cup Rows)]
  BY <1>1, AtPageOK DEF VInv, IInv, TypeOK, VacShape
<1>3. CASE ~Recyclable(b) BY <1>1, <1>3, StillScans DEF VacuumFree
<1>4. CASE Recyclable(b)
  <2>1. pages' = [pages EXCEPT ![b] = EmptyPage] /\ seenBy' = [seenBy EXCEPT ![b] = {}]
    BY <1>4 DEF VacuumFree
  <2>2. pages[b].type = "new" \/ (pages[b].type = "deleted" /\ Running \cap seenBy[b] = {})
    BY <1>4 DEF Recyclable
  <2> HIDE DEF b
  <2>3. /\ pages'[b] = EmptyPage
        /\ \A x \in Blocks : x # b => pages'[x] = pages[x] /\ seenBy'[x] = seenBy[x]
    BY <2>1, <1>2
  <2>4. EmptyPage.type = "new" /\ ~EmptyPage.follow /\ LinksOn(EmptyPage) = {}
    BY DEF EmptyPage, LinksOn
  <2>5. Recedes BY <1>1, <2>2, <2>3, <2>4 DEF Recedes
  <2> QED BY <2>5, RecedesScans
<1> QED BY <1>3, <1>4

LEMMA VacuumLeafScans == ASSUME VInv, ScansInv, VacuumLeaf PROVE ScansInv'
<1> DEFINE b == vac.blk
           S == {t \in pages[b].items : RowOf(t.ptr) \notin vac.doomed}
<1>1. AtPage({"leaf"}) /\ UNCHANGED <<scan, seenBy>>
      /\ (IF S = pages[b].items THEN UNCHANGED <<pages, lsn>>
          ELSE /\ pages' = [pages EXCEPT ![b].items = S, ![b].lsn = lsn + 1]
               /\ lsn' = lsn + 1)
  BY DEF VacuumLeaf
<1>2. b \in Blocks /\ pages[b].type = "leaf" /\ pages \in [Blocks -> Page]
  BY <1>1, AtPageOK DEF VInv, IInv, TypeOK
<1>3. CASE S = pages[b].items BY <1>1, <1>3, StillScans
<1>4. CASE S # pages[b].items
  <2> DEFINE pg == [pages[b] EXCEPT !.items = S, !.lsn = lsn + 1]
  <2> HIDE DEF b, S
  <2>1. pages' = [pages EXCEPT ![b] = pg] /\ lsn' = lsn + 1 BY <1>1, <1>2, <1>4 DEF Page
  <2>2. /\ pg.type = "leaf" /\ pg.right = pages[b].right /\ pg.nsn = pages[b].nsn
        /\ pg.follow = pages[b].follow
    BY <1>2 DEF Page
  <2> HIDE DEF pg
  <2>3. pages'[b] = pg /\ \A x \in Blocks : x # b => pages'[x] = pages[x] BY <2>1, <1>2
  <2>4. Recedes BY <1>1, <1>2, <2>1, <2>2, <2>3 DEF Recedes, LinksOn
  <2> QED BY <2>4, RecedesScans
<1> QED BY <1>3, <1>4

LEMMA VacuumDeleteScans == ASSUME VInv, ScansInv, VacuumDelete PROVE ScansInv'
<1> DEFINE b == vac.par
           c == vac.leaf
           L == DownlinksOn(b, c)
<1>1. /\ c # NoBlock /\ Deletable(b, c) /\ Cutting(b, c, L) /\ lsn' = lsn + 1
      /\ seenBy' = [seenBy EXCEPT ![c] = Underway] /\ UNCHANGED scan
  BY DEF VacuumDelete, Cutting
<1>2. /\ b \in Blocks /\ c \in Blocks /\ GoodPages(pages, lsn)
      /\ seenBy \in [Blocks -> SUBSET (Scanners \cup Rows)]
  BY <1>1, VacFields DEF VInv, IInv, VacShape
<1>3. pages[b].type = "inner" BY <1>1 DEF VInv, VacTargets
<1>4. pages[c].type = "leaf" /\ ~pages[c].follow /\ pages[c].items = {} BY <1>1 DEF Deletable
<1> HIDE DEF b, c, L
<1>5. Cut(b, c, L) /\ b # c BY <1>1, <1>2, <1>3, <1>4, CutFacts
<1>6. seenBy'[c] = Underway /\ (\A x \in Blocks : x # c => seenBy'[x] = seenBy[x])
      /\ Running \subseteq Underway
  BY <1>1, <1>2 DEF Underway
<1>7. ASSUME NEW x \in Blocks
      PROVE  /\ LinksOn(pages'[x]) \subseteq LinksOn(pages[x])
             /\ pages'[x].type = "inner" => pages'[x].lsn \in {pages[x].lsn, lsn + 1}
             /\ pages'[x].right = pages[x].right /\ pages'[x].nsn = pages[x].nsn
             /\ pages'[x].follow <=> pages[x].follow
             /\ pages'[x].type = IF x = c THEN "deleted" ELSE pages[x].type
  <2>1. CASE x = b BY <2>1, <1>3, <1>5 DEF Cut, LinksOn
  <2>2. CASE x = c BY <2>2, <1>4, <1>5 DEF Cut, LinksOn
  <2>3. CASE x # b /\ x # c BY <2>3, <1>5 DEF Cut
  <2> QED BY <2>1, <2>2, <2>3
<1>8. Recedes BY <1>1, <1>4, <1>6, <1>7 DEF Recedes
<1> QED BY <1>8, RecedesScans

LEMMA VacuumScans == ASSUME VInv, ScansInv, VacuumStep PROVE ScansInv'
<1>1. CASE VacuumFree BY <1>1, VacuumFreeScans
<1>2. CASE VacuumLeaf BY <1>2, VacuumLeafScans
<1>3. CASE VacuumDelete BY <1>3, VacuumDeleteScans
<1>4. CASE VacuumStart \/ VacuumInner \/ VacuumRecheck \/ VacuumParent \/ VacuumLastDownlink
           \/ VacuumLockLeaf \/ VacuumGiveUp \/ VacuumEnd
  <2>1. UNCHANGED <<pages, lsn, scan, seenBy>>
    BY <1>4 DEF vars, treeVars, VacuumStart, VacuumInner, VacuumRecheck, VacuumParent,
                VacuumLastDownlink, VacuumLockLeaf, VacuumGiveUp, VacuumEnd
  <2> QED BY <2>1, StillScans
<1> QED BY <1>1, <1>2, <1>3, <1>4 DEF VacuumStep

LEMMA ScansNextOK == VInv /\ ScansInv /\ [VacNext]_allVars => ScansInv'
<1> SUFFICES ASSUME VInv, ScansInv, [VacNext]_allVars PROVE ScansInv' OBVIOUS
<1>1. CASE UNCHANGED allVars BY <1>1, StillScans DEF allVars, vars, treeVars
<1>2. CASE TreeStep
  <2>1. UNCHANGED <<vac, seenBy>> BY <1>2 DEF TreeStep
  <2>2. ASSUME NEW p \in Inserters, NEW r \in Rows, BeginRow(p, r) PROVE ScansInv'
    <3>1. UNCHANGED <<pages, lsn, scan>> BY <2>2 DEF BeginRow, treeVars
    <3> QED BY <2>1, <3>1, StillScans
  <2>3. ASSUME NEW p \in Inserters, Step(p) PROVE ScansInv'
    <3>1. Grown /\ Logged BY <2>3, TreeStepOK, StepStruct DEF VInv
    <3>2. Moves(p) BY <2>3, StepMoves
    <3> QED BY <2>1, <3>1, <3>2, TreeScans DEF Logged, Moves
  <2>4. ASSUME NEW s \in Scanners, NEW k \in Keys, ScanStart(s, k) PROVE ScansInv'
    BY <2>1, <2>4, ScanStartScans
  <2>5. ASSUME NEW s \in Scanners, ScanStep(s) PROVE ScansInv'
    BY <2>1, <2>5, ScanPageScans, ScanEndScans DEF ScanStep
  <2> QED BY <1>2, <2>2, <2>3, <2>4, <2>5 DEF TreeStep
<1>3. ASSUME NEW r \in Rows, Kill(r) PROVE ScansInv'
  <2>1. UNCHANGED <<pages, lsn, scan, seenBy>> BY <1>3 DEF Kill, treeVars
  <2> QED BY <2>1, StillScans
<1>4. CASE VacuumStep BY <1>4, VacuumScans
<1> QED BY <1>1, <1>2, <1>3, <1>4 DEF VacNext

LEMMA ScansInitOK == VacInit => ScansInv
<1> SUFFICES ASSUME VacInit PROVE ScansInv OBVIOUS
<1>1. Init BY DEF VacInit
<1>2. PICK t \in InitTrees : pages = InitPages(t) BY <1>1 DEF Init
<1>3. \A b \in Blocks : pages[b].nsn = 0 /\ pages[b].lsn \in Nat
  BY <1>2 DEF InitPages, EmptyPage, BuildLSN
<1>4. GoodPages(pages, lsn) /\ OneWay(pages) BY <1>1, InitOK, InitStruct DEF IInv, StructInv
<1>5. FreshChains(pages, lsn)
  <2> DEFINE F == [b \in Blocks |-> 0]
  <2>1. F \in [Blocks -> 0..lsn] BY <1>4 DEF GoodPages
  <2>2. \A b \in Blocks : F[b] = 0 OBVIOUS
  <2> HIDE DEF F
  <2>3. Bounds(F, pages) BY <1>3, <1>4, <2>2 DEF Bounds, OneWay
  <2> QED BY <2>1, <2>3 DEF FreshChains
<1>6. \A s \in Scanners : scan[s].st = "ready" /\ scan[s].queue = {} BY <1>1 DEF Init, ReadyScan
<1> QED BY <1>5, <1>6 DEF ScansInv, ScanAhead

THEOREM ScansInductive == VacSpec => []ScansInv
<1>1. VInv /\ ScansInv /\ [VacNext]_allVars => ScansInv' BY ScansNextOK
<1> QED BY <1>1, ScansInitOK, VacuumInductive, PTL DEF VacSpec

\* A page is recycled only when nobody can get to it any more: neither the queue of a
\* scan nor a stack nor what the vacuum is to delete names a free block
\* (gistPageRecyclable against mgistScanPage and mgistdoinsert).
THEOREM NobodyIsOnRecycled == VacSpec => []NobodyOnRecycled
<1>1. VInv /\ ScansInv => NobodyOnRecycled
  <2> SUFFICES ASSUME VInv, ScansInv PROVE NobodyOnRecycled OBVIOUS
  <2>1. ASSUME NEW s \in Scanners, NEW i \in scan[s].queue PROVE pages[i.blk].type # "new"
    <3>1. ScanAhead(s) BY DEF ScansInv
    <3>2. scan[s].st = "running" BY <2>1, <3>1 DEF ScanAhead
    <3>3. PICK R \in SUBSET ScanItem : scan[s].queue \subseteq R /\ \A j \in R : Reserved(j.blk, s)
      BY <3>1, <3>2 DEF ScanAhead
    <3> QED BY <2>1, <3>3 DEF Reserved
  <2>2. ASSUME NEW p \in Inserters, NEW i \in DOMAIN stack[p] PROVE pages[stack[p][i].blk].type # "new"
    <3>1. stack[p] \in Seq(Frame) BY DEF VInv, IInv, TypeOK
    <3>2. i \in 1..Len(stack[p]) BY <3>1
    <3> QED BY <3>2 DEF VInv, StructInv, ProcStruct, UsedFrames
  <2>3. \A c \in vac.todel : pages[c].type # "new" BY DEF VInv, VacTargets, InUse
  <2> DEFINE queued == UNION {{i.blk : i \in scan[s].queue} : s \in Scanners}
             stacked == UNION {{stack[p][i].blk : i \in DOMAIN stack[p]} : p \in Inserters}
  <2>4. \A b \in queued : pages[b].type # "new" BY <2>1
  <2>5. \A b \in stacked : pages[b].type # "new" BY <2>2
  <2>6. \A b \in queued \cup stacked \cup vac.todel : pages[b].type # "new" BY <2>3, <2>4, <2>5
  <2> QED BY <2>6 DEF NobodyOnRecycled
<1> QED BY <1>1, VacuumInductive, ScansInductive, PTL
-----------------------------------------------------------------------------
(***************************************************************************)
(* The pass misses nothing.  What it has not seen yet is ahead of it, or   *)
(* was moved by a split that is not older than the pass: from a page that  *)
(* is ahead right links of marked leaves lead to it.  If the pass has come *)
(* back from another block, the blocks it came by are clean.               *)
(***************************************************************************)
\* The leaves with index tuples of rows that are to be removed.
Dirty == {b \in Blocks : /\ pages[b].type = "leaf"
                         /\ \E t \in pages[b].items : RowOf(t.ptr) \in vac.doomed}
\* The leaves from which the pass looks to the right.
Marked == {b \in Blocks : /\ pages[b].type = "leaf" /\ pages[b].right # NoBlock
                          /\ pages[b].follow \/ vac.nsn < pages[b].nsn}
Ahead == {b \in Blocks : b > vac.orig \/ b = vac.blk}
Reaching(S) == Ahead \subseteq S /\ \A b \in S \cap Marked : pages[b].right \in S
Trail(V) ==
  /\ \A b \in V : pages[b].type \in InTree /\ b \notin Dirty
  /\ vac.orig \in V \cup {vac.blk}
  /\ \A b \in V \cap Marked : pages[b].right \in V \cup Ahead
PassOnWay ==
  /\ vac.blk <= vac.orig /\ (vac.blk = Root => vac.orig = Root)
  /\ \A S \in SUBSET Blocks : Reaching(S) => Dirty \subseteq S
  /\ \E V \in SUBSET Blocks : Trail(V)

\* The rows to be removed stay dead, and the second stage begins when nothing is left.
PassInv ==
  /\ vac.nsn <= lsn
  /\ vac.st # "idle" => \A r \in vac.doomed : rowst[r] = "dead"
  /\ vac.st = "pass" => PassOnWay
  /\ vac.st = "delete" => Dirty = {}

\* What is inserted is no tuple of a row that is to be removed.
LEMMA NothingDoomed ==
  ASSUME VInv, PassInv, vac.st # "idle", NEW b, NEW N, Adds(b, N), pages[b].type = "leaf",
         NEW t \in N, RowOf(t.ptr) \in vac.doomed
  PROVE  t \in pages[b].items
<1> SUFFICES ASSUME t \notin pages[b].items PROVE FALSE OBVIOUS
<1>1. PICK q \in Inserters : pc[q] # "idle" /\ t.ptr = EntriesOf[row[q]][pos[q]] BY DEF Adds
<1>2. row[q] \in Rows /\ pos[q] \in 1..Len(EntriesOf[row[q]])
  BY <1>1 DEF VInv, IInv, ProcOK, TypeOK
<1>3. pos[q] \in DOMAIN EntriesOf[row[q]] BY <1>2, RowsAssumption
<1>4. RowOf(t.ptr) = row[q] BY <1>1, <1>2, <1>3, RowOfEntry
<1>5. rowst[row[q]] = "inserting" BY <1>1 DEF VInv, RowsBusy
<1> QED BY <1>4, <1>5 DEF PassInv
-----------------------------------------------------------------------------
(***************************************************************************)
(* A write, from the point of view of the pass.                            *)
(***************************************************************************)
\* Page b is spread over the blocks H, which right links lead along.
Halved(H, b, N, left) ==
  /\ b \in H /\ H \subseteq Blocks
  /\ \A x \in H : /\ x = b \/ pages[x].type = "new"
                  /\ pages'[x].type = pages[b].type /\ pages'[x].items \subseteq N
                  /\ pages'[x].nsn = pages[b].nsn
                  /\ IF pages'[x].follow THEN pages'[x].right \in H
                     ELSE pages'[x].right = pages[b].right
  /\ \E x \in H : ~pages'[x].follow
  /\ \A S \in SUBSET Blocks :
       b \in S /\ (\A x \in S \cap H : pages'[x].follow => pages'[x].right \in S) => H \subseteq S
  /\ \A x \in Blocks \ H : Kept(pages[x], pages'[x], x = left)

LEMMA FittedHalved ==
  ASSUME NEW b, NEW N, NEW left, WriteOK(b, N, left), Fitted(pages', b, N, left)
  PROVE  Halved({b}, b, N, left)
<1>1. b \in Blocks /\ ~pages[b].follow BY DEF WriteOK
<1> QED BY <1>1 DEF Fitted, Halved

LEMMA DividedHalved ==
  ASSUME NEW b, NEW N, NEW left, WriteOK(b, N, left), NEW P, NEW blks,
         Divided(pages', b, N, left, P, blks)
  PROVE  \E H \in SUBSET Blocks : Halved(H, b, N, left)
<1> DEFINE n == Len(blks)
           H == {blks[i] : i \in 1..n}
<1>1. /\ blks \in Seq(Blocks) /\ n \in Nat /\ n >= 2 /\ blks[1] = b /\ 1 \in 1..n /\ n \in 1..n
      /\ \A i \in 1..n : blks[i] \in Blocks
  BY DEF Divided
<1>2. ASSUME NEW i \in 1..n
      PROVE  /\ blks[i] = b \/ pages[blks[i]].type = "new"
             /\ pages'[blks[i]].type = pages[b].type /\ pages'[blks[i]].items \subseteq N
             /\ pages'[blks[i]].nsn = pages[b].nsn
             /\ pages'[blks[i]].follow = (i < n)
             /\ pages'[blks[i]].right = IF i < n THEN blks[i + 1] ELSE pages[b].right
  <2>1. i = 1 \/ i \in 2..n BY <1>1
  <2>2. blks[i] = b \/ pages[blks[i]].type = "new" BY <2>1, <1>1 DEF Divided
  <2>3. /\ pages'[blks[i]].type = pages[b].type /\ pages'[blks[i]].items = P[i] /\ P[i] \subseteq N
        /\ pages'[blks[i]].nsn = pages[b].nsn
        /\ pages'[blks[i]].follow = (i < n)
        /\ pages'[blks[i]].right = IF i < n THEN blks[i + 1] ELSE pages[b].right
    BY DEF Divided
  <2> QED BY <2>2, <2>3
<1>3. \A x \in Blocks \ H : Kept(pages[x], pages'[x], x = left) BY DEF Divided
<1>4. H \subseteq Blocks /\ (\A i \in 1..n : blks[i] \in H) /\ \A x \in H : \E i \in 1..n : x = blks[i]
  BY <1>1
<1> HIDE DEF n, H
<1>5. ASSUME NEW x \in H
      PROVE  /\ x = b \/ pages[x].type = "new"
             /\ pages'[x].type = pages[b].type /\ pages'[x].items \subseteq N
             /\ pages'[x].nsn = pages[b].nsn
             /\ IF pages'[x].follow THEN pages'[x].right \in H
                ELSE pages'[x].right = pages[b].right
  <2>1. PICK i \in 1..n : x = blks[i] BY <1>4
  <2>2. i < n => i + 1 \in 1..n BY <1>1
  <2>3. IF pages'[x].follow THEN pages'[x].right \in H ELSE pages'[x].right = pages[b].right
    BY <2>1, <2>2, <1>2, <1>4
  <2> QED BY <2>1, <2>3, <1>2
<1>6. blks[n] \in H /\ ~pages'[blks[n]].follow
  <2>1. pages'[blks[n]].follow = (n < n) /\ ~(n < n) BY <1>1, <1>2
  <2> QED BY <2>1, <1>1, <1>4
<1>7. ASSUME NEW S \in SUBSET Blocks, b \in S,
             \A x \in S \cap H : pages'[x].follow => pages'[x].right \in S
      PROVE  H \subseteq S
  <2> DEFINE T == {i \in Nat : i + 1 \in 1..n => blks[i + 1] \in S}
  <2>1. 0 \in T BY <1>1, <1>7
  <2>2. ASSUME NEW i \in Nat, i \in T PROVE i + 1 \in T
    <3> SUFFICES ASSUME i + 1 + 1 \in 1..n PROVE blks[i + 1 + 1] \in S OBVIOUS
    <3>1. i + 1 \in 1..n /\ i + 1 < n BY <1>1
    <3>2. blks[i + 1] \in S \cap H BY <2>2, <3>1, <1>4
    <3> QED BY <3>1, <3>2, <1>2, <1>7
  <2>3. Nat \subseteq T
    <3> HIDE DEF T
    <3> QED BY <2>1, <2>2, SetInduction
  <2>4. ASSUME NEW i \in 1..n PROVE blks[i] \in S
    <3>1. i - 1 \in Nat /\ i - 1 + 1 = i BY <1>1
    <3> QED BY <2>3, <3>1
  <2> QED BY <2>4, <1>4
<1>8. Halved(H, b, N, left) BY <1>1, <1>3, <1>4, <1>5, <1>6, <1>7 DEF Halved
<1> QED BY <1>4, <1>8

\* A page that a write leaves where it is leads where it led, and is as clean.
LEMMA KeptMarks ==
  ASSUME GoodPages(pages, lsn), vac.nsn \in Nat, vac.nsn <= lsn, UNCHANGED vac,
         NEW b, NEW N, NEW left, WriteOK(b, N, left),
         NEW x \in Blocks, Kept(pages[x], pages'[x], x = left)
  PROVE  /\ x \in Marked' <=> x \in Marked
         /\ x \in Dirty' <=> x \in Dirty
         /\ pages'[x].right = pages[x].right /\ pages'[x].type = pages[x].type
<1>1. pages'[x].type = pages[x].type /\ pages'[x].items = pages[x].items
      /\ pages'[x].right = pages[x].right
  BY DEF Kept
<1>2. x \in Dirty' <=> x \in Dirty BY <1>1 DEF Dirty
<1>3. ASSUME x # left PROVE x \in Marked' <=> x \in Marked
  <2>1. pages'[x] = pages[x] /\ vac' = vac BY <1>3 DEF Kept
  <2> QED BY <2>1 DEF Marked
<1>4. ASSUME x = left PROVE x \in Marked' <=> x \in Marked
  <2>1. pages[x].follow BY <1>4, BlocksAssumption DEF WriteOK
  <2>2. pages'[x].nsn = lsn + 1 BY <1>4 DEF Kept
  <2>3. vac.nsn < lsn + 1 BY DEF GoodPages
  <2>4. vac'.nsn < pages'[x].nsn BY <2>2, <2>3
  <2>5. x \in Marked <=> pages[x].type = "leaf" /\ pages[x].right # NoBlock BY <2>1 DEF Marked
  <2>6. x \in Marked' <=> pages'[x].type = "leaf" /\ pages'[x].right # NoBlock BY <2>4 DEF Marked
  <2> QED BY <1>1, <2>5, <2>6
<1>5. x \in Marked' <=> x \in Marked BY <1>2, <1>3, <1>4
<1> QED BY <1>1, <1>2, <1>5

\* What reaches all halves reaches the page they were, and with the page all halves.
LEMMA HalvedReach ==
  ASSUME GoodPages(pages, lsn), vac.nsn \in Nat, vac.nsn <= lsn, UNCHANGED vac,
         NEW b, NEW N, NEW left, WriteOK(b, N, left), NEW H, Halved(H, b, N, left),
         NEW S \in SUBSET Blocks, Reaching(S)'
  PROVE  /\ Reaching(S)
         /\ pages[b].type = "leaf" /\ b \in S => H \subseteq S
<1>1. Ahead \subseteq S /\ \A x \in S \cap Marked' : pages'[x].right \in S
  BY DEF Reaching, Ahead
<1>2. b \in H /\ b \in Blocks /\ H \subseteq Blocks /\ NoBlock \notin Blocks
  BY BlocksAssumption DEF Halved
<1>3. ASSUME NEW x \in H, pages[b].type = "leaf", pages'[x].follow PROVE x \in Marked'
  <2>1. pages'[x].right \in H /\ pages'[x].type = pages[b].type BY <1>3 DEF Halved
  <2> QED BY <2>1, <1>2, <1>3 DEF Marked
<1>4. pages[b].type = "leaf" /\ b \in S => H \subseteq S
  <2> SUFFICES ASSUME pages[b].type = "leaf", b \in S PROVE H \subseteq S OBVIOUS
  <2>1. \A x \in S \cap H : pages'[x].follow => pages'[x].right \in S BY <1>1, <1>3
  <2> QED BY <2>1 DEF Halved
<1>5. ASSUME NEW x \in S, x \in Marked PROVE pages[x].right \in S
  <2>1. CASE x \notin H
    <3>1. Kept(pages[x], pages'[x], x = left) BY <2>1 DEF Halved
    <3>2. x \in Marked' /\ pages'[x].right = pages[x].right BY <3>1, <1>5, KeptMarks
    <3> QED BY <3>2, <1>1
  <2>2. CASE x \in H
    <3>1. pages[x].type = "leaf" BY <1>5 DEF Marked
    <3>2. x = b BY <2>2, <3>1 DEF Halved
    <3>3. H \subseteq S BY <3>1, <3>2, <1>4
    <3>4. PICK y \in H : ~pages'[y].follow BY DEF Halved
    <3>5. /\ pages'[y].right = pages[b].right /\ pages'[y].nsn = pages[b].nsn
          /\ pages'[y].type = pages[b].type
      BY <3>4 DEF Halved
    <3>6. pages[b].right # NoBlock /\ vac.nsn < pages[b].nsn BY <3>2, <1>5 DEF Marked, WriteOK
    <3>7. y \in Marked' BY <3>1, <3>2, <3>5, <3>6, <1>2 DEF Marked
    <3> QED BY <3>2, <3>3, <3>5, <3>7, <1>1
  <2> QED BY <2>1, <2>2
<1> QED BY <1>1, <1>4, <1>5 DEF Reaching

\* Only the halves of a page that is not clean are not clean.
LEMMA HalvedDirty ==
  ASSUME VInv, PassInv, vac.st # "idle", UNCHANGED vac,
         NEW b, NEW N, NEW left, WriteOK(b, N, left), Adds(b, N), NEW H, Halved(H, b, N, left),
         NEW x \in Dirty'
  PROVE  IF x \in H THEN b \in Dirty ELSE x \in Dirty
<1>1. /\ GoodPages(pages, lsn) /\ vac.nsn \in Nat /\ vac.nsn <= lsn
      /\ x \in Blocks /\ pages'[x].type = "leaf"
      /\ \E t \in pages'[x].items : RowOf(t.ptr) \in vac.doomed
  BY VacFields DEF VInv, IInv, PassInv, Dirty
<1>2. CASE x \in H
  <2>1. pages[b].type = "leaf" /\ pages'[x].items \subseteq N /\ b \in Blocks
    BY <1>1, <1>2 DEF Halved
  <2>2. PICK t \in N : RowOf(t.ptr) \in vac.doomed BY <1>1, <2>1
  <2>3. t \in pages[b].items BY <2>1, <2>2, NothingDoomed
  <2> QED BY <1>2, <2>1, <2>2, <2>3 DEF Dirty
<1>3. CASE x \notin H
  <2>1. Kept(pages[x], pages'[x], x = left) BY <1>1, <1>3 DEF Halved
  <2> QED BY <1>1, <1>3, <2>1, KeptMarks
<1> QED BY <1>2, <1>3

LEMMA HalvedOnWay ==
  ASSUME VInv, PassInv, vac.st = "pass", UNCHANGED vac, lsn' = lsn + 1,
         NEW b, NEW N, NEW left, WriteOK(b, N, left), Adds(b, N), NEW H, Halved(H, b, N, left)
  PROVE  PassOnWay'
<1>1. PassOnWay /\ GoodPages(pages, lsn) /\ vac.nsn \in Nat /\ lsn \in Nat /\ vac.nsn <= lsn
  BY VacFields DEF VInv, IInv, TypeOK, PassInv, PassOnWay
<1>3. ASSUME NEW S \in SUBSET Blocks, Reaching(S)', NEW x \in Dirty' PROVE x \in S
  <2>1. Reaching(S) /\ (pages[b].type = "leaf" /\ b \in S => H \subseteq S)
    BY <1>1, <1>3, HalvedReach
  <2>2. Dirty \subseteq S BY <2>1, <1>1 DEF PassOnWay
  <2>3. IF x \in H THEN b \in Dirty ELSE x \in Dirty BY <1>1, <1>3, HalvedDirty
  <2>4. b \in Dirty => pages[b].type = "leaf" BY DEF Dirty
  <2> QED BY <2>1, <2>2, <2>3, <2>4
<1>4. PICK V \in SUBSET Blocks : Trail(V) BY <1>1 DEF PassOnWay
<1> DEFINE W == IF b \in V THEN V \cup H ELSE V
<1>5. H \subseteq Blocks /\ b \in H /\ pages[b].type \in InTree BY DEF Halved, WriteOK
<1>6. W \in SUBSET Blocks /\ V \subseteq W /\ \A x \in W : IF x \in H THEN b \in V ELSE x \in V
  <2>1. ASSUME NEW x \in V, x \in H PROVE x = b
    <3>1. pages[x].type \in InTree BY <1>4, <2>1 DEF Trail
    <3> QED BY <2>1, <3>1 DEF Halved
  <2> QED BY <2>1, <1>5
<1>7. b \in V => H \subseteq W OBVIOUS
<1> HIDE DEF W
<1>8. Ahead' = Ahead /\ vac' = vac BY DEF Ahead
<1>9. ASSUME NEW x \in W PROVE pages'[x].type \in InTree /\ x \notin Dirty'
  <2>1. CASE x \in H
    <3>1. b \in V BY <2>1, <1>6
    <3>2. b \notin Dirty BY <3>1, <1>4 DEF Trail
    <3>3. x \notin Dirty' BY <2>1, <3>2, <1>1, HalvedDirty
    <3>4. pages'[x].type = pages[b].type BY <2>1 DEF Halved
    <3> QED BY <3>3, <3>4, <1>5
  <2>2. CASE x \notin H
    <3>1. x \in V /\ x \in Blocks BY <2>2, <1>6
    <3>2. pages[x].type \in InTree /\ x \notin Dirty BY <3>1, <1>4 DEF Trail
    <3>3. x \notin Dirty' BY <2>2, <3>2, <1>1, HalvedDirty
    <3>4. Kept(pages[x], pages'[x], x = left) BY <2>2, <3>1 DEF Halved
    <3>5. pages'[x].type = pages[x].type BY <3>4 DEF Kept
    <3> QED BY <3>2, <3>3, <3>5
  <2> QED BY <2>1, <2>2
<1>10. ASSUME NEW x \in W, x \in Marked' PROVE pages'[x].right \in W \cup Ahead
  <2>1. CASE x \in H
    <3>1. b \in V BY <2>1, <1>6
    <3>2. CASE pages'[x].follow
      <4>1. pages'[x].right \in H BY <2>1, <3>2 DEF Halved
      <4> QED BY <4>1, <3>1, <1>7
    <3>3. CASE ~pages'[x].follow
      <4>1. /\ pages'[x].right = pages[b].right /\ pages'[x].nsn = pages[b].nsn
            /\ pages'[x].type = pages[b].type
        BY <2>1, <3>3 DEF Halved
      <4>2. b \in Marked BY <4>1, <3>3, <1>5, <1>8, <1>10 DEF Marked
      <4>3. pages[b].right \in V \cup Ahead BY <3>1, <4>2, <1>4 DEF Trail
      <4> QED BY <4>1, <4>3, <1>6
    <3> QED BY <3>2, <3>3
  <2>2. CASE x \notin H
    <3>1. x \in V /\ x \in Blocks BY <2>2, <1>6
    <3>2. Kept(pages[x], pages'[x], x = left) BY <2>2, <3>1 DEF Halved
    <3>3. x \in Marked /\ pages'[x].right = pages[x].right BY <3>1, <3>2, <1>1, <1>10, KeptMarks
    <3>4. pages[x].right \in V \cup Ahead BY <3>1, <3>3, <1>4 DEF Trail
    <3> QED BY <3>3, <3>4, <1>6
  <2> QED BY <2>1, <2>2
<1>11. vac.orig \in W \cup {vac.blk} BY <1>4, <1>6 DEF Trail
<1>12. Trail(W)' BY <1>8, <1>9, <1>10, <1>11 DEF Trail
<1> QED BY <1>1, <1>3, <1>6, <1>12 DEF PassOnWay

\* What a division of the root makes of the leaves.
LEMMA RootMarks ==
  ASSUME GoodPages(pages, lsn), vac.nsn \in Nat, vac.nsn <= lsn, UNCHANGED vac,
         NEW N, NEW left, WriteOK(Root, N, left), NEW P, NEW blks,
         RootDivided(pages', N, left, P, blks), NEW x \in Blocks
  PROVE  /\ x \in Marked => x \in Marked' /\ pages'[x].right = pages[x].right
         /\ pages[x].type \in InTree =>
              /\ pages'[x].type \in InTree
              /\ x \in Marked' => x \in Marked /\ pages'[x].right = pages[x].right
              /\ x \in Dirty' => x \in Dirty
<1>1. /\ pages[Root].right = NoBlock /\ pages'[Root].type = "inner"
      /\ \A i \in 1..Len(blks) : pages[blks[i]].type = "new"
  BY DEF GoodPages, RootDivided
<1>2. CASE x = Root BY <1>1, <1>2 DEF Marked, Dirty
<1>3. CASE x # Root
  <2>1. x \in Marked => pages[x].type \in InTree BY DEF Marked
  <2> SUFFICES ASSUME pages[x].type \in InTree
               PROVE  /\ x \in Marked' <=> x \in Marked
                      /\ pages'[x].right = pages[x].right /\ pages'[x].type = pages[x].type
                      /\ x \in Dirty' <=> x \in Dirty
    BY <2>1
  <2>2. \A i \in 1..Len(blks) : blks[i] # x BY <1>1
  <2>3. Kept(pages[x], pages'[x], x = left) BY <2>2, <1>3 DEF RootDivided
  <2> QED BY <2>3, KeptMarks
<1> QED BY <1>2, <1>3

\* A half of the root that is not clean tells of a root that was not.
LEMMA RootDirty ==
  ASSUME VInv, PassInv, vac.st # "idle", UNCHANGED vac,
         NEW N, NEW left, WriteOK(Root, N, left), Adds(Root, N), NEW P, NEW blks,
         RootDivided(pages', N, left, P, blks), NEW x \in Dirty'
  PROVE  x # Root /\ (x \in Dirty \/ Root \in Dirty)
<1>1. /\ GoodPages(pages, lsn) /\ vac.nsn \in Nat /\ vac.nsn <= lsn
      /\ x \in Blocks /\ pages'[x].type = "leaf"
      /\ \E t \in pages'[x].items : RowOf(t.ptr) \in vac.doomed
  BY VacFields DEF VInv, IInv, PassInv, Dirty
<1>2. x # Root BY <1>1 DEF RootDivided
<1>3. CASE \E i \in 1..Len(blks) : blks[i] = x
  <2>1. PICK i \in 1..Len(blks) : blks[i] = x BY <1>3
  <2>2. pages[Root].type = "leaf" /\ pages'[x].items \subseteq N
    BY <2>1, <1>1 DEF RootDivided
  <2>3. PICK t \in N : RowOf(t.ptr) \in vac.doomed BY <1>1, <2>2
  <2>4. t \in pages[Root].items BY <2>2, <2>3, NothingDoomed
  <2> QED BY <1>2, <2>2, <2>3, <2>4, BlocksAssumption DEF Dirty
<1>4. CASE \A i \in 1..Len(blks) : blks[i] # x
  <2>1. Kept(pages[x], pages'[x], x = left) BY <1>1, <1>2, <1>4 DEF RootDivided
  <2> QED BY <1>1, <1>2, <2>1, KeptMarks
<1> QED BY <1>3, <1>4

\* The root is the first block of the pass, and nothing leads back to it.
LEMMA RootOnWay ==
  ASSUME VInv, PassInv, vac.st = "pass", UNCHANGED vac, lsn' = lsn + 1,
         NEW N, NEW left, WriteOK(Root, N, left), Adds(Root, N), NEW P, NEW blks,
         RootDivided(pages', N, left, P, blks)
  PROVE  PassOnWay'
<1>1. /\ PassOnWay /\ GoodPages(pages, lsn) /\ vac.nsn \in Nat /\ lsn \in Nat /\ vac.nsn <= lsn
      /\ vac.orig \in Nat /\ Blocks \subseteq Nat /\ Root = 0 /\ Root \in Blocks
  BY VacFields, BlocksAssumption DEF VInv, IInv, TypeOK, PassInv, PassOnWay, Root
<1>2. vac' = vac /\ Ahead' = Ahead BY DEF Ahead
<1>3. Root \in Dirty => vac.orig = 0
  <2> SUFFICES ASSUME Root \in Dirty, vac.orig # 0 PROVE FALSE OBVIOUS
  <2> DEFINE S == Blocks \ {Root}
  <2>1. vac.blk # Root BY <1>1 DEF PassOnWay
  <2>2. Ahead \subseteq S
    <3> SUFFICES ASSUME NEW x \in Ahead, x = Root PROVE FALSE BY DEF Ahead
    <3>1. 0 > vac.orig BY <2>1, <1>1 DEF Ahead
    <3> QED BY <3>1, <1>1
  <2>3. ASSUME NEW x \in S, x \in Marked PROVE pages[x].right \in S
    <3>1. GoodPage(pages[x]) /\ pages[x].right \in Blocks \cup {NoBlock} /\ pages[x].right # NoBlock
      BY <1>1, <2>3 DEF GoodPages, Page, Marked
    <3> QED BY <3>1 DEF GoodPage
  <2>4. Dirty \subseteq S BY <1>1, <2>2, <2>3 DEF PassOnWay, Reaching
  <2> QED BY <2>4
<1>4. ASSUME NEW S \in SUBSET Blocks, Reaching(S)', NEW x \in Dirty' PROVE x \in S
  <2>1. Ahead \subseteq S /\ \A y \in S \cap Marked' : pages'[y].right \in S
    BY <1>2, <1>4 DEF Reaching
  <2>2. ASSUME NEW y \in S, y \in Marked PROVE pages[y].right \in S
    <3>1. y \in Marked' /\ pages'[y].right = pages[y].right BY <2>2, <1>1, RootMarks
    <3> QED BY <3>1, <2>1
  <2>3. Dirty \subseteq S BY <1>1, <2>1, <2>2 DEF PassOnWay, Reaching
  <2>4. x # Root /\ (x \in Dirty \/ Root \in Dirty) /\ x \in Blocks
    BY <1>1, <1>4, RootDirty DEF Dirty
  <2>5. CASE Root \in Dirty
    <3>1. x > 0 /\ vac.orig = 0 BY <2>4, <2>5, <1>1, <1>3
    <3> QED BY <3>1, <2>1, <2>4 DEF Ahead
  <2> QED BY <2>3, <2>4, <2>5
<1>5. PICK V \in SUBSET Blocks : Trail(V) BY <1>1 DEF PassOnWay
<1>6. ASSUME NEW x \in V
      PROVE  /\ pages'[x].type \in InTree /\ x \notin Dirty'
             /\ x \in Marked' => pages'[x].right \in V \cup Ahead
  <2>1. pages[x].type \in InTree /\ x \notin Dirty /\ (x \in Marked => pages[x].right \in V \cup Ahead)
    BY <1>5 DEF Trail
  <2> QED BY <2>1, <1>1, RootMarks
<1>7. Trail(V)' BY <1>2, <1>5, <1>6 DEF Trail
<1> QED BY <1>1, <1>2, <1>4, <1>7 DEF PassOnWay

\* An insertion, a split or a repair keeps the pass on its way.
LEMMA TreePass ==
  ASSUME VInv, PassInv, Grown, OneWrite, UNCHANGED vac,
         \A r \in Rows : rowst[r] = "dead" => rowst'[r] = "dead"
  PROVE  PassInv'
<1>1. /\ GoodPages(pages, lsn) /\ lsn \in Nat /\ lsn' \in Nat /\ lsn <= lsn'
      /\ vac.nsn \in Nat /\ vac.doomed \in SUBSET Rows
  BY GrownFacts, VacFields DEF VInv, IInv
<1>2. vac'.nsn <= lsn' /\ (vac'.st # "idle" => \A r \in vac'.doomed : rowst'[r] = "dead")
  BY <1>1 DEF PassInv
<1>3. CASE UNCHANGED pages
  <2>1. Dirty' = Dirty /\ Marked' = Marked /\ Ahead' = Ahead BY <1>3 DEF Dirty, Marked, Ahead
  <2>2. ASSUME PassOnWay PROVE PassOnWay'
    <3>1. \A S : Reaching(S)' <=> Reaching(S) BY <1>3, <2>1 DEF Reaching
    <3>2. \A V : Trail(V)' <=> Trail(V) BY <1>3, <2>1 DEF Trail
    <3> QED BY <2>1, <2>2, <3>1, <3>2 DEF PassOnWay
  <2> QED BY <1>2, <2>1, <2>2 DEF PassInv
<1>4. ASSUME NEW b, NEW N, NEW left, WriteOK(b, N, left), Adds(b, N),
             Writes(pages', b, N, left), lsn' = lsn + 1
      PROVE  PassInv'
  <2>1. CASE \E H : Halved(H, b, N, left)
    <3>1. PICK H : Halved(H, b, N, left) BY <2>1
    <3>2. vac.st = "pass" => PassOnWay' BY <1>4, <3>1, HalvedOnWay
    <3>3. ASSUME vac.st = "delete", NEW x \in Dirty' PROVE FALSE
      <4>1. b \in Dirty \/ x \in Dirty BY <1>4, <3>1, <3>3, HalvedDirty
      <4> QED BY <4>1, <3>3 DEF PassInv
    <3> QED BY <1>2, <3>2, <3>3 DEF PassInv
  <2>2. ASSUME b = Root, NEW P, NEW blks, RootDivided(pages', N, left, P, blks) PROVE PassInv'
    <3>1. vac.st = "pass" => PassOnWay' BY <1>4, <2>2, RootOnWay
    <3>2. ASSUME vac.st = "delete", NEW x \in Dirty' PROVE FALSE
      <4>1. Root \in Dirty \/ x \in Dirty BY <1>4, <2>2, <3>2, RootDirty
      <4> QED BY <4>1, <3>2 DEF PassInv
    <3> QED BY <1>2, <3>1, <3>2 DEF PassInv
  <2> QED BY <1>4, <2>1, <2>2, FittedHalved, DividedHalved DEF Writes
<1> QED BY <1>3, <1>4 DEF OneWrite
-----------------------------------------------------------------------------
(***************************************************************************)
(* A step of the pass.                                                     *)
(***************************************************************************)
\* It leaves every other page as it is, and of its own page at most clean tuples.
Cleans ==
  /\ \A x \in Blocks : x \in Marked => x \in Marked' /\ pages'[x].right = pages[x].right
  /\ \A x \in Blocks : x \in Dirty' => x \in Dirty /\ x # vac.blk
  /\ \A x \in Blocks : pages[x].type \in InTree =>
       pages'[x].type \in InTree /\ (x \in Marked' => x \in Marked)

\* The pass goes on to the next block that it has not seen: all that was ahead and is
\* not the page that has been cleaned is ahead still.
LEMMA OnwardPass ==
  ASSUME VInv, PassInv, vac.st = "pass", vac.blk \in Blocks, Cleans,
         vac'.blk = vac.orig + 1, vac'.orig = vac.orig + 1,
         vac.blk \in Marked => ~(pages[vac.blk].right < vac.orig)
  PROVE  PassOnWay'
<1>1. /\ PassOnWay /\ GoodPages(pages, lsn) /\ vac.orig \in Nat /\ Blocks \subseteq Nat /\ Root = 0
  BY VacFields, BlocksAssumption DEF VInv, IInv, PassInv, Root
<1>2. PICK V \in SUBSET Blocks : Trail(V) BY <1>1 DEF PassOnWay
<1>3. \A x \in Blocks : x \in Ahead' <=> x > vac.orig
  <2>1. \A x \in Blocks : x > vac.orig <=> x > vac.orig + 1 \/ x = vac.orig + 1 BY <1>1
  <2> QED BY <2>1 DEF Ahead
<1>4. ASSUME NEW S \in SUBSET Blocks, Reaching(S)', NEW x \in Dirty' PROVE x \in S
  <2> DEFINE T == S \cup V \cup {vac.blk}
  <2>1. /\ \A y \in Blocks : y > vac.orig => y \in S
        /\ \A y \in S : y \in Marked' => pages'[y].right \in S
    BY <1>3, <1>4 DEF Reaching
  <2>2. T \in SUBSET Blocks /\ S \subseteq T /\ V \subseteq T /\ vac.blk \in T OBVIOUS
  <2>3. \A y \in T : y \in S \/ y \in V \/ y = vac.blk OBVIOUS
  <2> HIDE DEF T
  <2>4. Ahead \subseteq T BY <2>1, <2>2 DEF Ahead
  <2>5. ASSUME NEW y \in T, y \in Marked PROVE pages[y].right \in T
    <3>1. CASE y \in S
      <4>1. y \in Marked' /\ pages'[y].right = pages[y].right BY <2>5, <3>1 DEF Cleans
      <4> QED BY <4>1, <3>1, <2>1, <2>2
    <3>2. CASE y \in V BY <3>2, <2>2, <2>4, <2>5, <1>2 DEF Trail
    <3>3. CASE y = vac.blk
      <4>1. pages[y].right \in Blocks BY <1>1, <2>5 DEF GoodPages, Page, Marked
      <4>2. pages[y].right = vac.orig \/ pages[y].right > vac.orig BY <4>1, <3>3, <2>5, <1>1
      <4>3. vac.orig \in T BY <1>2, <2>2 DEF Trail
      <4> QED BY <4>1, <4>2, <4>3, <2>1, <2>2
    <3> QED BY <3>1, <3>2, <3>3, <2>3
  <2>6. Dirty \subseteq T BY <1>1, <2>2, <2>4, <2>5 DEF PassOnWay, Reaching
  <2>7. x \in Blocks BY <1>4 DEF Dirty
  <2>8. x \in Dirty /\ x # vac.blk BY <1>4, <2>7 DEF Cleans
  <2>9. x \notin V BY <2>8, <1>2 DEF Trail
  <2> QED BY <2>3, <2>6, <2>8, <2>9
<1>5. Trail({})' BY DEF Trail
<1>6. vac'.blk <= vac'.orig /\ (vac'.blk = Root => vac'.orig = Root)
  <2>1. vac.orig + 1 <= vac.orig + 1 BY <1>1
  <2> QED BY <2>1
<1> QED BY <1>4, <1>5, <1>6 DEF PassOnWay

\* The pass goes back to where a split has moved tuples: the page joins the trail.
LEMMA BackPass ==
  ASSUME VInv, PassInv, vac.st = "pass", vac.blk \in Blocks, Cleans, vac.blk \in Marked,
         vac'.blk = pages[vac.blk].right, vac'.orig = vac.orig,
         pages[vac.blk].right < vac.orig
  PROVE  PassOnWay'
<1> DEFINE b == vac.blk
           r == pages[b].right
<1>1. /\ PassOnWay /\ GoodPages(pages, lsn) /\ vac.orig \in Nat /\ Blocks \subseteq Nat
      /\ b \in Blocks /\ b \in Marked
  BY VacFields, BlocksAssumption DEF VInv, IInv, PassInv
<1>2. r \in Blocks /\ r # Root /\ pages[b].type = "leaf"
  <2>1. GoodPage(pages[b]) /\ pages[b] \in Page BY <1>1 DEF GoodPages
  <2> QED BY <2>1, <1>1 DEF Marked, GoodPage, Page
<1>3. PICK V \in SUBSET Blocks : Trail(V) BY <1>1 DEF PassOnWay
<1>0. PICK W : W = V \cup {b} OBVIOUS
<1>4. \A x \in Blocks : x \in Ahead' <=> x > vac.orig \/ x = r BY DEF Ahead
<1>5. W \in SUBSET Blocks /\ V \subseteq W /\ b \in W /\ \A x \in W : x \in V \/ x = b
  BY <1>0, <1>1
<1>6. ASSUME NEW x \in W, x \in Marked PROVE pages[x].right \in W \/ pages[x].right \in Ahead'
  <2>1. CASE x = b
    <3>1. r \in Ahead' BY <1>2, <1>4
    <3> QED BY <2>1, <3>1
  <2>2. CASE x \in V
    <3>1. pages[x].right \in V \cup Ahead BY <2>2, <1>3, <1>6 DEF Trail
    <3>2. CASE pages[x].right \in V BY <3>2, <1>5
    <3>3. CASE pages[x].right \in Ahead
      <4>1. pages[x].right \in Blocks /\ (pages[x].right > vac.orig \/ pages[x].right = b)
        BY <3>3 DEF Ahead
      <4> QED BY <4>1, <1>4, <1>5
    <3> QED BY <3>1, <3>2, <3>3
  <2> QED BY <2>1, <2>2, <1>5
<1>7. ASSUME NEW x \in W
      PROVE  /\ pages'[x].type \in InTree /\ x \notin Dirty'
             /\ x \in Marked' => pages'[x].right \in W \/ pages'[x].right \in Ahead'
  <2>1. x \in Blocks /\ pages[x].type \in InTree /\ (x \in V => x \notin Dirty)
    BY <1>2, <1>3, <1>5 DEF Trail
  <2>2. x \notin Dirty' BY <2>1, <1>5 DEF Cleans
  <2>3. pages'[x].type \in InTree /\ (x \in Marked' => x \in Marked) BY <2>1 DEF Cleans
  <2>4. x \in Marked => pages'[x].right = pages[x].right BY <2>1 DEF Cleans
  <2> QED BY <2>2, <2>3, <2>4, <1>6
<1>8. vac.orig \in W
  <2>1. vac.orig \in V \/ vac.orig = b BY <1>3 DEF Trail
  <2> QED BY <2>1, <1>5
<1>9. Trail(W)'
  <2>1. vac'.orig \in W \cup {vac'.blk} BY <1>8
  <2>2. \A x \in W : pages'[x].type \in InTree /\ x \notin Dirty' BY <1>7
  <2>3. \A x \in W \cap Marked' : pages'[x].right \in W \cup Ahead' BY <1>7
  <2> QED BY <2>1, <2>2, <2>3 DEF Trail
<1>10. ASSUME NEW S \in SUBSET Blocks, Reaching(S)', NEW x \in Dirty' PROVE x \in S
  <2> DEFINE T == S \cup W
  <2>1. /\ \A y \in Blocks : y > vac.orig \/ y = r => y \in S
        /\ \A y \in S : y \in Marked' => pages'[y].right \in S
    BY <1>4, <1>10 DEF Reaching
  <2>2. T \in SUBSET Blocks /\ S \subseteq T /\ W \subseteq T /\ \A y \in T : y \in S \/ y \in W
    BY <1>5
  <2> HIDE DEF T
  <2>3. Ahead \subseteq T BY <2>1, <2>2, <1>5 DEF Ahead
  <2>4. ASSUME NEW y \in T, y \in Marked PROVE pages[y].right \in T
    <3>1. CASE y \in S
      <4>1. y \in Marked' /\ pages'[y].right = pages[y].right BY <2>2, <2>4, <3>1 DEF Cleans
      <4> QED BY <4>1, <3>1, <2>1, <2>2
    <3>2. CASE y \in W
      <4>1. pages[y].right \in W \/ pages[y].right \in Ahead' BY <2>4, <3>2, <1>6
      <4>2. pages[y].right \in Ahead' => pages[y].right \in S BY <1>10 DEF Reaching
      <4> QED BY <4>1, <4>2, <2>2
    <3> QED BY <3>1, <3>2, <2>2
  <2>5. Dirty \subseteq T BY <1>1, <2>2, <2>3, <2>4 DEF PassOnWay, Reaching
  <2>6. x \in Blocks BY <1>10 DEF Dirty
  <2>7. x \in Dirty /\ x \notin W BY <2>6, <1>7, <1>10 DEF Cleans
  <2> QED BY <2>2, <2>5, <2>7
<1>11. vac'.blk <= vac'.orig /\ (vac'.blk = Root => vac'.orig = Root)
  <2>1. r <= vac.orig BY <1>1, <1>2
  <2> QED BY <2>1, <1>2
<1>12. \A S \in SUBSET Blocks : Reaching(S)' => Dirty' \subseteq S BY <1>10
<1>13. \E X \in SUBSET Blocks : Trail(X)' BY <1>5, <1>9
<1> QED BY <1>11, <1>12, <1>13 DEF PassOnWay

\* A step of the pass keeps the invariant if it keeps the pass on its way.
LEMMA PassStep ==
  ASSUME VInv, PassInv, vac.st = "pass", vac'.st = "pass", vac'.nsn = vac.nsn,
         vac'.doomed = vac.doomed, lsn' \in {lsn, lsn + 1}, UNCHANGED rowst, PassOnWay'
  PROVE  PassInv'
<1>1. lsn \in Nat /\ vac.nsn \in Nat /\ vac.nsn <= lsn
  BY VacFields DEF VInv, IInv, TypeOK, PassInv
<1>2. vac'.nsn <= lsn' BY <1>1
<1> QED BY <1>2 DEF PassInv

LEMMA VacuumLeafPass == ASSUME VInv, PassInv, VacuumLeaf PROVE PassInv'
<1> DEFINE b == vac.blk
           pg == pages[b]
           S == {t \in pg.items : RowOf(t.ptr) \notin vac.doomed}
           E == IF S = {} /\ b = vac.orig THEN vac.empty \cup {b} ELSE vac.empty
           noted == IF S = {} /\ b = vac.orig THEN [vac EXCEPT !.empty = @ \cup {b}] ELSE vac
<1>1. AtPage({"leaf"}) /\ UNCHANGED <<xlock, procVars, scan, aborts, errs, seenBy>>
      /\ (IF S = pg.items THEN UNCHANGED <<pages, lsn>>
          ELSE /\ pages' = [pages EXCEPT ![b].items = S, ![b].lsn = lsn + 1]
               /\ lsn' = lsn + 1)
      /\ vac' = IF MovedBack(pg) THEN [noted EXCEPT !.blk = pg.right] ELSE Onward(noted)
  BY DEF VacuumLeaf
<1>2. vac.st = "pass" /\ b \in Blocks /\ pages[b].type = "leaf" /\ vac \in VacState(vac.remaining)
  BY <1>1, AtPageOK DEF VInv, VacShape
<1>3. /\ pages \in [Blocks -> Page] /\ UNCHANGED rowst /\ lsn' \in {lsn, lsn + 1}
      /\ vac.orig \in Nat /\ Blocks \subseteq Nat /\ pages[b] \in Page
  BY <1>1, <1>2, VacFields, BlocksAssumption DEF VInv, IInv, TypeOK, procVars
<1>4. noted = [vac EXCEPT !.empty = E] BY <1>2 DEF VacState
<1> HIDE DEF noted, E
<1>5. /\ vac'.st = "pass" /\ vac'.nsn = vac.nsn /\ vac'.doomed = vac.doomed
      /\ MovedBack(pg) => vac'.blk = pg.right /\ vac'.orig = vac.orig
      /\ ~MovedBack(pg) => vac'.blk = vac.orig + 1 /\ vac'.orig = vac.orig + 1
  <2>1. CASE MovedBack(pg)
    <3>1. vac' = [vac EXCEPT !.empty = E, !.blk = pg.right] BY <2>1, <1>1, <1>4
    <3> QED BY <2>1, <3>1, <1>2 DEF VacState
  <2>2. CASE ~MovedBack(pg)
    <3>1. vac' = Onward([vac EXCEPT !.empty = E]) BY <2>2, <1>1, <1>4
    <3> QED BY <2>2, <3>1, <1>2 DEF VacState, Onward
  <2> QED BY <2>1, <2>2
<1>6. /\ \A x \in Blocks : x # b => pages'[x] = pages[x]
      /\ pages'[b].type = "leaf" /\ pages'[b].items = S /\ pages'[b].right = pages[b].right
      /\ pages'[b].nsn = pages[b].nsn /\ pages'[b].follow = pages[b].follow
  <2>1. CASE S = pg.items
    <3>1. pages' = pages BY <1>1, <2>1
    <3> QED BY <3>1, <2>1, <1>2
  <2>2. CASE S # pg.items
    <3> DEFINE q == [pages[b] EXCEPT !.items = S, !.lsn = lsn + 1]
    <3> HIDE DEF b, S
    <3>1. pages' = [pages EXCEPT ![b] = q] BY <1>1, <1>2, <1>3, <2>2 DEF Page
    <3>2. /\ q.type = "leaf" /\ q.items = S /\ q.right = pages[b].right
          /\ q.nsn = pages[b].nsn /\ q.follow = pages[b].follow
      BY <1>2, <1>3 DEF Page
    <3> HIDE DEF q
    <3>3. pages'[b] = q /\ \A x \in Blocks : x # b => pages'[x] = pages[x] BY <3>1, <1>2, <1>3
    <3> QED BY <3>2, <3>3
  <2> QED BY <2>1, <2>2
<1>7. \A t \in S : RowOf(t.ptr) \notin vac.doomed OBVIOUS
<1> HIDE DEF S
<1>8. \A x \in Blocks : /\ x \in Marked' <=> x \in Marked
                        /\ pages'[x].right = pages[x].right /\ pages'[x].type = pages[x].type
  BY <1>2, <1>5, <1>6 DEF Marked
<1>9. \A x \in Blocks : x \in Dirty' => x \in Dirty /\ x # vac.blk BY <1>5, <1>6, <1>7 DEF Dirty
<1>10. Cleans BY <1>8, <1>9 DEF Cleans
<1>11. MovedBack(pg) <=> b \in Marked /\ pg.right < vac.orig BY <1>2 DEF MovedBack, Marked
<1>12. PassOnWay'
  <2>1. CASE MovedBack(pg) BY <2>1, <1>2, <1>5, <1>10, <1>11, BackPass
  <2>2. CASE ~MovedBack(pg) BY <2>2, <1>2, <1>5, <1>10, <1>11, OnwardPass
  <2> QED BY <2>1, <2>2
<1> QED BY <1>2, <1>3, <1>5, <1>12, PassStep

\* A free, deleted or internal page has no such tuples, and the pass does not look to
\* its right.
LEMMA VacuumFreePass == ASSUME VInv, PassInv, VacuumFree PROVE PassInv'
<1> DEFINE b == vac.blk
<1>1. AtPage({"new", "deleted"}) /\ UNCHANGED <<lsn, procVars>> /\ vac' = Onward(vac)
      /\ (pages' = pages \/ pages' = [pages EXCEPT ![b] = EmptyPage])
  BY DEF VacuumFree
<1>2. /\ vac.st = "pass" /\ b \in Blocks /\ pages[b].type \in {"new", "deleted"}
      /\ vac \in VacState(vac.remaining) /\ pages \in [Blocks -> Page]
  BY <1>1, AtPageOK DEF VInv, VacShape, IInv, TypeOK
<1>3. /\ vac'.st = "pass" /\ vac'.nsn = vac.nsn /\ vac'.doomed = vac.doomed
      /\ vac'.blk = vac.orig + 1 /\ vac'.orig = vac.orig + 1
  BY <1>1, <1>2 DEF Onward, VacState
<1> HIDE DEF b
<1>4. /\ \A x \in Blocks : x # b => pages'[x] = pages[x]
      /\ pages'[b].type \in {"new", "deleted"}
  BY <1>1, <1>2 DEF EmptyPage
<1>5. b \notin Marked /\ b \notin Dirty /\ b \notin Marked' /\ b \notin Dirty'
  BY <1>2, <1>4 DEF Marked, Dirty
<1>6. \A x \in Blocks : x # b => (x \in Marked' <=> x \in Marked) /\ (x \in Dirty' <=> x \in Dirty)
  BY <1>3, <1>4 DEF Marked, Dirty
<1>7. Cleans BY <1>2, <1>4, <1>5, <1>6 DEF Cleans, b
<1>8. PassOnWay' BY <1>2, <1>3, <1>5, <1>7, OnwardPass DEF b
<1> QED BY <1>1, <1>2, <1>3, <1>8, PassStep DEF procVars

LEMMA VacuumInnerPass == ASSUME VInv, PassInv, VacuumInner PROVE PassInv'
<1> DEFINE b == vac.blk
           I == IF b = vac.orig THEN vac.inner \cup {b} ELSE vac.inner
<1>1. AtPage({"inner"}) /\ UNCHANGED <<vars, seenBy>>
      /\ vac' = Onward(IF b = vac.orig THEN [vac EXCEPT !.inner = vac.inner \cup {b}] ELSE vac)
  BY DEF VacuumInner
<1>2. /\ vac.st = "pass" /\ b \in Blocks /\ pages[b].type = "inner"
      /\ vac \in VacState(vac.remaining)
  BY <1>1, AtPageOK DEF VInv, VacShape
<1>3. /\ vac'.st = "pass" /\ vac'.nsn = vac.nsn /\ vac'.doomed = vac.doomed
      /\ vac'.blk = vac.orig + 1 /\ vac'.orig = vac.orig + 1
  <2>1. vac' = Onward([vac EXCEPT !.inner = I]) BY <1>1, <1>2 DEF VacState
  <2> QED BY <2>1, <1>2 DEF Onward, VacState
<1>4. UNCHANGED <<pages, lsn, rowst>> BY <1>1 DEF vars, treeVars, procVars
<1> HIDE DEF b
<1>5. b \notin Marked /\ b \notin Dirty BY <1>2 DEF Marked, Dirty
<1>6. Marked' = Marked /\ Dirty' = Dirty BY <1>3, <1>4 DEF Marked, Dirty
<1>7. Cleans BY <1>4, <1>5, <1>6 DEF Cleans, b
<1>8. PassOnWay' BY <1>2, <1>3, <1>5, <1>7, OnwardPass DEF b
<1> QED BY <1>2, <1>3, <1>4, <1>8, PassStep

\* At the start all blocks are ahead; at the end none that is in use.
LEMMA VacuumStartPass == ASSUME VInv, PassInv, VacuumStart PROVE PassInv'
<1> DEFINE v == [IdleVac EXCEPT !.st = "pass", !.end = FileEnd, !.nsn = lsn, !.doomed = Removable,
                                !.passes = vac.passes + 1]
<1>1. vac' = v /\ UNCHANGED vars BY DEF VacuumStart
<1>2. /\ v.st = "pass" /\ v.nsn = lsn /\ v.doomed = Removable /\ v.blk = 0 /\ v.orig = 0
  BY DEF IdleVac
<1> HIDE DEF v
<1>3. UNCHANGED <<pages, lsn, rowst>> BY <1>1 DEF vars, treeVars, procVars
<1>4. \A r \in Removable : rowst[r] = "dead" BY DEF Removable
<1>5. Blocks \subseteq Nat /\ lsn \in Nat /\ Root = 0
  BY BlocksAssumption DEF VInv, IInv, TypeOK, Root
<1>6. \A x \in Blocks : x \in Ahead'
  <2>1. \A x \in Blocks : x > 0 \/ x = 0 BY <1>5
  <2> QED BY <2>1, <1>1, <1>2 DEF Ahead
<1>7. \A S \in SUBSET Blocks : Reaching(S)' => Dirty' \subseteq S BY <1>6 DEF Reaching, Dirty
<1>8. Trail({})' BY <1>1, <1>2 DEF Trail
<1>9. PassOnWay' BY <1>1, <1>2, <1>5, <1>7, <1>8 DEF PassOnWay
<1>10. vac'.nsn <= lsn' BY <1>1, <1>2, <1>3, <1>5
<1> QED BY <1>1, <1>2, <1>3, <1>4, <1>9, <1>10 DEF PassInv

LEMMA VacuumRecheckPass == ASSUME VInv, PassInv, VacuumRecheck PROVE PassInv'
<1>1. vac.st = "pass" /\ vac \in VacState(vac.remaining) /\ UNCHANGED vars
  BY DEF VacuumRecheck, VInv, VacShape
<1>2. UNCHANGED <<pages, lsn, rowst>> BY <1>1 DEF vars, treeVars, procVars
<1>3. PassOnWay /\ lsn \in Nat /\ vac.blk \in Nat /\ vac.orig \in Nat
  BY <1>1, VacFields DEF PassInv, VInv, IInv, TypeOK
<1>4. CASE vac' = [vac EXCEPT !.end = FileEnd]
  <2>1. /\ vac'.st = "pass" /\ vac'.nsn = vac.nsn /\ vac'.doomed = vac.doomed
        /\ vac'.blk = vac.blk /\ vac'.orig = vac.orig
    BY <1>1, <1>4 DEF VacState
  <2>2. Dirty' = Dirty /\ Marked' = Marked /\ Ahead' = Ahead
    BY <1>2, <2>1 DEF Dirty, Marked, Ahead
  <2>3. \A S : Reaching(S)' <=> Reaching(S) BY <1>2, <2>2 DEF Reaching
  <2>4. \A V : Trail(V)' <=> Trail(V) BY <1>2, <2>1, <2>2 DEF Trail
  <2>5. PassOnWay' BY <1>3, <2>1, <2>2, <2>3, <2>4 DEF PassOnWay
  <2> QED BY <1>1, <1>2, <2>1, <2>5, PassStep
<1>5. CASE ~(vac.blk < FileEnd) /\
           vac' = [vac EXCEPT !.st = "delete", !.end = 0, !.blk = 0, !.orig = 0, !.nsn = 0,
                              !.remaining = Cardinality(vac.empty)]
  <2>1. vac'.st = "delete" /\ vac'.nsn = 0 /\ vac'.doomed = vac.doomed
    BY <1>1, <1>5 DEF VacState
  <2> DEFINE S == {x \in Blocks : x >= FileEnd}
  <2>2. FileEnd \in Nat /\ \A x \in S : pages[x].type = "new"
    <3>1. FileEnd \in Nat BY FileEndOK
    <3>2. \A x \in Blocks : pages[x].type # "new" => x < FileEnd BY FileEndOK
    <3>3. ASSUME NEW x \in Blocks, x >= FileEnd PROVE pages[x].type = "new"
      <4>1. x \in Nat /\ ~(x < FileEnd) BY <3>1, <3>3, BlocksAssumption
      <4> QED BY <4>1, <3>2
    <3> QED BY <3>1, <3>3
  <2>3. Ahead \subseteq S
    <3>1. Blocks \subseteq Nat /\ vac.blk <= vac.orig BY <1>3, BlocksAssumption DEF PassOnWay
    <3>2. \A x \in Blocks : x > vac.orig \/ x = vac.blk => x >= FileEnd
      BY <3>1, <2>2, <1>3, <1>5
    <3> QED BY <3>2 DEF Ahead
  <2>4. S \in SUBSET Blocks OBVIOUS
  <2> HIDE DEF S
  <2>5. \A x \in S : x \notin Marked /\ x \notin Dirty BY <2>2 DEF Marked, Dirty
  <2>6. Dirty \subseteq S BY <1>3, <2>3, <2>4, <2>5 DEF PassOnWay, Reaching
  <2>7. Dirty = {} BY <2>5, <2>6
  <2>8. Dirty' = Dirty BY <1>2, <2>1 DEF Dirty
  <2>9. vac'.nsn <= lsn' BY <1>2, <1>3, <2>1
  <2> QED BY <1>1, <1>2, <2>1, <2>7, <2>8, <2>9 DEF PassInv
<1> QED BY <1>4, <1>5 DEF VacuumRecheck

\* The second stage adds nothing.
LEMMA VacuumDeletePass == ASSUME VInv, PassInv, VacuumDelete PROVE PassInv'
<1> DEFINE b == vac.par
           c == vac.leaf
           L == DownlinksOn(b, c)
<1>1. /\ c # NoBlock /\ Deletable(b, c) /\ Cutting(b, c, L) /\ lsn' = lsn + 1 /\ UNCHANGED procVars
      /\ vac' = [vac EXCEPT !.leaf = NoBlock,
                            !.plsn = IF pages[b].lsn = vac.plsn THEN lsn + 1 ELSE vac.plsn]
  BY DEF VacuumDelete, Cutting
<1>2. /\ b \in Blocks /\ c \in Blocks /\ GoodPages(pages, lsn) /\ vac \in VacState(vac.remaining)
      /\ vac.nsn \in Nat /\ lsn \in Nat
  BY <1>1, VacFields DEF VInv, IInv, TypeOK, VacShape
<1>3. pages[b].type = "inner" /\ vac.st = "delete" BY <1>1 DEF VInv, VacTargets, VacShape, VacState
<1>4. pages[c].type = "leaf" /\ ~pages[c].follow /\ pages[c].items = {} BY <1>1 DEF Deletable
<1>5. vac'.st = "delete" /\ vac'.nsn = vac.nsn /\ vac'.doomed = vac.doomed
  BY <1>1, <1>2, <1>3 DEF VacState
<1> HIDE DEF b, c, L
<1>6. Cut(b, c, L) /\ b # c BY <1>1, <1>2, <1>3, <1>4, CutFacts
<1>7. ASSUME NEW x \in Dirty' PROVE x \in Dirty
  <2>1. x \in Blocks /\ pages'[x].type = "leaf" /\ \E t \in pages'[x].items : RowOf(t.ptr) \in vac.doomed
    BY <1>5, <1>7 DEF Dirty
  <2>2. x # b /\ x # c BY <2>1, <1>3, <1>6 DEF Cut
  <2>3. pages'[x] = pages[x] BY <2>1, <2>2, <1>6 DEF Cut
  <2> QED BY <2>1, <2>3 DEF Dirty
<1>8. vac'.nsn <= lsn' BY <1>1, <1>2, <1>5 DEF PassInv
<1> QED BY <1>1, <1>3, <1>5, <1>7, <1>8 DEF PassInv, procVars

LEMMA VacuumRestPass ==
  ASSUME VInv, PassInv,
         VacuumParent \/ VacuumLastDownlink \/ VacuumLockLeaf \/ VacuumGiveUp \/ VacuumEnd
  PROVE  PassInv'
<1>1. UNCHANGED <<pages, lsn, rowst>>
  BY DEF vars, treeVars, procVars, VacuumParent, VacuumLastDownlink, VacuumLockLeaf, VacuumGiveUp,
         VacuumEnd
<1>2. vac.st = "delete" /\ vac \in VacState(vac.remaining) /\ lsn \in Nat
  BY DEF VInv, IInv, TypeOK, VacTargets, VacShape, VacState, VacuumParent, VacuumLastDownlink,
         VacuumLockLeaf, VacuumGiveUp, VacuumEnd
<1>3. CASE VacuumEnd
  <2>1. vac'.st = "idle" /\ vac'.nsn = 0 BY <1>3 DEF VacuumEnd, IdleVac
  <2> QED BY <1>1, <1>2, <2>1 DEF PassInv
<1>4. CASE VacuumParent \/ VacuumLastDownlink \/ VacuumLockLeaf \/ VacuumGiveUp
  <2>1. vac'.st = vac.st /\ vac'.nsn = vac.nsn /\ vac'.doomed = vac.doomed
    BY <1>2, <1>4 DEF VacuumParent, VacuumLastDownlink, VacuumLockLeaf, VacuumGiveUp, VacState
  <2>2. Dirty' = Dirty BY <1>1, <2>1 DEF Dirty
  <2> QED BY <1>1, <1>2, <2>1, <2>2 DEF PassInv
<1> QED BY <1>3, <1>4

LEMMA VacuumPass == ASSUME VInv, PassInv, VacuumStep PROVE PassInv'
BY VacuumStartPass, VacuumFreePass, VacuumLeafPass, VacuumInnerPass, VacuumRecheckPass,
   VacuumDeletePass, VacuumRestPass DEF VacuumStep

LEMMA StillPass ==
  ASSUME VInv, PassInv, UNCHANGED <<pages, lsn, vac>>,
         \A r \in Rows : rowst[r] = "dead" => rowst'[r] = "dead"
  PROVE  PassInv'
BY TreePass DEF Grown, OneWrite

\* A dead row stays dead.
LEMMA PassNextOK == VInv /\ PassInv /\ [VacNext]_allVars => PassInv'
<1> SUFFICES ASSUME VInv, PassInv, [VacNext]_allVars PROVE PassInv' OBVIOUS
<1>0. rowst \in [Rows -> {"absent", "inserting", "present", "aborted", "dead"}]
      /\ row \in [Inserters -> Rows]
  BY DEF VInv, IInv, TypeOK
<1>1. CASE UNCHANGED allVars
  <2>1. UNCHANGED <<pages, lsn, vac, rowst>> BY <1>1 DEF allVars, vars, treeVars, procVars
  <2> QED BY <2>1, StillPass
<1>2. CASE TreeStep
  <2>1. UNCHANGED vac BY <1>2 DEF TreeStep
  <2>2. ASSUME NEW p \in Inserters, NEW r \in Rows, BeginRow(p, r) PROVE PassInv'
    <3>1. /\ UNCHANGED <<pages, lsn>> /\ rowst[r] = "absent"
          /\ rowst' = [rowst EXCEPT ![r] = "inserting"]
      BY <2>2 DEF BeginRow, treeVars
    <3>2. \A q \in Rows : rowst[q] = "dead" => rowst'[q] = "dead" BY <3>1, <1>0
    <3> QED BY <2>1, <3>1, <3>2, StillPass
  <2>3. ASSUME NEW p \in Inserters, Step(p) PROVE PassInv'
    <3>1. Grown /\ Logged BY <2>3, TreeStepOK, StepStruct DEF VInv
    <3>2. Moves(p) BY <2>3, StepMoves
    <3>3. pc[p] # "idle" /\ rowst[row[p]] = "inserting" BY <3>2 DEF Moves, VInv, RowsBusy
    <3>4. rowst' = rowst \/ \E st \in {"present", "aborted"} : rowst' = [rowst EXCEPT ![row[p]] = st]
      BY <3>2 DEF Moves, KeepsRow
    <3>5. \A q \in Rows : rowst[q] = "dead" => rowst'[q] = "dead" BY <3>3, <3>4, <1>0
    <3> QED BY <2>1, <3>1, <3>5, TreePass DEF Logged
  <2>4. ASSUME NEW s \in Scanners, NEW k \in Keys, ScanStart(s, k) PROVE PassInv'
    <3>1. UNCHANGED <<pages, lsn, rowst>> BY <2>4 DEF ScanStart, treeVars, procVars
    <3> QED BY <2>1, <3>1, StillPass
  <2>5. ASSUME NEW s \in Scanners, ScanStep(s) PROVE PassInv'
    <3>1. UNCHANGED <<pages, lsn, rowst>>
      BY <2>5 DEF ScanStep, ScanPage, ScanEnd, treeVars, procVars
    <3> QED BY <2>1, <3>1, StillPass
  <2> QED BY <1>2, <2>2, <2>3, <2>4, <2>5 DEF TreeStep
<1>3. ASSUME NEW r \in Rows, Kill(r) PROVE PassInv'
  <2>1. UNCHANGED <<pages, lsn, vac>> /\ rowst' = [rowst EXCEPT ![r] = "dead"]
    BY <1>3 DEF Kill, treeVars
  <2>2. \A q \in Rows : rowst[q] = "dead" => rowst'[q] = "dead" BY <2>1, <1>0
  <2> QED BY <2>1, <2>2, StillPass
<1>4. CASE VacuumStep BY <1>4, VacuumPass
<1>5. CASE Quiescent /\ vac.st = "idle" /\ vac.passes > 0 /\ UNCHANGED allVars BY <1>1, <1>5
<1> QED BY <1>1, <1>2, <1>3, <1>4, <1>5 DEF VacNext

LEMMA PassInitOK == VacInit => PassInv
BY DEF VacInit, Init, IdleVac, BuildLSN, PassInv

THEOREM PassInductive == VacSpec => []PassInv
<1>1. VInv /\ PassInv /\ [VacNext]_allVars => PassInv' BY PassNextOK
<1> QED BY <1>1, PassInitOK, VacuumInductive, PTL DEF VacSpec

\* gistbulkdelete leaves no index tuple of a row that it was to remove, although
\* inserters split pages behind its back: whatever they move to a block it has left
\* behind, it comes back for.
THEOREM PassIsComplete == VacSpec => []PassComplete
<1>1. PassInv => PassComplete BY DEF PassInv, PassComplete, Dirty
<1> QED BY <1>1, PassInductive, PTL
-----------------------------------------------------------------------------
(***************************************************************************)
(* The steps of IndexContract, with a vacuum.  It takes index tuples away  *)
(* and is no step of the contract; a row dies in the table.                *)
(***************************************************************************)
VacContractInv == LeavesIndexed /\ ScansSound

LEMMA VacContract == VInv /\ VacContractInv => ContractInv
BY DEF VInv, RowsBusy, VacContractInv, ContractInv, OwnRows

LEMMA ThinnedLeaves ==
  ASSUME VInv, LeavesIndexed, NoneTakenBack, LeafItems(pages') \subseteq LeafItems(pages)
  PROVE  LeavesIndexed'
<1>1. \A i \in LeafItems(pages) : RowOf(i.ptr) \in Rows BY LeafItemFacts, EntryRow DEF VInv
<1> QED BY <1>1 DEF LeavesIndexed, NoneTakenBack

\* What is on the leaves after a step of the vacuum was there before.
LEMMA VacuumThins ==
  ASSUME VInv, VacuumStep
  PROVE  rowst' = rowst /\ scan' = scan /\ LeafItems(pages') \subseteq LeafItems(pages)
<1>0. pages \in [Blocks -> Page] BY DEF VInv, IInv, TypeOK
<1>1. CASE VacuumFree
  <2>1. vac.blk \in Blocks BY <1>1, AtPageOK DEF VacuumFree
  <2>2. pages' = pages \/ pages' = [pages EXCEPT ![vac.blk] = EmptyPage] BY <1>1 DEF VacuumFree
  <2>3. EmptyPage.type = "new" BY DEF EmptyPage
  <2>4. \A x \in Blocks : pages'[x].type = "leaf" => pages'[x] = pages[x] BY <1>0, <2>1, <2>2, <2>3
  <2> QED BY <1>1, <2>4 DEF VacuumFree, LeafItems, procVars
<1>2. CASE VacuumLeaf
  <2> DEFINE b == vac.blk
             S == {t \in pages[b].items : RowOf(t.ptr) \notin vac.doomed}
             pg == [pages[b] EXCEPT !.items = S, !.lsn = lsn + 1]
  <2>1. b \in Blocks /\ pages[b].type = "leaf" /\ pages[b] \in Page
    BY <1>0, <1>2, AtPageOK DEF VacuumLeaf, AtPage
  <2>2. pages' = pages \/ pages' = [pages EXCEPT ![b].items = S, ![b].lsn = lsn + 1]
    BY <1>2 DEF VacuumLeaf
  <2> HIDE DEF S, b
  <2>3. pages' = pages \/ pages' = [pages EXCEPT ![b] = pg] BY <1>0, <2>1, <2>2 DEF Page
  <2>4. pg.items = S BY <2>1 DEF Page
  <2> HIDE DEF pg
  <2>5. \A x \in Blocks : pages'[x] = pages[x] \/ (x = b /\ pages'[x] = pg) BY <1>0, <2>1, <2>3
  <2>6. S \subseteq pages[b].items BY DEF S
  <2> QED BY <1>2, <2>1, <2>4, <2>5, <2>6 DEF VacuumLeaf, LeafItems, procVars
<1>3. CASE VacuumDelete
  <2> DEFINE b == vac.par
             c == vac.leaf
             L == DownlinksOn(b, c)
  <2>1. c # NoBlock /\ Deletable(b, c) /\ Cutting(b, c, L) /\ rowst' = rowst /\ scan' = scan
    BY <1>3 DEF VacuumDelete, Cutting, procVars
  <2>2. b \in Blocks /\ c \in Blocks /\ GoodPages(pages, lsn) BY <2>1, VacFields DEF VInv, IInv
  <2>3. pages[b].type = "inner" BY <2>1 DEF VInv, VacTargets
  <2>4. pages[c].type = "leaf" /\ ~pages[c].follow /\ pages[c].items = {} BY <2>1 DEF Deletable
  <2> HIDE DEF b, c, L
  <2>5. Cut(b, c, L) BY <2>1, <2>2, <2>3, <2>4, CutFacts
  <2>6. \A x \in Blocks : pages'[x].type = "leaf" => pages'[x] = pages[x] BY <2>5 DEF Cut
  <2> QED BY <2>1, <2>6 DEF LeafItems
<1>4. CASE VacuumStart \/ VacuumInner \/ VacuumRecheck \/ VacuumParent \/ VacuumLastDownlink
           \/ VacuumLockLeaf \/ VacuumGiveUp \/ VacuumEnd
  <2>1. UNCHANGED <<pages, rowst, scan>>
    BY <1>4 DEF vars, treeVars, procVars, VacuumStart, VacuumInner, VacuumRecheck, VacuumParent,
                VacuumLastDownlink, VacuumLockLeaf, VacuumGiveUp, VacuumEnd
  <2> QED BY <2>1 DEF LeafItems
<1> QED BY <1>1, <1>2, <1>3, <1>4 DEF VacuumStep

LEMMA VacStepContract ==
  ASSUME VInv, VacContractInv, AnswersComplete', [VacNext]_allVars
  PROVE  ContractStep
<1>0. IInv /\ ContractInv BY VacContract DEF VInv
<1>1. ASSUME UNCHANGED <<rowst, scan>> PROVE ContractStep BY <1>1, SameQueries DEF ContractStep
<1>2. CASE UNCHANGED allVars BY <1>1, <1>2 DEF allVars, vars, procVars
<1>3. CASE TreeStep
  <2>1. [Next]_vars BY <1>3 DEF TreeStep, Next
  <2> QED BY <1>0, <2>1, NextContractStep
<1>4. ASSUME NEW r \in Rows, Kill(r) PROVE ContractStep
  <2>1. scan' = scan /\ rowst[r] = "present" /\ rowst' = [rowst EXCEPT ![r] = "dead"]
    BY <1>4 DEF Kill
  <2>2. Query' = Query BY <2>1, SameQueries
  <2>3. Contract!Kill(r) BY <2>1, <2>2 DEF Contract!Kill, Query
  <2> QED BY <2>3 DEF ContractStep, Contract!Next
<1>5. CASE VacuumStep BY <1>1, <1>5, VacuumThins
<1> QED BY <1>2, <1>3, <1>4, <1>5 DEF VacNext

LEMMA VacContractNext ==
  ASSUME VInv, VacContractInv, [VacNext]_allVars PROVE VacContractInv'
<1>0. IInv /\ ContractInv /\ VacContractInv
      /\ rowst \in [Rows -> {"absent", "inserting", "present", "aborted", "dead"}]
  BY VacContract DEF VInv, IInv, TypeOK
<1>1. ASSUME NoneTakenBack, scan' = scan, LeafItems(pages') \subseteq LeafItems(pages)
      PROVE  VacContractInv'
  BY <1>1, ThinnedLeaves, ScansStaySound DEF VacContractInv
<1>2. CASE UNCHANGED allVars
  <2>1. UNCHANGED <<pages, rowst, scan>> BY <1>2 DEF allVars, vars, treeVars, procVars
  <2> QED BY <1>1, <2>1 DEF NoneTakenBack, Given, LeafItems
<1>3. CASE TreeStep
  <2>1. [Next]_vars BY <1>3 DEF TreeStep, Next
  <2> QED BY <1>0, <2>1, ContractNextOK DEF ContractInv, VacContractInv
<1>4. ASSUME NEW r \in Rows, Kill(r) PROVE VacContractInv'
  <2>1. UNCHANGED <<pages, scan>> /\ rowst' = [rowst EXCEPT ![r] = "dead"]
    BY <1>4 DEF Kill, treeVars
  <2>2. NoneTakenBack BY <1>0, <2>1 DEF NoneTakenBack, Given
  <2> QED BY <1>1, <2>1, <2>2 DEF LeafItems
<1>5. CASE VacuumStep
  <2>1. rowst' = rowst /\ scan' = scan /\ LeafItems(pages') \subseteq LeafItems(pages)
    BY <1>5, VacuumThins
  <2> QED BY <1>1, <2>1 DEF NoneTakenBack, Given
<1> QED BY <1>2, <1>3, <1>4, <1>5 DEF VacNext

LEMMA VacInitContract == VacInit => VacContractInv /\ Contract!Init
BY ContractInitOK, InitContract DEF VacInit, ContractInv, VacContractInv

\* A vacuum that deletes and recycles pages and gives rows up does not show, either:
\* the steps under it are those of the contract, which again asks for nothing but
\* that answers are complete.
THEOREM VacuumRefines == VacSpec => (ImplementsContract <=> []AnswersComplete)
<1>1. VacSpec => [](VInv /\ VacContractInv)
  <2>1. VInv /\ VacContractInv /\ [VacNext]_allVars => VacContractInv' BY VacContractNext
  <2>2. VacInit => VacContractInv BY VacInitContract
  <2> QED BY <2>1, <2>2, VacuumInductive, PTL DEF VacSpec
<1>2. Contract!Init /\ [][ContractStep]_<<rowst, Query>> <=> ImplementsContract
  BY PTL DEF ImplementsContract, Contract!Spec, ContractStep, Query
<1>3. VInv /\ VacContractInv /\ AnswersComplete' /\ [VacNext]_allVars => ContractStep
  BY VacStepContract
<1>4. VacInit => Contract!Init BY VacInitContract
<1>5. VacSpec /\ []AnswersComplete => ImplementsContract
  BY <1>1, <1>2, <1>3, <1>4, PTL DEF VacSpec, ContractStep
<1>6. ImplementsContract => []AnswersComplete
  BY <1>2, ContractAnswers, PTL DEF ContractStep
<1> QED BY <1>5, <1>6
=============================================================================
