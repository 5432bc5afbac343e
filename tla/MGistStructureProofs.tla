------------------------ MODULE MGistStructureProofs ------------------------
(***************************************************************************)
(* Proofs about MGistTree: the shape of the tree.  Every page but the root *)
(* has one way in, a finished split appears in one step, and who reads the *)
(* parent after that step needs no right link.                             *)
(***************************************************************************)
EXTENDS MGistTreeProofs, FiniteSetTheorems

(***************************************************************************)
(* The inductive invariant.                                                *)
(***************************************************************************)
USE DEF InTree

\* The downlinks on a page.
LinksOn(pg) == IF pg.type = "inner" THEN pg.items ELSE {}
\* Block c has a downlink; block c is the right sibling of an unfinished split.
Linked(pgs, c) == \E b \in Blocks : \E d \in LinksOn(pgs[b]) : d.ptr = c
Awaited(pgs, c) == \E b \in Blocks : pgs[b].follow /\ pgs[b].right = c

\* There are never two ways into a page, and there is one into every page in use.
OneWay(pgs) ==
  /\ \A a, b \in Blocks : \A d \in LinksOn(pgs[a]), e \in LinksOn(pgs[b]) :
       d.ptr = e.ptr => a = b /\ d = e
  /\ \A a, b \in Blocks :
       pgs[a].follow /\ pgs[b].follow /\ pgs[a].right = pgs[b].right => a = b
  /\ \A a, b \in Blocks : \A d \in LinksOn(pgs[a]) :
       /\ d.ptr \in Blocks /\ InUse(d.ptr, pgs)
       /\ pgs[b].follow => d.ptr # pgs[b].right
  /\ \A b \in Blocks : pgs[b].follow => pgs[b].right \in Blocks
  /\ \A c \in Blocks : InUse(c, pgs) => Linked(pgs, c) \/ Awaited(pgs, c)

\* A page with a downlink was not split after the page with the downlink was written.
FreshLinks(pgs) == \A b \in Blocks : \A d \in LinksOn(pgs[b]) : pgs[d.ptr].nsn <= pgs[b].lsn

\* Locked pages, and the pages on a stack, are not free; those below the top of a
\* stack are internal.
Held(xl, pgs) == \A b \in Blocks : xl[b] # NoProc => pgs[b].type # "new"
UsedFrames(st, pgs) ==
  /\ \A i \in 1..Len(st) : pgs[st[i].blk].type # "new"
  /\ \A i \in 1..Len(st) - 1 : pgs[st[i].blk].type = "inner"

\* The halves a call of mgistfinishsplit has yet to give downlinks are distinct and
\* chained by F_FOLLOW_RIGHT; only while mgistfixsplit collects them the chain may
\* go on.
BlocksOf(f) == {f.halves[i].blk : i \in 1..Len(f.halves)}
HalvesChained(f, fixing, pgs) ==
  LET hs == f.halves
      n == Len(hs)
  IN /\ \A i \in 1..n - 1 : pgs[hs[i].blk].follow /\ pgs[hs[i].blk].right = hs[i + 1].blk
     /\ pgs[hs[n].blk].follow = fixing
     /\ \A i, j \in 1..n : hs[i].blk = hs[j].blk => i = j
\* The call holds them, and once it has locked the parent also that.
ParentOf(f, st) == st[Len(st) - f.up - 1].blk
CallLocks(f, p, st, xl) ==
  /\ f.halves[1].blk = st[Len(st) - f.up].blk
  /\ \A i \in 1..Len(f.halves) : xl[f.halves[i].blk] = p
  /\ f.locked => xl[ParentOf(f, st)] = p /\ ParentOf(f, st) \notin BlocksOf(f)
\* An inner call f and the call g that waits for it have no page in common but the
\* parent of g, which is the page that f split and which g needs when f returns.
Apart(f, g, st) ==
  /\ g.locked /\ g.up < f.up
  /\ BlocksOf(f) \cap BlocksOf(g) = {}
  /\ \A i \in 2..Len(f.halves) : f.halves[i].blk # ParentOf(g, st)
  /\ f.unlock => f.halves[1].blk # ParentOf(g, st)
  /\ f.locked => ParentOf(f, st) # ParentOf(g, st) /\ ParentOf(f, st) \notin BlocksOf(g)
SplitsOK(p, fs, fixing, st, pgs, xl) ==
  /\ \A k \in 1..Len(fs) : HalvesChained(fs[k], fixing, pgs) /\ CallLocks(fs[k], p, st, xl)
  /\ \A j, k \in 1..Len(fs) : j < k => Apart(fs[j], fs[k], st)
\* Before the lock of an inner page was swapped, the page was not half split; if it
\* is still at the LSN seen then, it is not.
Unmoved(label, st, pgs) ==
  LET f == st[Len(st)] IN
  label = "lockinner" =>
    /\ f.lsn <= pgs[f.blk].lsn
    /\ f.lsn = pgs[f.blk].lsn => ~pgs[f.blk].follow
ProcStruct(p) ==
  /\ UsedFrames(stack[p], pages)
  /\ \A w \in bfs[p] : UsedFrames(w, pages)
  /\ SplitsOK(p, fin[p], pc[p] = "fixchain", stack[p], pages, xlock)
  /\ Unmoved(pc[p], stack[p], pages)
  /\ pc[p] = "findpath" => ~fin[p][1].locked
StructInv ==
  /\ OneWay(pages) /\ FreshLinks(pages)
  /\ Held(xlock, pages)
  /\ \A p \in Inserters : ProcStruct(p)
-----------------------------------------------------------------------------
(***************************************************************************)
(* What a write to one page, and the split it may cause, does to the ways  *)
(* into the pages.                                                         *)
(***************************************************************************)
SameShape(pg, qg) ==
  pg.type = qg.type /\ pg.items = qg.items /\ pg.right = qg.right /\ pg.follow = qg.follow

\* LSNs and NSNs are no ways in.
LEMMA OneWaySame ==
  ASSUME NEW old, NEW new, \A b \in Blocks : SameShape(old[b], new[b]), OneWay(old)
  PROVE  OneWay(new)
<1>1. \A b \in Blocks : LinksOn(old[b]) = LinksOn(new[b]) BY DEF LinksOn, SameShape
<1>2. \A c \in Blocks : InUse(c, old) <=> InUse(c, new) BY DEF InUse, SameShape
<1>3. \A c : (Linked(old, c) <=> Linked(new, c)) /\ (Awaited(old, c) <=> Awaited(new, c))
  BY <1>1 DEF Linked, Awaited, SameShape
<1>4. \A b \in Blocks : old[b].follow = new[b].follow /\ old[b].right = new[b].right
  BY DEF SameShape
<1> QED BY <1>1, <1>2, <1>3, <1>4 DEF OneWay

\* The half-split pages S that lead to x are all the pages that lead to one of S, and
\* only page b has a downlink to one of them.
LedFrom(S, b) ==
  \A x \in S :
    /\ pages[x].follow
    /\ \A y \in Blocks : pages[y].follow /\ pages[y].right = x => y \in S
    /\ \A y \in Blocks : \A d \in LinksOn(pages[y]) : d.ptr = x => y = b
Led(x, b) == \E S \in SUBSET Blocks : x \in S /\ LedFrom(S, b)

\* The tuples N go to page b, and the right sibling of the child left, if there is
\* one, gets its downlink by that.
WriteOK(b, N, left) ==
  /\ b \in Blocks /\ pages[b].type \in InTree /\ ~pages[b].follow /\ TuplesFor(b, N)
  /\ left \in (Blocks \ {Root}) \cup {NoBlock}
  /\ left # NoBlock => pages[left].follow /\ left # b /\ pages[b].type = "inner"
  /\ pages[b].type = "inner" =>
       /\ \A d, e \in N : d.ptr = e.ptr => d = e
       /\ \A d \in N : \/ \E e \in pages[b].items : e.ptr = d.ptr
                       \/ left # NoBlock /\ d.ptr = pages[left].right
       /\ \A e \in pages[b].items : \E d \in N : d.ptr = e.ptr
       /\ left # NoBlock => \E d \in N : d.ptr = pages[left].right
  /\ \A x \in Blocks : \A d \in LinksOn(pages[x]) : d.ptr = left => x = b
  /\ left # NoBlock => Led(left, b)

\* The index file with the tuples in place, all on one page.
Placed(b, N, left) ==
  [x \in Blocks |-> [type |-> pages[x].type, items |-> IF x = b THEN N ELSE pages[x].items,
                     right |-> pages[x].right, follow |-> pages[x].follow /\ x # left]]

\* The ways in, if a page could take any set of tuples without a split.
LEMMA PlacedOneWay ==
  ASSUME GoodPages(pages, lsn), OneWay(pages), NEW b, NEW N, NEW left, WriteOK(b, N, left)
  PROVE  OneWay(Placed(b, N, left))
<1> DEFINE new == Placed(b, N, left)
           old(x) == LinksOn(pages[x])
<1>1. \A x \in Blocks : /\ new[x].type = pages[x].type /\ new[x].right = pages[x].right
                        /\ new[x].items = IF x = b THEN N ELSE pages[x].items
                        /\ new[x].follow <=> pages[x].follow /\ x # left
  BY DEF Placed
<1>2. /\ b \in Blocks /\ left \in Blocks \cup {NoBlock} /\ NoBlock \notin Blocks
      /\ left # NoBlock => pages[left].follow /\ left \in Blocks /\ pages[b].type = "inner"
  BY BlocksAssumption DEF WriteOK
<1> HIDE DEF new
<1>3. \A x \in Blocks : x # b => LinksOn(new[x]) = old(x) BY <1>1 DEF LinksOn
<1>4. ASSUME pages[b].type # "inner" PROVE OneWay(new)
  <2>1. left = NoBlock BY <1>4, <1>2
  <2>2. \A x \in Blocks : LinksOn(new[x]) = old(x) BY <1>1, <1>3, <1>4 DEF LinksOn
  <2>3. \A x \in Blocks : new[x].follow <=> pages[x].follow BY <1>1, <1>2, <2>1
  <2>4. \A c : (Linked(new, c) <=> Linked(pages, c)) /\ (Awaited(new, c) <=> Awaited(pages, c))
    BY <1>1, <2>2, <2>3 DEF Linked, Awaited
  <2> QED BY <1>1, <2>2, <2>3, <2>4 DEF OneWay, InUse
<1>5. ASSUME pages[b].type = "inner" PROVE OneWay(new)
  <2>1. LinksOn(new[b]) = N /\ old(b) = pages[b].items BY <1>1, <1>2, <1>5 DEF LinksOn
  <2> DEFINE r == pages[left].right
  <2>2. /\ \A d, e \in N : d.ptr = e.ptr => d = e
        /\ \A d \in N : (\E e \in old(b) : e.ptr = d.ptr) \/ (left # NoBlock /\ d.ptr = r)
        /\ \A e \in old(b) : \E d \in N : d.ptr = e.ptr
        /\ left # NoBlock => \E d \in N : d.ptr = r
    BY <1>5, <2>1 DEF WriteOK
  <2>3. /\ \A x, y \in Blocks : \A d \in old(x), e \in old(y) : d.ptr = e.ptr => x = y /\ d = e
        /\ \A x, y \in Blocks : pages[x].follow /\ pages[y].follow /\ pages[x].right = pages[y].right => x = y
        /\ \A x, y \in Blocks : \A d \in old(x) :
             d.ptr \in Blocks /\ InUse(d.ptr, pages) /\ (pages[y].follow => d.ptr # pages[y].right)
        /\ \A x \in Blocks : pages[x].follow => pages[x].right \in Blocks
        /\ \A c \in Blocks : InUse(c, pages) => Linked(pages, c) \/ Awaited(pages, c)
    BY DEF OneWay
  <2> HIDE DEF old
  <2>4. left # NoBlock => r \in Blocks /\ InUse(r, pages)
    <3> SUFFICES ASSUME left # NoBlock PROVE r \in Blocks /\ InUse(r, pages) OBVIOUS
    <3>1. r \in Blocks BY <1>2, <2>3
    <3>2. GoodPage(pages[left]) /\ pages[r].type = pages[left].type
      BY <1>2, <3>1 DEF GoodPages
    <3> QED BY <3>1, <3>2, <1>2 DEF InUse, GoodPage, Page
  <2>5. \A x \in Blocks : \A d \in LinksOn(new[x]) :
          \/ \E e \in old(x) : e.ptr = d.ptr
          \/ x = b /\ left # NoBlock /\ d.ptr = r
    BY <1>3, <2>1, <2>2
  <2>6. ASSUME NEW x \in Blocks, NEW y \in Blocks, NEW d \in LinksOn(new[x]),
               NEW e \in LinksOn(new[y]), d.ptr = e.ptr
        PROVE  x = y /\ d = e
    <3>1. x = y
      <4>1. \A z \in Blocks : \A f \in old(z) : left # NoBlock => f.ptr # r
        BY <1>2, <2>3
      <4> QED BY <2>5, <2>6, <2>3, <4>1
    <3>2. CASE x = b BY <3>1, <3>2, <2>1, <2>2, <2>6
    <3>3. CASE x # b BY <3>1, <3>3, <1>3, <2>3, <2>6
    <3> QED BY <3>1, <3>2, <3>3
  <2>7. ASSUME NEW x \in Blocks, NEW y \in Blocks, NEW d \in LinksOn(new[x])
        PROVE  /\ d.ptr \in Blocks /\ InUse(d.ptr, new)
               /\ new[y].follow => d.ptr # new[y].right
    <3>1. d.ptr \in Blocks /\ InUse(d.ptr, pages) BY <2>3, <2>4, <2>5
    <3>2. InUse(d.ptr, new) BY <3>1, <1>1 DEF InUse
    <3>3. ASSUME new[y].follow PROVE d.ptr # new[y].right
      <4>1. pages[y].follow /\ y # left /\ new[y].right = pages[y].right BY <3>3, <1>1
      <4> QED BY <4>1, <1>2, <2>3, <2>5
    <3> QED BY <3>1, <3>2, <3>3
  <2>8. ASSUME NEW c \in Blocks, InUse(c, new) PROVE Linked(new, c) \/ Awaited(new, c)
    <3>1. InUse(c, pages) BY <2>8, <1>1 DEF InUse
    <3>2. CASE Linked(pages, c)
      <4>1. PICK x \in Blocks : \E d \in old(x) : d.ptr = c BY <3>2 DEF Linked, old
      <4>2. \E e \in LinksOn(new[x]) : e.ptr = c BY <4>1, <1>3, <2>1, <2>2
      <4> QED BY <4>2 DEF Linked
    <3>3. CASE Awaited(pages, c)
      <4>1. PICK x \in Blocks : pages[x].follow /\ pages[x].right = c BY <3>3 DEF Awaited
      <4>2. CASE x = left
        <5>1. \E d \in LinksOn(new[b]) : d.ptr = c BY <4>1, <4>2, <1>2, <2>1, <2>2
        <5> QED BY <5>1, <1>2 DEF Linked
      <4>3. CASE x # left BY <4>1, <4>3, <1>1 DEF Awaited
      <4> QED BY <4>2, <4>3
    <3> QED BY <3>1, <3>2, <3>3, <2>3
  <2>9. /\ \A x, y \in Blocks : new[x].follow /\ new[y].follow /\ new[x].right = new[y].right => x = y
        /\ \A x \in Blocks : new[x].follow => new[x].right \in Blocks
    BY <1>1, <2>3
  <2> QED BY <2>6, <2>7, <2>8, <2>9 DEF OneWay
<1>6. OneWay(new) BY <1>4, <1>5
<1> QED BY <1>6 DEF new
-----------------------------------------------------------------------------
(***************************************************************************)
(* What FitPages, SplitPages and RootSplitPages write.                     *)
(***************************************************************************)
\* Every tuple goes to exactly one half.
LEMMA PartitionCovers ==
  ASSUME GoodPages(pages, lsn), NEW b \in Blocks, pages[b].type \in InTree, NEW N,
         NEW P \in Partitions(b, N)
  PROVE  /\ \A d \in N : \E i \in 1..Len(P) : d \in P[i]
         /\ \A i, j \in 1..Len(P) : i # j => P[i] \cap P[j] = {}
<1>1. DOMAIN P = 1..Len(P) BY PartitionFacts
<1>2. UNION {P[i] : i \in DOMAIN P} = N /\ \A i, j \in DOMAIN P : i # j => P[i] \cap P[j] = {}
  BY DEF Partitions
<1> QED BY <1>1, <1>2

\* New blocks are distinct.
LEMMA FreshDistinct ==
  ASSUME NEW n \in Nat, NEW f \in FreshBlocks(n), NEW i \in 1..n, NEW j \in 1..n, i # j
  PROVE  f[i] # f[j]
<1>1. f \in [1..n -> Unused] /\ \A x, y \in 1..n : x < y => f[x] < f[y] BY DEF FreshBlocks
<1>2. f[i] \in Nat /\ f[j] \in Nat BY <1>1, BlocksAssumption DEF Unused
<1>3. i < j \/ j < i OBVIOUS
<1> QED BY <1>1, <1>2, <1>3

\* The pages of a split before the left child is dealt with.
LEMMA HalfShape ==
  ASSUME NEW b, NEW P, NEW blks \in Seq(Blocks),
         \A i, j \in 1..Len(blks) : blks[i] = blks[j] => i = j
  PROVE  /\ \A x \in Blocks : (\A i \in 1..Len(blks) : blks[i] # x) =>
              HalfPages(b, P, blks)[x] = pages[x]
         /\ \A i \in 1..Len(blks) : HalfPages(b, P, blks)[blks[i]] =
              [type |-> pages[b].type, items |-> P[i],
               right |-> IF i < Len(blks) THEN blks[i + 1]
                         ELSE IF b = Root THEN NoBlock ELSE pages[b].right,
               nsn |-> IF b = Root THEN 0 ELSE pages[b].nsn,
               lsn |-> lsn + 1,
               follow |-> b # Root /\ i < Len(blks)]
<1>1. DOMAIN blks = 1..Len(blks) /\ \A i \in 1..Len(blks) : blks[i] \in Blocks OBVIOUS
<1>2. ASSUME NEW i \in 1..Len(blks) PROVE IndexIn(blks, blks[i]) = i
  <2>1. \E j \in DOMAIN blks : blks[j] = blks[i] BY <1>1
  <2>2. IndexIn(blks, blks[i]) \in DOMAIN blks /\ blks[IndexIn(blks, blks[i])] = blks[i]
    BY <2>1 DEF IndexIn
  <2> QED BY <1>1, <2>2
<1>3. ASSUME NEW i \in 1..Len(blks)
      PROVE  HalfPages(b, P, blks)[blks[i]] =
              [type |-> pages[b].type, items |-> P[i],
               right |-> IF i < Len(blks) THEN blks[i + 1]
                         ELSE IF b = Root THEN NoBlock ELSE pages[b].right,
               nsn |-> IF b = Root THEN 0 ELSE pages[b].nsn,
               lsn |-> lsn + 1,
               follow |-> b # Root /\ i < Len(blks)]
  <2>1. \E j \in DOMAIN blks : blks[j] = blks[i] BY <1>1
  <2>2. blks[i] \in Blocks /\ IndexIn(blks, blks[i]) = i BY <1>1, <1>2
  <2> QED BY <2>1, <2>2 DEF HalfPages
<1>4. \A x \in Blocks : (\A i \in 1..Len(blks) : blks[i] # x) =>
              HalfPages(b, P, blks)[x] = pages[x]
  BY <1>1 DEF HalfPages
<1> QED BY <1>3, <1>4

\* A page that is not written, or only as the left child.
Kept(pg, qg, isLeft) ==
  IF isLeft
  THEN /\ qg.type = pg.type /\ qg.items = pg.items /\ qg.right = pg.right
       /\ ~qg.follow /\ qg.nsn = lsn + 1 /\ qg.lsn = lsn + 1
  ELSE qg = pg

\* The tuples fit; the page is divided; the root is divided.
Fitted(new, b, N, left) ==
  /\ \A x \in Blocks \ {b} : Kept(pages[x], new[x], x = left)
  /\ new[b].type = pages[b].type /\ new[b].items = N /\ new[b].right = pages[b].right
  /\ new[b].follow = pages[b].follow /\ new[b].nsn = pages[b].nsn /\ new[b].lsn = lsn + 1
Divided(new, b, N, left, P, blks) ==
  LET n == Len(blks) IN
  /\ blks \in Seq(Blocks) /\ n >= 2 /\ n = Len(P) /\ blks[1] = b
  /\ \A i \in 2..n : pages[blks[i]].type = "new" /\ blks[i] # Root
  /\ \A i, j \in 1..n : blks[i] = blks[j] => i = j
  /\ \A i \in 1..n : P[i] \subseteq N
  /\ \A d \in N : \E i \in 1..n : d \in P[i]
  /\ \A i, j \in 1..n : i # j => P[i] \cap P[j] = {}
  /\ \A i \in 1..n :
       /\ new[blks[i]].type = pages[b].type /\ new[blks[i]].items = P[i]
       /\ new[blks[i]].right = IF i < n THEN blks[i + 1] ELSE pages[b].right
       /\ new[blks[i]].follow = (i < n)
       /\ new[blks[i]].nsn = pages[b].nsn /\ new[blks[i]].lsn = lsn + 1
  /\ \A x \in Blocks : (\A i \in 1..n : blks[i] # x) => Kept(pages[x], new[x], x = left)
RootDivided(new, N, left, P, blks) ==
  LET n == Len(blks) IN
  /\ blks \in Seq(Blocks) /\ n >= 2 /\ n = Len(P)
  /\ \A i \in 1..n : pages[blks[i]].type = "new" /\ blks[i] # Root
  /\ \A i, j \in 1..n : blks[i] = blks[j] => i = j
  /\ \A i \in 1..n : P[i] \subseteq N
  /\ \A d \in N : \E i \in 1..n : d \in P[i]
  /\ \A i, j \in 1..n : i # j => P[i] \cap P[j] = {}
  /\ \A i \in 1..n :
       /\ new[blks[i]].type = pages[Root].type /\ new[blks[i]].items = P[i]
       /\ new[blks[i]].right = IF i < n THEN blks[i + 1] ELSE NoBlock
       /\ ~new[blks[i]].follow
       /\ new[blks[i]].nsn = 0 /\ new[blks[i]].lsn = lsn + 1
  /\ new[Root].type = "inner" /\ ~new[Root].follow /\ new[Root].right = NoBlock
  /\ new[Root].items = {Downlink(blks[i], P[i]) : i \in 1..n}
  /\ new[Root].nsn = 0 /\ new[Root].lsn = lsn + 1
  /\ \A x \in Blocks \ {Root} : (\A i \in 1..n : blks[i] # x) => Kept(pages[x], new[x], x = left)

\* The left child is all that WithLeftChild changes.
LEMMA LeftFacts ==
  ASSUME NEW pgs \in [Blocks -> Page], NEW left \in Blocks \cup {NoBlock}, lsn \in Nat
  PROVE  LET new == WithLeftChild(pgs, left, lsn + 1) IN
         \A x \in Blocks : Kept(pgs[x], new[x], x = left)
<1>1. ASSUME left = NoBlock PROVE \A x \in Blocks : Kept(pgs[x], WithLeftChild(pgs, left, lsn + 1)[x], x = left)
  BY <1>1, BlocksAssumption DEF WithLeftChild, Kept
<1>2. ASSUME left # NoBlock PROVE \A x \in Blocks : Kept(pgs[x], WithLeftChild(pgs, left, lsn + 1)[x], x = left)
  <2>1. WithLeftChild(pgs, left, lsn + 1) =
          [pgs EXCEPT ![left] = [@ EXCEPT !.nsn = lsn + 1, !.follow = FALSE, !.lsn = lsn + 1]]
    BY <1>2 DEF WithLeftChild
  <2> DEFINE pg == [pgs[left] EXCEPT !.nsn = lsn + 1, !.follow = FALSE, !.lsn = lsn + 1]
  <2>2. left \in Blocks /\ pgs[left] \in Page BY <1>2
  <2>3. /\ pg.type = pgs[left].type /\ pg.items = pgs[left].items /\ pg.right = pgs[left].right
        /\ pg.follow = FALSE /\ pg.nsn = lsn + 1 /\ pg.lsn = lsn + 1
    BY <2>2 DEF Page
  <2>4. WithLeftChild(pgs, left, lsn + 1) = [pgs EXCEPT ![left] = pg] BY <2>1
  <2> HIDE DEF pg
  <2> QED BY <2>2, <2>3, <2>4 DEF Kept
<1> QED BY <1>1, <1>2

\* What mgistplacetopage writes when the tuples fit.
LEMMA FittedFacts ==
  ASSUME GoodPages(pages, lsn), NEW b, NEW N, NEW left, WriteOK(b, N, left)
  PROVE  Fitted(FitPages(b, N, left), b, N, left)
<1> DEFINE pg == [pages[b] EXCEPT !.items = N, !.lsn = lsn + 1]
           pgs == [pages EXCEPT ![b] = pg]
<1>1. /\ b \in Blocks /\ left \in Blocks \cup {NoBlock} /\ left # b /\ lsn \in Nat /\ lsn + 1 \in Nat
      /\ pages \in [Blocks -> Page] /\ N \in SUBSET Item /\ pages[b] \in Page
  BY BlocksAssumption DEF GoodPages, WriteOK, TuplesFor
<1>2. /\ pg \in Page /\ pg.lsn = lsn + 1 /\ pg.nsn = pages[b].nsn /\ pg.type = pages[b].type
      /\ pg.items = N /\ pg.right = pages[b].right /\ pg.follow = pages[b].follow
  BY <1>1 DEF Page
<1>3. FitPages(b, N, left) = WithLeftChild(pgs, left, lsn + 1) BY DEF FitPages, pg
<1> HIDE DEF pg
<1>4. pgs \in [Blocks -> Page] /\ pgs[b] = pg /\ \A x \in Blocks \ {b} : pgs[x] = pages[x]
  BY <1>1, <1>2
<1> HIDE DEF pgs
<1>5. \A x \in Blocks : Kept(pgs[x], WithLeftChild(pgs, left, lsn + 1)[x], x = left)
  BY <1>1, <1>4, LeftFacts
<1>6. \A x \in Blocks \ {b} : Kept(pages[x], FitPages(b, N, left)[x], x = left)
  BY <1>3, <1>4, <1>5
<1>7. FitPages(b, N, left)[b] = pg BY <1>1, <1>3, <1>4, <1>5 DEF Kept
<1> QED BY <1>2, <1>6, <1>7 DEF Fitted

\* What a split of a page other than the root writes.
LEMMA DividedFacts ==
  ASSUME GoodPages(pages, lsn), NEW b, b # Root, NEW N, NEW left, WriteOK(b, N, left),
         NEW P \in Partitions(b, N), NEW new \in FreshBlocks(Len(P) - 1)
  PROVE  Divided(SplitPages(b, P, <<b>> \o new, left), b, N, left, P, <<b>> \o new)
<1> DEFINE blks == <<b>> \o new
           half == HalfPages(b, P, blks)
           final == SplitPages(b, P, blks, left)
<1>1. /\ b \in Blocks \ {Root} /\ pages[b].type \in InTree /\ TuplesFor(b, N)
      /\ left \in Blocks \cup {NoBlock} /\ left # b /\ NoBlock \notin Blocks
      /\ left # NoBlock => pages[left].type \in InTree
      /\ lsn \in Nat /\ lsn + 1 \in Nat
  <2>1. /\ b \in Blocks \ {Root} /\ pages[b].type \in InTree /\ TuplesFor(b, N)
        /\ left \in Blocks \cup {NoBlock} /\ left # b /\ NoBlock \notin Blocks
        /\ left # NoBlock => left \in Blocks /\ pages[left].follow
    BY BlocksAssumption DEF WriteOK
  <2>2. \A x \in Blocks : pages[x].follow => pages[x].type \in InTree
    BY DEF GoodPages, GoodPage, Page
  <2>3. lsn \in Nat /\ lsn + 1 \in Nat BY DEF GoodPages
  <2> QED BY <2>1, <2>2, <2>3
<1>2. /\ Len(P) \in Nat /\ Len(P) >= 2 /\ \A i \in 1..Len(P) : P[i] \subseteq N
      /\ \A d \in N : \E i \in 1..Len(P) : d \in P[i]
      /\ \A i, j \in 1..Len(P) : i # j => P[i] \cap P[j] = {}
  BY <1>1, PartitionFacts, PartitionCovers
<1>3. /\ new \in Seq(Blocks) /\ Len(new) = Len(P) - 1
      /\ \A i \in 1..Len(P) - 1 : new[i] \in Blocks /\ new[i] # Root /\ pages[new[i]].type = "new"
      /\ \A i, j \in 1..Len(P) - 1 : i # j => new[i] # new[j]
  <2>1. Len(P) - 1 \in Nat BY <1>2
  <2> QED BY <2>1, FreshFacts, FreshDistinct
<1>4. <<b>> \in Seq(Blocks) /\ Len(<<b>>) = 1 /\ <<b>>[1] = b BY <1>1
<1>5. /\ blks \in Seq(Blocks) /\ Len(blks) = Len(P)
      /\ \A i \in 1..Len(P) : blks[i] = IF i <= 1 THEN <<b>>[i] ELSE new[i - 1]
  BY <1>2, <1>3, <1>4, ConcatProperties
<1> HIDE DEF blks
<1>6. blks[1] = b /\ \A i \in 2..Len(P) : i - 1 \in 1..Len(P) - 1 /\ blks[i] = new[i - 1]
  BY <1>2, <1>4, <1>5
<1>7. \A i \in 2..Len(P) : pages[blks[i]].type = "new" /\ blks[i] # Root BY <1>3, <1>6
<1>8. \A i, j \in 1..Len(P) : blks[i] = blks[j] => i = j
  <2> SUFFICES ASSUME NEW i \in 1..Len(P), NEW j \in 1..Len(P), blks[i] = blks[j] PROVE i = j
    OBVIOUS
  <2>1. (i = 1 \/ i \in 2..Len(P)) /\ (j = 1 \/ j \in 2..Len(P)) OBVIOUS
  <2>2. CASE i = 1 \/ j = 1 BY <2>1, <2>2, <1>1, <1>6, <1>7
  <2>3. CASE i \in 2..Len(P) /\ j \in 2..Len(P)
    <3>1. new[i - 1] = new[j - 1] BY <2>3, <1>6
    <3>2. i - 1 = j - 1 BY <3>1, <2>3, <1>3, <1>6
    <3> QED BY <3>2, <2>3
  <2> QED BY <2>1, <2>2, <2>3
<1>9. /\ \A x \in Blocks : (\A i \in 1..Len(P) : blks[i] # x) => half[x] = pages[x]
      /\ \A i \in 1..Len(P) : half[blks[i]] =
              [type |-> pages[b].type, items |-> P[i],
               right |-> IF i < Len(P) THEN blks[i + 1]
                         ELSE IF b = Root THEN NoBlock ELSE pages[b].right,
               nsn |-> IF b = Root THEN 0 ELSE pages[b].nsn,
               lsn |-> lsn + 1,
               follow |-> b # Root /\ i < Len(P)]
  BY <1>5, <1>8, HalfShape
<1>10. SplitBlocks(b, P, blks) BY <1>5, <1>6, <1>7, <1>1 DEF SplitBlocks
<1>11. half \in [Blocks -> Page] BY <1>1, <1>10, HalvesOK DEF GoodPages
<1>12. final = WithLeftChild(half, left, lsn + 1) BY DEF SplitPages
<1> HIDE DEF half, final
<1>13. \A x \in Blocks : Kept(half[x], final[x], x = left)
  BY <1>1, <1>11, <1>12, LeftFacts
<1>14. \A i \in 1..Len(P) : blks[i] \in Blocks /\ blks[i] # left
  <2> TAKE i \in 1..Len(P)
  <2>1. i = 1 \/ i \in 2..Len(P) OBVIOUS
  <2>2. blks[i] \in Blocks BY <1>5
  <2> QED BY <2>1, <2>2, <1>1, <1>6, <1>7
<1>15. \A i \in 1..Len(P) : final[blks[i]] = half[blks[i]] BY <1>13, <1>14 DEF Kept
<1>16. ASSUME NEW i \in 1..Len(P)
       PROVE  /\ final[blks[i]].type = pages[b].type /\ final[blks[i]].items = P[i]
              /\ final[blks[i]].right = IF i < Len(P) THEN blks[i + 1] ELSE pages[b].right
              /\ final[blks[i]].follow = (i < Len(P))
              /\ final[blks[i]].nsn = pages[b].nsn /\ final[blks[i]].lsn = lsn + 1
  <2> DEFINE h == [type |-> pages[b].type, items |-> P[i],
                   right |-> IF i < Len(P) THEN blks[i + 1]
                             ELSE IF b = Root THEN NoBlock ELSE pages[b].right,
                   nsn |-> IF b = Root THEN 0 ELSE pages[b].nsn,
                   lsn |-> lsn + 1,
                   follow |-> b # Root /\ i < Len(P)]
  <2>1. /\ h.type = pages[b].type /\ h.items = P[i]
        /\ h.right = IF i < Len(P) THEN blks[i + 1] ELSE pages[b].right
        /\ h.follow = (i < Len(P))
        /\ h.nsn = pages[b].nsn /\ h.lsn = lsn + 1
    <3>1. (b # Root /\ i < Len(P)) = (i < Len(P)) OBVIOUS
    <3> QED BY <3>1
  <2>2. final[blks[i]] = h BY <1>9, <1>15
  <2> HIDE DEF h
  <2> QED BY <2>1, <2>2
<1>17. \A x \in Blocks : (\A i \in 1..Len(P) : blks[i] # x) => Kept(pages[x], final[x], x = left)
  BY <1>9, <1>13
<1>18. Divided(final, b, N, left, P, blks)
  BY <1>2, <1>5, <1>6, <1>7, <1>8, <1>16, <1>17 DEF Divided
<1> QED BY <1>18 DEF final, blks

\* What a split of the root writes: the root becomes a page of downlinks to all halves.
LEMMA RootDividedFacts ==
  ASSUME GoodPages(pages, lsn), NEW N, NEW left, WriteOK(Root, N, left),
         NEW P \in Partitions(Root, N), NEW blks \in FreshBlocks(Len(P))
  PROVE  RootDivided(RootSplitPages(P, blks, left), N, left, P, blks)
<1> DEFINE half == HalfPages(Root, P, blks)
           links == {Downlink(blks[i], P[i]) : i \in DOMAIN blks}
           root == [type |-> "inner", items |-> links, right |-> NoBlock, nsn |-> 0,
                    lsn |-> lsn + 1, follow |-> FALSE]
           mid == [half EXCEPT ![Root] = root]
           final == RootSplitPages(P, blks, left)
<1>1. /\ Root \in Blocks /\ pages[Root].type \in InTree /\ TuplesFor(Root, N)
      /\ left \in Blocks \cup {NoBlock} /\ left # Root /\ NoBlock \notin Blocks
      /\ left # NoBlock => left \in Blocks /\ pages[left].follow
      /\ lsn \in Nat /\ lsn + 1 \in Nat
  BY BlocksAssumption DEF WriteOK, GoodPages
<1>2. left # NoBlock => pages[left].type \in InTree BY <1>1 DEF GoodPages, GoodPage, Page
<1>3. /\ Len(P) \in Nat /\ Len(P) >= 2 /\ \A i \in 1..Len(P) : P[i] \subseteq N
      /\ \A d \in N : \E i \in 1..Len(P) : d \in P[i]
      /\ \A i, j \in 1..Len(P) : i # j => P[i] \cap P[j] = {}
  BY <1>1, PartitionFacts, PartitionCovers
<1>4. /\ blks \in Seq(Blocks) /\ Len(blks) = Len(P)
      /\ \A i \in 1..Len(P) : blks[i] \in Blocks /\ blks[i] # Root /\ pages[blks[i]].type = "new"
      /\ \A i, j \in 1..Len(P) : blks[i] = blks[j] => i = j
  BY <1>3, FreshFacts, FreshDistinct
<1>5. /\ \A x \in Blocks : (\A i \in 1..Len(P) : blks[i] # x) => half[x] = pages[x]
      /\ \A i \in 1..Len(P) : half[blks[i]] =
              [type |-> pages[Root].type, items |-> P[i],
               right |-> IF i < Len(P) THEN blks[i + 1]
                         ELSE IF Root = Root THEN NoBlock ELSE pages[Root].right,
               nsn |-> IF Root = Root THEN 0 ELSE pages[Root].nsn,
               lsn |-> lsn + 1,
               follow |-> Root # Root /\ i < Len(P)]
  BY <1>4, HalfShape
<1>6. SplitBlocks(Root, P, blks) BY <1>3, RootBlocks
<1>7. half \in [Blocks -> Page] BY <1>1, <1>6, HalvesOK DEF GoodPages
<1>8. links = {Downlink(blks[i], P[i]) : i \in 1..Len(P)}
  <2>1. DOMAIN blks = 1..Len(P) BY <1>4
  <2> QED BY <2>1
<1>9. root \in Page
  <2>1. \A i \in 1..Len(P) : Downlink(blks[i], P[i]) \in Item
    <3> TAKE i \in 1..Len(P)
    <3>1. P[i] \subseteq Item BY <1>1, <1>3 DEF TuplesFor
    <3>2. UnionOf(P[i]) \in SUBSET Keys BY <3>1 DEF UnionOf, Item
    <3> QED BY <3>2, <1>4 DEF Downlink, Item
  <2>2. links \in SUBSET Item BY <2>1, <1>8
  <2> HIDE DEF links
  <2> QED BY <2>2, <1>1 DEF Page
<1>10. final = WithLeftChild(mid, left, lsn + 1) BY DEF RootSplitPages
<1> HIDE DEF links
<1>11. /\ root.type = "inner" /\ root.items = links /\ root.right = NoBlock /\ root.nsn = 0
       /\ root.lsn = lsn + 1 /\ ~root.follow
  OBVIOUS
<1> HIDE DEF root, half
<1>12. /\ mid \in [Blocks -> Page] /\ mid[Root] = root
       /\ \A x \in Blocks \ {Root} : mid[x] = half[x]
  BY <1>1, <1>7, <1>9
<1> HIDE DEF mid, final
<1>13. \A x \in Blocks : Kept(mid[x], final[x], x = left) BY <1>1, <1>10, <1>12, LeftFacts
<1>14. final[Root] = root BY <1>1, <1>12, <1>13 DEF Kept
<1>15. \A i \in 1..Len(P) : final[blks[i]] = half[blks[i]]
  BY <1>1, <1>2, <1>4, <1>12, <1>13 DEF Kept
<1>16. ASSUME NEW i \in 1..Len(P)
       PROVE  /\ final[blks[i]].type = pages[Root].type /\ final[blks[i]].items = P[i]
              /\ final[blks[i]].right = IF i < Len(P) THEN blks[i + 1] ELSE NoBlock
              /\ ~final[blks[i]].follow
              /\ final[blks[i]].nsn = 0 /\ final[blks[i]].lsn = lsn + 1
  <2> DEFINE h == [type |-> pages[Root].type, items |-> P[i],
                   right |-> IF i < Len(P) THEN blks[i + 1]
                             ELSE IF Root = Root THEN NoBlock ELSE pages[Root].right,
                   nsn |-> IF Root = Root THEN 0 ELSE pages[Root].nsn,
                   lsn |-> lsn + 1,
                   follow |-> Root # Root /\ i < Len(P)]
  <2>1. /\ h.type = pages[Root].type /\ h.items = P[i]
        /\ h.right = IF i < Len(P) THEN blks[i + 1] ELSE NoBlock
        /\ ~h.follow
        /\ h.nsn = 0 /\ h.lsn = lsn + 1
    OBVIOUS
  <2>2. final[blks[i]] = h BY <1>5, <1>15
  <2> HIDE DEF h
  <2> QED BY <2>1, <2>2
<1>17. \A x \in Blocks \ {Root} : (\A i \in 1..Len(P) : blks[i] # x) => Kept(pages[x], final[x], x = left)
  BY <1>5, <1>12, <1>13
<1>18. RootDivided(final, N, left, P, blks)
  <2> DEFINE n == Len(blks)
  <2>1. n = Len(P) BY <1>4
  <2> HIDE DEF n
  <2>2. /\ blks \in Seq(Blocks) /\ n >= 2 /\ n = Len(P)
        /\ \A i \in 1..n : pages[blks[i]].type = "new" /\ blks[i] # Root
        /\ \A i, j \in 1..n : blks[i] = blks[j] => i = j
    BY <2>1, <1>3, <1>4
  <2>3. /\ \A i \in 1..n : P[i] \subseteq N
        /\ \A d \in N : \E i \in 1..n : d \in P[i]
        /\ \A i, j \in 1..n : i # j => P[i] \cap P[j] = {}
    BY <2>1, <1>3
  <2>4. \A i \in 1..n :
          /\ final[blks[i]].type = pages[Root].type /\ final[blks[i]].items = P[i]
          /\ final[blks[i]].right = IF i < n THEN blks[i + 1] ELSE NoBlock
          /\ ~final[blks[i]].follow
          /\ final[blks[i]].nsn = 0 /\ final[blks[i]].lsn = lsn + 1
    BY <2>1, <1>16
  <2>5. /\ final[Root].type = "inner" /\ ~final[Root].follow /\ final[Root].right = NoBlock
        /\ final[Root].items = {Downlink(blks[i], P[i]) : i \in 1..n}
        /\ final[Root].nsn = 0 /\ final[Root].lsn = lsn + 1
    BY <2>1, <1>8, <1>11, <1>14
  <2>6. \A x \in Blocks \ {Root} :
          (\A i \in 1..n : blks[i] # x) => Kept(pages[x], final[x], x = left)
    BY <2>1, <1>17
  <2> QED BY <2>2, <2>3, <2>4, <2>5, <2>6 DEF RootDivided, n
<1> QED BY <1>18 DEF final
-----------------------------------------------------------------------------
(***************************************************************************)
(* The three kinds of write keep the tree one-way-in.                      *)
(***************************************************************************)
\* A page that the write does not touch has the shape it would have without a split.
LEMMA KeptShape ==
  ASSUME NEW b, NEW N, NEW left, NEW x \in Blocks \ {b}, NEW new,
         Kept(pages[x], new[x], x = left), pages[x].follow \in BOOLEAN,
         new[x].follow \in BOOLEAN
  PROVE  SameShape(Placed(b, N, left)[x], new[x])
BY DEF Kept, Placed, SameShape

\* A write that fits leaves one way into each page.
LEMMA FittedOneWay ==
  ASSUME GoodPages(pages, lsn), OneWay(pages), NEW b, NEW N, NEW left, WriteOK(b, N, left),
         NEW new \in [Blocks -> Page], Fitted(new, b, N, left)
  PROVE  OneWay(new)
<1>1. OneWay(Placed(b, N, left)) BY PlacedOneWay
<1>2. /\ b \in Blocks /\ left # b
      /\ \A x \in Blocks : pages[x].follow \in BOOLEAN /\ new[x].follow \in BOOLEAN
  BY BlocksAssumption DEF WriteOK, GoodPages, Page
<1>3. \A x \in Blocks \ {b} : SameShape(Placed(b, N, left)[x], new[x])
  BY <1>2, KeptShape DEF Fitted
<1>4. SameShape(Placed(b, N, left)[b], new[b])
  BY <1>2 DEF Fitted, Placed, SameShape
<1> QED BY <1>1, <1>3, <1>4, OneWaySame

\* A split of a page other than the root leaves one way into each page: the new
\* halves are entered by F_FOLLOW_RIGHT.
LEMMA DividedOneWay ==
  ASSUME GoodPages(pages, lsn), OneWay(pages), NEW b, b # Root, NEW N, NEW left,
         WriteOK(b, N, left), NEW new \in [Blocks -> Page], NEW P, NEW blks,
         Divided(new, b, N, left, P, blks)
  PROVE  OneWay(new)
<1> DEFINE mid == Placed(b, N, left)
           n == Len(blks)
           In(x) == \E i \in 1..n : blks[i] = x
<1>1. OneWay(mid) BY PlacedOneWay
<1>2. /\ blks \in Seq(Blocks) /\ n \in Nat /\ n >= 2 /\ blks[1] = b /\ b \in Blocks
      /\ \A i \in 1..n : blks[i] \in Blocks
      /\ \A i \in 2..n : pages[blks[i]].type = "new" /\ blks[i] # Root
      /\ \A i, j \in 1..n : blks[i] = blks[j] => i = j
      /\ pages[b].type \in InTree /\ ~pages[b].follow
  BY DEF Divided, WriteOK
<1>3. /\ \A i \in 1..n : P[i] \subseteq N
      /\ \A d \in N : \E i \in 1..n : d \in P[i]
      /\ \A i, j \in 1..n : i # j => P[i] \cap P[j] = {}
  BY DEF Divided
<1>4. \A i \in 1..n :
        /\ new[blks[i]].type = pages[b].type /\ new[blks[i]].items = P[i]
        /\ new[blks[i]].right = IF i < n THEN blks[i + 1] ELSE pages[b].right
        /\ new[blks[i]].follow = (i < n)
  BY DEF Divided
<1>5. ASSUME NEW x \in Blocks, ~In(x) PROVE SameShape(mid[x], new[x])
  <2>1. Kept(pages[x], new[x], x = left) BY <1>5 DEF Divided
  <2>2. pages[x].follow \in BOOLEAN /\ new[x].follow \in BOOLEAN BY DEF GoodPages, Page
  <2>3. x # b BY <1>5, <1>2
  <2> QED BY <2>1, <2>2, <2>3, KeptShape
<1>6. /\ mid[b].type = pages[b].type /\ mid[b].items = N /\ ~mid[b].follow
  BY <1>2 DEF Placed
<1>7. \A i \in 2..n : mid[blks[i]].type = "new" /\ ~mid[blks[i]].follow
                      /\ LinksOn(mid[blks[i]]) = {} /\ blks[i] \in Blocks
  <2> TAKE i \in 2..n
  <2>1. i \in 1..n OBVIOUS
  <2>2. blks[i] \in Blocks /\ pages[blks[i]].type = "new" BY <2>1, <1>2
  <2>3. ~pages[blks[i]].follow BY <2>2 DEF GoodPages, GoodPage
  <2> QED BY <2>2, <2>3 DEF Placed, LinksOn
<1>8. \A x \in Blocks : mid[x].follow => mid[x].right \in Blocks /\ mid[mid[x].right].type \in InTree
  <2> TAKE x \in Blocks
  <2>1. SUFFICES ASSUME mid[x].follow
                 PROVE  mid[x].right \in Blocks /\ mid[mid[x].right].type \in InTree
    OBVIOUS
  <2>2. mid[x].right \in Blocks BY <2>1, <1>1 DEF OneWay
  <2>3. mid[x].right = pages[x].right /\ mid[mid[x].right].type = pages[pages[x].right].type
        /\ pages[x].follow
    BY <2>1, <2>2 DEF Placed
  <2> QED BY <2>2, <2>3, BlocksAssumption DEF GoodPages, GoodPage, Page
<1>9. /\ \A x, y \in Blocks : \A d \in LinksOn(mid[x]), e \in LinksOn(mid[y]) :
           d.ptr = e.ptr => x = y /\ d = e
      /\ \A x, y \in Blocks :
           mid[x].follow /\ mid[y].follow /\ mid[x].right = mid[y].right => x = y
      /\ \A x, y \in Blocks : \A d \in LinksOn(mid[x]) :
           /\ d.ptr \in Blocks /\ d.ptr # Root /\ mid[d.ptr].type \in InTree
           /\ mid[y].follow => d.ptr # mid[y].right
      /\ \A c \in Blocks : InUse(c, mid) => Linked(mid, c) \/ Awaited(mid, c)
  BY <1>1 DEF OneWay, InUse
<1> HIDE DEF mid
<1>10. In(b) /\ \A i \in 1..n : i = 1 \/ i \in 2..n BY <1>2
\* Where the downlinks and the flags come from.
<1>11. ASSUME NEW x \in Blocks, NEW d \in LinksOn(new[x])
       PROVE  \/ ~In(x) /\ d \in LinksOn(mid[x])
              \/ \E i \in 1..n : x = blks[i] /\ d \in P[i] /\ d \in LinksOn(mid[b])
  <2>1. CASE ~In(x) BY <2>1, <1>5 DEF SameShape, LinksOn
  <2>2. CASE In(x)
    <3>1. PICK i \in 1..n : blks[i] = x BY <2>2
    <3>2. pages[b].type = "inner" /\ d \in P[i] BY <3>1, <1>4 DEF LinksOn
    <3> QED BY <3>1, <3>2, <1>3, <1>6 DEF LinksOn
  <2> QED BY <2>1, <2>2
<1>12. ASSUME NEW x \in Blocks, new[x].follow
       PROVE  \/ ~In(x) /\ mid[x].follow /\ new[x].right = mid[x].right
              \/ \E i \in 1..n : i + 1 \in 2..n /\ x = blks[i] /\ new[x].right = blks[i + 1]
  <2>1. CASE ~In(x) BY <2>1, <1>5, <1>12 DEF SameShape
  <2>2. CASE In(x)
    <3>1. PICK i \in 1..n : blks[i] = x BY <2>2
    <3>2. i < n BY <3>1, <1>4, <1>12
    <3>3. i + 1 \in 2..n BY <3>2, <1>2
    <3> QED BY <3>1, <3>2, <3>3, <1>4
  <2> QED BY <2>1, <2>2
<1>13. \A x \in Blocks : mid[x].type \in InTree => new[x].type \in InTree
  <2> TAKE x \in Blocks
  <2>1. CASE ~In(x) BY <2>1, <1>5 DEF SameShape
  <2>2. CASE In(x) BY <2>2, <1>2, <1>4
  <2> QED BY <2>1, <2>2
<1>14. ASSUME NEW x \in Blocks, NEW y \in Blocks, NEW d \in LinksOn(new[x]),
              NEW e \in LinksOn(new[y]), d.ptr = e.ptr
       PROVE  x = y /\ d = e
  <2>1. CASE ~In(x) /\ ~In(y) BY <2>1, <1>9, <1>11, <1>14
  <2>2. CASE In(x) /\ In(y)
    <3>1. PICK i \in 1..n : x = blks[i] /\ d \in P[i] /\ d \in LinksOn(mid[b])
      BY <2>2, <1>11
    <3>2. PICK j \in 1..n : y = blks[j] /\ e \in P[j] /\ e \in LinksOn(mid[b])
      BY <2>2, <1>11
    <3>3. d = e BY <3>1, <3>2, <1>2, <1>9, <1>14
    <3>4. i = j BY <3>1, <3>2, <3>3, <1>3
    <3> QED BY <3>1, <3>2, <3>3, <3>4
  <2>3. CASE In(x) /\ ~In(y)
    <3>1. d \in LinksOn(mid[b]) /\ e \in LinksOn(mid[y]) BY <2>3, <1>11
    <3> QED BY <3>1, <2>3, <1>2, <1>9, <1>10, <1>14
  <2>4. CASE ~In(x) /\ In(y)
    <3>1. d \in LinksOn(mid[x]) /\ e \in LinksOn(mid[b]) BY <2>4, <1>11
    <3> QED BY <3>1, <2>4, <1>2, <1>9, <1>10, <1>14
  <2> QED BY <2>1, <2>2, <2>3, <2>4
<1>15. ASSUME NEW x \in Blocks, NEW y \in Blocks, new[x].follow, new[y].follow,
              new[x].right = new[y].right
       PROVE  x = y
  <2>1. CASE ~In(x) /\ ~In(y) BY <2>1, <1>9, <1>12, <1>15
  <2>2. CASE In(x) /\ In(y)
    <3>1. PICK i \in 1..n : i + 1 \in 2..n /\ x = blks[i] /\ new[x].right = blks[i + 1]
      BY <2>2, <1>12, <1>15
    <3>2. PICK j \in 1..n : j + 1 \in 2..n /\ y = blks[j] /\ new[y].right = blks[j + 1]
      BY <2>2, <1>12, <1>15
    <3>3. i + 1 \in 1..n /\ j + 1 \in 1..n BY <3>1, <3>2
    <3>4. i + 1 = j + 1 BY <3>1, <3>2, <3>3, <1>2, <1>15
    <3>5. i = j BY <3>4
    <3> QED BY <3>1, <3>2, <3>5
  <2>3. CASE (In(x) /\ ~In(y)) \/ (~In(x) /\ In(y))
    <3>1. \A z \in Blocks : new[z].follow /\ ~In(z) => mid[new[z].right].type \in InTree
      BY <1>8, <1>12
    <3>2. \A z \in Blocks : new[z].follow /\ In(z) => mid[new[z].right].type = "new"
      BY <1>7, <1>12
    <3> QED BY <2>3, <3>1, <3>2, <1>15
  <2> QED BY <2>1, <2>2, <2>3
<1>16. ASSUME NEW x \in Blocks, NEW y \in Blocks, NEW d \in LinksOn(new[x])
       PROVE  /\ d.ptr \in Blocks /\ InUse(d.ptr, new)
              /\ new[y].follow => d.ptr # new[y].right
  <2>1. PICK z \in Blocks : d \in LinksOn(mid[z]) BY <1>2, <1>11
  <2>2. d.ptr \in Blocks /\ d.ptr # Root /\ mid[d.ptr].type \in InTree BY <2>1, <1>9
  <2>3. InUse(d.ptr, new) BY <2>2, <1>13 DEF InUse
  <2>4. new[y].follow => d.ptr # new[y].right BY <2>1, <2>2, <1>7, <1>9, <1>12
  <2> QED BY <2>2, <2>3, <2>4
<1>17. ASSUME NEW x \in Blocks, new[x].follow PROVE new[x].right \in Blocks
  BY <1>7, <1>8, <1>12, <1>17
<1>18. ASSUME NEW c \in Blocks, InUse(c, new) PROVE Linked(new, c) \/ Awaited(new, c)
  <2>1. CASE \E i \in 2..n : blks[i] = c
    <3>1. PICK i \in 2..n : blks[i] = c BY <2>1
    <3>2. i - 1 \in 1..n /\ i - 1 < n /\ (i - 1) + 1 = i BY <3>1, <1>2
    <3>4. PICK j \in 1..n : j < n /\ j + 1 = i BY <3>2
    <3>3. new[blks[j]].follow /\ new[blks[j]].right = c /\ blks[j] \in Blocks
      BY <3>1, <3>4, <1>2, <1>4
    <3> QED BY <3>3 DEF Awaited
  <2>2. CASE ~\E i \in 2..n : blks[i] = c
    <3>1. c # Root BY <1>18 DEF InUse
    <3>2. InUse(c, mid)
      <4>1. CASE c = b BY <4>1, <3>1, <1>2, <1>6 DEF InUse
      <4>2. CASE c # b
        <5>1. ~In(c) BY <4>2, <2>2, <1>2, <1>10
        <5> QED BY <5>1, <3>1, <1>5, <1>18 DEF InUse, SameShape
      <4> QED BY <4>1, <4>2
    <3>3. CASE Linked(mid, c)
      <4>1. PICK x \in Blocks : \E d \in LinksOn(mid[x]) : d.ptr = c BY <3>3 DEF Linked
      <4>2. PICK d \in LinksOn(mid[x]) : d.ptr = c BY <4>1
      <4>3. CASE x # b
        <5>1. ~In(x) BY <4>2, <4>3, <1>2, <1>7, <1>10
        <5>2. d \in LinksOn(new[x]) BY <5>1, <4>2, <1>5 DEF SameShape, LinksOn
        <5> QED BY <5>2, <4>2 DEF Linked
      <4>4. CASE x = b
        <5>1. mid[b].type = "inner" /\ d \in N BY <4>4, <4>2, <1>6 DEF LinksOn
        <5>2. PICK i \in 1..n : d \in P[i] BY <5>1, <1>3
        <5>3. d \in LinksOn(new[blks[i]]) /\ blks[i] \in Blocks
          BY <5>1, <5>2, <1>2, <1>4, <1>6 DEF LinksOn
        <5> QED BY <5>3, <4>2 DEF Linked
      <4> QED BY <4>3, <4>4
    <3>4. CASE Awaited(mid, c)
      <4>1. PICK x \in Blocks : mid[x].follow /\ mid[x].right = c BY <3>4 DEF Awaited
      <4>2. ~In(x) BY <4>1, <1>2, <1>6, <1>7, <1>10
      <4>3. new[x].follow /\ new[x].right = c BY <4>1, <4>2, <1>5 DEF SameShape
      <4> QED BY <4>3 DEF Awaited
    <3> QED BY <3>2, <3>3, <3>4, <1>9
  <2> QED BY <2>1, <2>2
<1> QED BY <1>14, <1>15, <1>16, <1>17, <1>18 DEF OneWay

\* A split of the root leaves one way into each page: the downlinks in the new root.
LEMMA RootDividedOneWay ==
  ASSUME GoodPages(pages, lsn), OneWay(pages), NEW N, NEW left,
         WriteOK(Root, N, left), NEW new \in [Blocks -> Page], NEW P, NEW blks,
         RootDivided(new, N, left, P, blks)
  PROVE  OneWay(new)
<1> DEFINE mid == Placed(Root, N, left)
           n == Len(blks)
           In(x) == \E i \in 1..n : blks[i] = x
<1>1. OneWay(mid) BY PlacedOneWay
<1>2. /\ blks \in Seq(Blocks) /\ n \in Nat /\ n >= 2 /\ Root \in Blocks
      /\ \A i \in 1..n : blks[i] \in Blocks /\ pages[blks[i]].type = "new" /\ blks[i] # Root
      /\ \A i, j \in 1..n : blks[i] = blks[j] => i = j
  BY BlocksAssumption DEF RootDivided
<1>3. /\ \A i \in 1..n : P[i] \subseteq N
      /\ \A d \in N : \E i \in 1..n : d \in P[i]
      /\ \A i, j \in 1..n : i # j => P[i] \cap P[j] = {}
  BY DEF RootDivided
<1>4. /\ \A i \in 1..n : /\ new[blks[i]].type = pages[Root].type /\ new[blks[i]].items = P[i]
                         /\ ~new[blks[i]].follow
      /\ new[Root].type = "inner" /\ ~new[Root].follow
      /\ new[Root].items = {Downlink(blks[i], P[i]) : i \in 1..n}
  BY DEF RootDivided
<1>5. ASSUME NEW x \in Blocks, x # Root, ~In(x) PROVE SameShape(mid[x], new[x])
  <2>1. Kept(pages[x], new[x], x = left) BY <1>5 DEF RootDivided
  <2>2. pages[x].follow \in BOOLEAN /\ new[x].follow \in BOOLEAN BY DEF GoodPages, Page
  <2> QED BY <2>1, <2>2, <1>5, KeptShape
<1>6. /\ mid[Root].type = pages[Root].type /\ mid[Root].items = N /\ ~mid[Root].follow
      /\ mid[Root].type \in InTree
  BY <1>2 DEF Placed, WriteOK
<1>7. \A i \in 1..n : mid[blks[i]].type = "new" /\ ~mid[blks[i]].follow
                      /\ LinksOn(mid[blks[i]]) = {}
  <2> TAKE i \in 1..n
  <2>1. blks[i] \in Blocks /\ pages[blks[i]].type = "new" /\ blks[i] # Root BY <1>2
  <2>2. ~pages[blks[i]].follow BY <2>1 DEF GoodPages, GoodPage
  <2> QED BY <2>1, <2>2 DEF Placed, LinksOn
<1>8. \A x \in Blocks : mid[x].follow => mid[x].right \in Blocks /\ mid[mid[x].right].type \in InTree
  <2> TAKE x \in Blocks
  <2>1. SUFFICES ASSUME mid[x].follow
                 PROVE  mid[x].right \in Blocks /\ mid[mid[x].right].type \in InTree
    OBVIOUS
  <2>2. mid[x].right \in Blocks BY <2>1, <1>1 DEF OneWay
  <2>3. mid[x].right = pages[x].right /\ mid[mid[x].right].type = pages[pages[x].right].type
        /\ pages[x].follow
    BY <2>1, <2>2 DEF Placed
  <2> QED BY <2>2, <2>3, BlocksAssumption DEF GoodPages, GoodPage, Page
<1>9. /\ \A x, y \in Blocks : \A d \in LinksOn(mid[x]), e \in LinksOn(mid[y]) :
           d.ptr = e.ptr => x = y /\ d = e
      /\ \A x, y \in Blocks :
           mid[x].follow /\ mid[y].follow /\ mid[x].right = mid[y].right => x = y
      /\ \A x, y \in Blocks : \A d \in LinksOn(mid[x]) :
           /\ d.ptr \in Blocks /\ d.ptr # Root /\ mid[d.ptr].type \in InTree
           /\ mid[y].follow => d.ptr # mid[y].right
      /\ \A c \in Blocks : InUse(c, mid) => Linked(mid, c) \/ Awaited(mid, c)
  BY <1>1 DEF OneWay, InUse
<1> HIDE DEF mid
<1>19. \A i \in 1..n : Downlink(blks[i], P[i]).ptr = blks[i] BY DEF Downlink
\* Where the downlinks and the flags come from.
<1>10. ASSUME NEW x \in Blocks, NEW d \in LinksOn(new[x])
       PROVE  \/ x # Root /\ ~In(x) /\ d \in LinksOn(mid[x])
              \/ \E i \in 1..n : x = blks[i] /\ d \in P[i] /\ d \in LinksOn(mid[Root])
              \/ x = Root /\ \E i \in 1..n : d = Downlink(blks[i], P[i])
  <2>1. CASE x # Root /\ ~In(x) BY <2>1, <1>5 DEF SameShape, LinksOn
  <2>2. CASE x = Root BY <2>2, <1>4 DEF LinksOn
  <2>3. CASE In(x)
    <3>1. PICK i \in 1..n : blks[i] = x BY <2>3
    <3>2. pages[Root].type = "inner" /\ d \in P[i] BY <3>1, <1>4 DEF LinksOn
    <3> QED BY <3>1, <3>2, <1>3, <1>6 DEF LinksOn
  <2> QED BY <2>1, <2>2, <2>3
<1>11. ASSUME NEW x \in Blocks, new[x].follow
       PROVE  x # Root /\ ~In(x) /\ mid[x].follow /\ new[x].right = mid[x].right
  <2>1. x # Root /\ ~In(x) BY <1>4, <1>11
  <2> QED BY <2>1, <1>5, <1>11 DEF SameShape
<1>13. \A x \in Blocks : mid[x].type \in InTree => new[x].type \in InTree
  <2> TAKE x \in Blocks
  <2>1. CASE x # Root /\ ~In(x) BY <2>1, <1>5 DEF SameShape
  <2>2. CASE x = Root \/ In(x) BY <2>2, <1>4, <1>6
  <2> QED BY <2>1, <2>2
<1>20. \A i \in 1..n : \A x \in Blocks : \A d \in LinksOn(mid[x]) : d.ptr # blks[i]
  BY <1>7, <1>9
<1>14. ASSUME NEW x \in Blocks, NEW y \in Blocks, NEW d \in LinksOn(new[x]),
              NEW e \in LinksOn(new[y]), d.ptr = e.ptr
       PROVE  x = y /\ d = e
  <2>1. CASE x = Root /\ y = Root
    <3>1. PICK i \in 1..n : d = Downlink(blks[i], P[i]) BY <2>1, <1>2, <1>10
    <3>2. PICK j \in 1..n : e = Downlink(blks[j], P[j]) BY <2>1, <1>2, <1>10
    <3>3. i = j BY <3>1, <3>2, <1>2, <1>14, <1>19
    <3> QED BY <3>1, <3>2, <3>3, <2>1
  <2>2. \A z \in Blocks : \A f \in LinksOn(new[z]) :
          IF z = Root THEN \E i \in 1..n : f.ptr = blks[i]
          ELSE \E w \in Blocks : f \in LinksOn(mid[w])
    <3> TAKE z \in Blocks
    <3> TAKE f \in LinksOn(new[z])
    <3>1. CASE z = Root BY <3>1, <1>2, <1>10, <1>19
    <3>2. CASE z # Root BY <3>2, <1>2, <1>10
    <3> QED BY <3>1, <3>2
  <2>3. CASE (x = Root /\ y # Root) \/ (x # Root /\ y = Root) BY <2>2, <2>3, <1>14, <1>20
  <2>4. CASE x # Root /\ y # Root
    <3>1. CASE ~In(x) /\ ~In(y) BY <3>1, <2>4, <1>9, <1>10, <1>14
    <3>2. CASE In(x) /\ In(y)
      <4>1. PICK i \in 1..n : x = blks[i] /\ d \in P[i] /\ d \in LinksOn(mid[Root])
        BY <3>2, <2>4, <1>10
      <4>2. PICK j \in 1..n : y = blks[j] /\ e \in P[j] /\ e \in LinksOn(mid[Root])
        BY <3>2, <2>4, <1>10
      <4>3. d = e BY <4>1, <4>2, <1>2, <1>9, <1>14
      <4>4. i = j BY <4>1, <4>2, <4>3, <1>3
      <4> QED BY <4>1, <4>2, <4>3, <4>4
    <3>3. CASE In(x) /\ ~In(y)
      <4>1. d \in LinksOn(mid[Root]) /\ e \in LinksOn(mid[y]) BY <3>3, <2>4, <1>10
      <4> QED BY <4>1, <2>4, <1>2, <1>9, <1>14
    <3>4. CASE ~In(x) /\ In(y)
      <4>1. d \in LinksOn(mid[x]) /\ e \in LinksOn(mid[Root]) BY <3>4, <2>4, <1>10
      <4> QED BY <4>1, <2>4, <1>2, <1>9, <1>14
    <3> QED BY <3>1, <3>2, <3>3, <3>4
  <2> QED BY <2>1, <2>3, <2>4
<1>15. ASSUME NEW x \in Blocks, NEW y \in Blocks, new[x].follow, new[y].follow,
              new[x].right = new[y].right
       PROVE  x = y
  BY <1>9, <1>11, <1>15
<1>16. ASSUME NEW x \in Blocks, NEW y \in Blocks, NEW d \in LinksOn(new[x])
       PROVE  /\ d.ptr \in Blocks /\ InUse(d.ptr, new)
              /\ new[y].follow => d.ptr # new[y].right
  <2>1. CASE \E i \in 1..n : d = Downlink(blks[i], P[i])
    <3>1. PICK i \in 1..n : d.ptr = blks[i] BY <2>1, <1>19
    <3>2. InUse(blks[i], new) /\ blks[i] \in Blocks BY <1>2, <1>4, <1>6 DEF InUse
    <3>3. new[y].follow => blks[i] # new[y].right BY <1>7, <1>8, <1>11
    <3> QED BY <3>1, <3>2, <3>3
  <2>2. CASE ~\E i \in 1..n : d = Downlink(blks[i], P[i])
    <3>1. PICK z \in Blocks : d \in LinksOn(mid[z]) BY <2>2, <1>2, <1>10
    <3>2. d.ptr \in Blocks /\ d.ptr # Root /\ mid[d.ptr].type \in InTree BY <3>1, <1>9
    <3>3. InUse(d.ptr, new) BY <3>2, <1>13 DEF InUse
    <3>4. new[y].follow => d.ptr # new[y].right BY <3>1, <1>9, <1>11
    <3> QED BY <3>2, <3>3, <3>4
  <2> QED BY <2>1, <2>2
<1>17. ASSUME NEW x \in Blocks, new[x].follow PROVE new[x].right \in Blocks
  BY <1>8, <1>11, <1>17
<1>18. ASSUME NEW c \in Blocks, InUse(c, new) PROVE Linked(new, c) \/ Awaited(new, c)
  <2>1. CASE In(c)
    <3>1. PICK i \in 1..n : c = blks[i] BY <2>1
    <3>2. Downlink(blks[i], P[i]) \in LinksOn(new[Root]) BY <1>4 DEF LinksOn
    <3> QED BY <3>1, <3>2, <1>2, <1>19 DEF Linked
  <2>2. CASE ~In(c)
    <3>1. c # Root BY <1>18 DEF InUse
    <3>2. InUse(c, mid) BY <3>1, <2>2, <1>5, <1>18 DEF InUse, SameShape
    <3>3. CASE Linked(mid, c)
      <4>1. PICK x \in Blocks : \E d \in LinksOn(mid[x]) : d.ptr = c BY <3>3 DEF Linked
      <4>2. PICK d \in LinksOn(mid[x]) : d.ptr = c BY <4>1
      <4>3. CASE x # Root
        <5>1. ~In(x) BY <4>2, <1>7
        <5>2. d \in LinksOn(new[x]) BY <5>1, <4>2, <4>3, <1>5 DEF SameShape, LinksOn
        <5> QED BY <5>2, <4>2 DEF Linked
      <4>4. CASE x = Root
        <5>1. mid[Root].type = "inner" /\ d \in N BY <4>4, <4>2, <1>6 DEF LinksOn
        <5>2. PICK i \in 1..n : d \in P[i] BY <5>1, <1>3
        <5>3. d \in LinksOn(new[blks[i]]) /\ blks[i] \in Blocks
          BY <5>1, <5>2, <1>2, <1>4, <1>6 DEF LinksOn
        <5> QED BY <5>3, <4>2 DEF Linked
      <4> QED BY <4>3, <4>4
    <3>4. CASE Awaited(mid, c)
      <4>1. PICK x \in Blocks : mid[x].follow /\ mid[x].right = c BY <3>4 DEF Awaited
      <4>2. x # Root /\ ~In(x) BY <4>1, <1>6, <1>7
      <4>3. new[x].follow /\ new[x].right = c BY <4>1, <4>2, <1>5 DEF SameShape
      <4> QED BY <4>3 DEF Awaited
    <3> QED BY <3>2, <3>3, <3>4, <1>9
  <2> QED BY <2>1, <2>2
<1> QED BY <1>14, <1>15, <1>16, <1>17, <1>18 DEF OneWay
-----------------------------------------------------------------------------
(***************************************************************************)
(* One write, whatever its kind.                                           *)
(***************************************************************************)
Writes(new, b, N, left) ==
  \/ Fitted(new, b, N, left)
  \/ b # Root /\ \E P \in Partitions(b, N), blks \in Seq(Blocks) : Divided(new, b, N, left, P, blks)
  \/ b = Root /\ \E P \in Partitions(b, N), blks \in Seq(Blocks) : RootDivided(new, N, left, P, blks)

\* What a write leaves alone.
LEMMA WriteFacts ==
  ASSUME GoodPages(pages, lsn), NEW b, NEW N, NEW left, WriteOK(b, N, left),
         NEW new, Writes(new, b, N, left)
  PROVE  /\ \A x \in Blocks : pages[x].type # "new" /\ x # left /\ x # Root => new[x].nsn = pages[x].nsn
         /\ \A x \in Blocks : new[x].lsn = lsn + 1 \/ (new[x] = pages[x] /\ x # b /\ x # left)
         /\ \A x \in Blocks : pages[x].type # "new" /\ x # b /\ x # left => new[x] = pages[x]
         /\ left # NoBlock => /\ new[left].type = pages[left].type
                              /\ new[left].items = pages[left].items
                              /\ new[left].right = pages[left].right
                              /\ ~new[left].follow /\ new[left].nsn = lsn + 1
         /\ b # Root => new[b].type = pages[b].type
         /\ b \in Blocks /\ left \in Blocks \cup {NoBlock} /\ left # b /\ left # Root
         /\ left # NoBlock => pages[left].type # "new" /\ pages[b].type = "inner"
<1>1. /\ b \in Blocks /\ left \in (Blocks \ {Root}) \cup {NoBlock} /\ left # b /\ NoBlock \notin Blocks
      /\ Root \in Blocks /\ left # Root
      /\ left # NoBlock => pages[left].type # "new" /\ pages[b].type = "inner"
  <2>1. left # NoBlock => left \in Blocks /\ pages[left].follow BY DEF WriteOK
  <2>2. \A x \in Blocks : pages[x].follow => pages[x].type \in InTree
    BY DEF GoodPages, GoodPage, Page
  <2> QED BY <2>1, <2>2, BlocksAssumption DEF WriteOK
<1>2. CASE Fitted(new, b, N, left) BY <1>1, <1>2 DEF Fitted, Kept
<1>3. CASE b # Root /\ \E P \in Partitions(b, N), blks \in Seq(Blocks) :
                          Divided(new, b, N, left, P, blks)
  <2>1. PICK P \in Partitions(b, N), blks \in Seq(Blocks) : Divided(new, b, N, left, P, blks)
    BY <1>3
  <2>2. /\ \A i \in 1..Len(blks) :
             /\ new[blks[i]].nsn = pages[b].nsn /\ new[blks[i]].lsn = lsn + 1
             /\ blks[i] = b \/ pages[blks[i]].type = "new"
        /\ \A x \in Blocks : (\A i \in 1..Len(blks) : blks[i] # x) => Kept(pages[x], new[x], x = left)
        /\ 1 \in 1..Len(blks) /\ blks[1] = b /\ new[blks[1]].type = pages[b].type
    <3>1. \A i \in 1..Len(blks) : i = 1 \/ i \in 2..Len(blks) OBVIOUS
    <3> QED BY <2>1, <3>1 DEF Divided
  <2>3. left # NoBlock => \A i \in 1..Len(blks) : blks[i] # left BY <2>2, <1>1
  <2>4. left # NoBlock => Kept(pages[left], new[left], TRUE) BY <2>2, <2>3, <1>1
  <2> QED BY <1>1, <1>3, <2>2, <2>4 DEF Kept
<1>4. CASE b = Root /\ \E P \in Partitions(b, N), blks \in Seq(Blocks) :
                          RootDivided(new, N, left, P, blks)
  <2>1. PICK P \in Partitions(b, N), blks \in Seq(Blocks) : RootDivided(new, N, left, P, blks)
    BY <1>4
  <2>2. /\ \A i \in 1..Len(blks) :
             new[blks[i]].lsn = lsn + 1 /\ pages[blks[i]].type = "new"
        /\ \A x \in Blocks \ {Root} : (\A i \in 1..Len(blks) : blks[i] # x) => Kept(pages[x], new[x], x = left)
        /\ new[Root].lsn = lsn + 1
    BY <2>1 DEF RootDivided
  <2>3. left # NoBlock => \A i \in 1..Len(blks) : blks[i] # left BY <2>2, <1>1
  <2>4. left # NoBlock => Kept(pages[left], new[left], TRUE) BY <2>2, <2>3, <1>1
  <2> QED BY <1>1, <1>4, <2>2, <2>4 DEF Kept
<1> QED BY <1>2, <1>3, <1>4 DEF Writes

\* A write keeps the tree one-way-in, and who reads a parent now knows as much as
\* the NSN of a child.
LEMMA WriteOneWay ==
  ASSUME GoodPages(pages, lsn), OneWay(pages), FreshLinks(pages), NEW b, NEW N, NEW left,
         WriteOK(b, N, left), NEW new, GoodPages(new, lsn + 1), Writes(new, b, N, left)
  PROVE  OneWay(new) /\ FreshLinks(new)
<1>1. new \in [Blocks -> Page] BY DEF GoodPages
<1>2. OneWay(new)
  BY <1>1, FittedOneWay, DividedOneWay, RootDividedOneWay DEF Writes
<1>3. ASSUME NEW x \in Blocks, NEW d \in LinksOn(new[x]) PROVE new[d.ptr].nsn <= new[x].lsn
  <2>1. d.ptr \in Blocks /\ d.ptr # Root BY <1>2 DEF OneWay, InUse
  <2>2. CASE new[x].lsn = lsn + 1
    <3>1. /\ new[d.ptr].nsn <= new[d.ptr].lsn /\ new[d.ptr].lsn <= lsn + 1
          /\ new[d.ptr].nsn \in Nat /\ new[d.ptr].lsn \in Nat /\ lsn \in Nat
      BY <2>1 DEF GoodPages, GoodPage, Page
    <3> QED BY <3>1, <2>2
  <2>3. CASE new[x] = pages[x] /\ x # b /\ x # left
    <3>1. d \in LinksOn(pages[x]) BY <2>3
    <3>2. pages[d.ptr].nsn <= pages[x].lsn /\ InUse(d.ptr, pages)
      BY <3>1 DEF FreshLinks, OneWay
    <3>3. d.ptr # left BY <3>1, <2>3 DEF WriteOK
    <3>4. new[d.ptr].nsn = pages[d.ptr].nsn BY <2>1, <3>2, <3>3, WriteFacts DEF InUse
    <3> QED BY <2>3, <3>2, <3>4
  <2> QED BY <2>2, <2>3, WriteFacts
<1> QED BY <1>2, <1>3 DEF FreshLinks

\* With a left child the write finishes a split.
LEMMA WriteLinks ==
  ASSUME GoodPages(pages, lsn), NEW b, NEW N, NEW left, WriteOK(b, N, left), left # NoBlock,
         NEW new, Writes(new, b, N, left)
  PROVE  Linked(new, pages[left].right)
<1> DEFINE r == pages[left].right
<1>1. pages[b].type = "inner" /\ b \in Blocks /\ \E d \in N : d.ptr = r
  BY DEF WriteOK
<1>2. PICK d \in N : d.ptr = r BY <1>1
<1>3. CASE Fitted(new, b, N, left) BY <1>1, <1>2, <1>3 DEF Fitted, Linked, LinksOn
<1>4. CASE b # Root /\ \E P \in Partitions(b, N), blks \in Seq(Blocks) :
                          Divided(new, b, N, left, P, blks)
  <2>1. PICK P \in Partitions(b, N), blks \in Seq(Blocks) : Divided(new, b, N, left, P, blks)
    BY <1>4
  <2>2. PICK i \in 1..Len(blks) : d \in P[i] BY <2>1, <1>2 DEF Divided
  <2>3. blks[i] \in Blocks /\ new[blks[i]].type = "inner" /\ new[blks[i]].items = P[i]
    BY <2>1, <1>1 DEF Divided
  <2> QED BY <2>2, <2>3, <1>2 DEF Linked, LinksOn
<1>5. CASE b = Root /\ \E P \in Partitions(b, N), blks \in Seq(Blocks) :
                          RootDivided(new, N, left, P, blks)
  <2>1. PICK P \in Partitions(b, N), blks \in Seq(Blocks) : RootDivided(new, N, left, P, blks)
    BY <1>5
  <2>2. PICK i \in 1..Len(blks) : d \in P[i] BY <2>1, <1>2 DEF RootDivided
  <2>3. blks[i] \in Blocks /\ new[blks[i]].type = "inner" /\ new[blks[i]].items = P[i]
    BY <2>1, <1>1, <1>5 DEF RootDivided
  <2> QED BY <2>2, <2>3, <1>2 DEF Linked, LinksOn
<1> QED BY <1>3, <1>4, <1>5 DEF Writes
-----------------------------------------------------------------------------
(***************************************************************************)
(* What all steps of a backend have in common.                             *)
(***************************************************************************)
\* What a leaf gets is the entry some backend is inserting.
Adds(b, N) ==
  pages[b].type = "leaf" => \A t \in N \ pages[b].items :
    \E q \in Inserters : pc[q] # "idle" /\ t.ptr = EntriesOf[row[q]][pos[q]]

\* Whoever gives the right sibling of the child left its downlink finishes a split,
\* and has that page locked.
Finishes(left) ==
  left # NoBlock =>
    \E q \in Inserters : pc[q] = "finish" /\ xlock[pages[left].right] = q

\* The index file stays as it is, or one write is logged.
OneWrite ==
  \/ UNCHANGED pages
  \/ \E b, N, left : /\ WriteOK(b, N, left) /\ Adds(b, N) /\ Finishes(left)
                     /\ Writes(pages', b, N, left) /\ lsn' = lsn + 1

\* A backend leaves alone what others have locked, and locks pages in use, for itself.
Respects(p) ==
  /\ \A x \in Blocks : xlock[x] \notin {p, NoProc} => xlock'[x] = xlock[x]
  /\ \A x \in Blocks : xlock'[x] \in {xlock[x], NoProc, p}
  /\ \A x \in Blocks : xlock'[x] \in {xlock[x], NoProc} \/ pages'[x].type # "new"
Spares(p) == \A x \in Blocks : xlock[x] \notin {p, NoProc} => pages'[x] = pages[x]

\* What FinishAtomic says of one step.
SplitAtomic ==
  \A b \in Blocks : pages[b].follow /\ ~pages'[b].follow =>
    LET r == pages[b].right IN
    /\ ~Linked(pages, r) /\ Linked(pages', r)
    /\ pages'[b].right = r /\ pages'[b].nsn = lsn'

\* What somebody else than a backend that inserts has locked, the vacuum of
\* MGistVacuum, stays as it is.
HandsOff ==
  \A x \in Blocks :
    /\ xlock'[x] = xlock[x] \/ xlock'[x] \in Inserters \cup {NoProc}
    /\ xlock[x] \notin Inserters \cup {NoProc} => xlock'[x] = xlock[x] /\ pages'[x] = pages[x]
Logged == SplitAtomic /\ OneWrite /\ (Crash \/ HandsOff)

\* A write spares a page that is in use and neither the place nor the left child.
LEMMA WriteSpares ==
  ASSUME GoodPages(pages, lsn), Held(xlock, pages), NEW p, NEW b, NEW N, NEW left,
         WriteOK(b, N, left), Writes(pages', b, N, left),
         xlock[b] \in {p, NoProc}, left # NoBlock => xlock[left] \in {p, NoProc}
  PROVE  Spares(p)
<1>1. ASSUME NEW x \in Blocks, xlock[x] \notin {p, NoProc} PROVE pages'[x] = pages[x]
  <2>1. pages[x].type # "new" BY <1>1 DEF Held
  <2>2. x # b /\ x # left BY <1>1, BlocksAssumption
  <2> QED BY <2>1, <2>2, WriteFacts
<1> QED BY <1>1 DEF Spares

\* Pages do not go out of use.
LEMMA UsedLater ==
  ASSUME IInv, Grown, NEW st \in Seq(Frame), UsedFrames(st, pages)
  PROVE  UsedFrames(st, pages')
<1>1. \A b \in Blocks : /\ pages[b].type # "new" => pages'[b].type # "new"
                        /\ pages[b].type = "inner" => pages'[b].type = "inner"
  BY GrownFacts DEF IInv, SameKinds
<1>2. \A i \in 1..Len(st) : st[i].blk \in Blocks
  <2> TAKE i \in 1..Len(st)
  <2>1. st[i] \in Frame OBVIOUS
  <2> QED BY <2>1 DEF Frame
<1>3. \A i \in 1..Len(st) - 1 : i \in 1..Len(st) OBVIOUS
<1> QED BY <1>1, <1>2, <1>3 DEF UsedFrames

\* The components of a call of mgistfinishsplit.
LEMMA HalfBlocks ==
  ASSUME NEW f \in Call
  PROVE  /\ Len(f.halves) \in Nat /\ f.up \in Nat /\ f.halves \in Seq(Half)
         /\ \A i \in 1..Len(f.halves) : f.halves[i].blk \in Blocks
<1>1. f.halves \in Seq(Half) /\ f.up \in Nat BY CallType
<1>2. \A i \in 1..Len(f.halves) : f.halves[i] \in Half BY <1>1
<1> QED BY <1>1, <1>2 DEF Half

\* What a call relies on is there.
LEMMA CallBlocks ==
  ASSUME IInv, NEW q \in Inserters, NEW k \in 1..Len(fin[q])
  PROVE  /\ fin[q][k] \in Call /\ stack[q] \in Seq(Frame) /\ Len(stack[q]) \in Nat
         /\ fin[q][k].up \in Nat /\ Len(fin[q][k].halves) \in Nat /\ Len(fin[q][k].halves) >= 1
         /\ fin[q][k].halves \in Seq(Half)
         /\ \A i \in 1..Len(fin[q][k].halves) : fin[q][k].halves[i].blk \in Blocks
         /\ Len(stack[q]) - fin[q][k].up - 1 \in 1..Len(stack[q])
         /\ Len(stack[q]) - fin[q][k].up \in 1..Len(stack[q])
         /\ ParentOf(fin[q][k], stack[q]) \in Blocks
<1>1. /\ fin[q] \in Seq(Call) /\ stack[q] \in Seq(Frame)
      /\ GoodCalls(fin[q], Len(stack[q]), IF pc[q] = "fixchain" THEN 1 ELSE 2, pages)
  BY DEF IInv, TypeOK, ProcOK
<1>2. /\ fin[q][k] \in Call
      /\ GoodCall(fin[q][k], Len(stack[q]), IF pc[q] = "fixchain" THEN 1 ELSE 2, pages)
  BY <1>1 DEF GoodCalls
<1>3. /\ Len(fin[q][k].halves) \in Nat /\ fin[q][k].up \in Nat /\ fin[q][k].halves \in Seq(Half)
      /\ \A i \in 1..Len(fin[q][k].halves) : fin[q][k].halves[i].blk \in Blocks
  BY <1>2, HalfBlocks
<1>4. Len(fin[q][k].halves) >= 1 /\ fin[q][k].up + 2 <= Len(stack[q]) /\ Len(stack[q]) \in Nat
  BY <1>1, <1>2, <1>3 DEF GoodCall
<1>5. /\ Len(stack[q]) - fin[q][k].up - 1 \in 1..Len(stack[q])
      /\ Len(stack[q]) - fin[q][k].up \in 1..Len(stack[q])
  <2>1. \A u, d \in Nat : u + 2 <= d => d - u - 1 \in 1..d /\ d - u \in 1..d OBVIOUS
  <2>2. fin[q][k].up \in Nat /\ Len(stack[q]) \in Nat BY <1>3, <1>4
  <2> QED BY <2>1, <2>2, <1>4
<1>6. stack[q][Len(stack[q]) - fin[q][k].up - 1] \in Frame BY <1>1, <1>5
<1> QED BY <1>1, <1>2, <1>3, <1>4, <1>5, <1>6 DEF ParentOf, Frame

\* Other backends notice nothing of a step of p.
LEMMA OthersStruct ==
  ASSUME IInv, StructInv, NEW p \in Inserters, Grown, OthersSame(p), Respects(p), Spares(p),
         NEW q \in Inserters, q # p
  PROVE  ProcStruct(q)'
<1>1. /\ pc'[q] = pc[q] /\ stack'[q] = stack[q] /\ fin'[q] = fin[q] /\ bfs'[q] = bfs[q]
  BY DEF OthersSame
<1>2. stack[q] \in Seq(Frame) /\ \A w \in bfs[q] : w \in Seq(Frame)
  BY DEF IInv, TypeOK
<1>3. ProcStruct(q) BY DEF StructInv
<1>4. UsedFrames(stack[q], pages') /\ \A w \in bfs[q] : UsedFrames(w, pages')
  BY <1>2, <1>3, UsedLater DEF ProcStruct
<1>5. \A x \in Blocks : xlock[x] = q => xlock'[x] = q /\ pages'[x] = pages[x]
  BY ProcAssumption DEF Respects, Spares
<1>6. ASSUME NEW k \in 1..Len(fin[q])
      PROVE  /\ HalvesChained(fin[q][k], pc[q] = "fixchain", pages')
             /\ CallLocks(fin[q][k], q, stack[q], xlock')
  <2> DEFINE f == fin[q][k]
  <2>1. /\ \A i \in 1..Len(f.halves) : f.halves[i].blk \in Blocks
        /\ Len(f.halves) \in Nat /\ Len(f.halves) >= 1
        /\ ParentOf(f, stack[q]) \in Blocks
    BY CallBlocks
  <2>2. HalvesChained(f, pc[q] = "fixchain", pages) /\ CallLocks(f, q, stack[q], xlock)
    BY <1>3 DEF ProcStruct, SplitsOK
  <2> HIDE DEF f
  <2>3. \A i \in 1..Len(f.halves) : pages'[f.halves[i].blk] = pages[f.halves[i].blk]
                                    /\ xlock'[f.halves[i].blk] = q
    BY <2>1, <2>2, <1>5 DEF CallLocks
  <2>4. HalvesChained(f, pc[q] = "fixchain", pages')
    <3>1. Len(f.halves) \in 1..Len(f.halves) /\ \A i \in 1..Len(f.halves) - 1 : i \in 1..Len(f.halves)
      BY <2>1
    <3> QED BY <3>1, <2>2, <2>3 DEF HalvesChained
  <2>5. CallLocks(f, q, stack[q], xlock') BY <2>1, <2>2, <2>3, <1>5 DEF CallLocks
  <2> QED BY <2>4, <2>5 DEF f
<1>7. SplitsOK(q, fin[q], pc[q] = "fixchain", stack[q], pages', xlock')
  BY <1>3, <1>6 DEF ProcStruct, SplitsOK
<1>8. Unmoved(pc[q], stack[q], pages')
  <2> SUFFICES ASSUME pc[q] = "lockinner" PROVE Unmoved(pc[q], stack[q], pages')
    BY DEF Unmoved
  <2> DEFINE f == stack[q][Len(stack[q])]
  <2>1. f \in Frame
    <3>1. Top(q) \in Frame BY TopFacts
    <3> QED BY <3>1 DEF Top, Depth
  <2>2. /\ f.blk \in Blocks /\ f.lsn \in Nat /\ f.lsn <= pages[f.blk].lsn
        /\ f.lsn = pages[f.blk].lsn => ~pages[f.blk].follow
    BY <2>1, <1>3 DEF ProcStruct, Unmoved, Frame
  <2> HIDE DEF f
  <2>3. pages[f.blk].lsn \in Nat /\ pages[f.blk].lsn <= lsn /\ lsn \in Nat
    BY <2>2 DEF IInv, GoodPages, Page
  <2>4. pages'[f.blk] = pages[f.blk] \/ (pages'[f.blk].lsn = lsn' /\ lsn < lsn' /\ lsn' \in Nat)
    BY <2>2, <2>3 DEF Grown, Written
  <2>5. f.lsn <= pages'[f.blk].lsn /\ (f.lsn = pages'[f.blk].lsn => ~pages'[f.blk].follow)
    BY <2>2, <2>3, <2>4
  <2> QED BY <2>5 DEF Unmoved, f
<1> QED BY <1>1, <1>3, <1>4, <1>7, <1>8 DEF ProcStruct

\* A step of p keeps the invariant if it does so for p.
LEMMA StructStep ==
  ASSUME IInv, StructInv, IInv', Grown, NEW p \in Inserters, OthersSame(p), Respects(p), Spares(p),
         OneWrite, ProcStruct(p)'
  PROVE  StructInv' /\ Logged
<1>1. GoodPages(pages, lsn) /\ GoodPages(pages', lsn') BY DEF IInv
<1>2. OneWay(pages) /\ FreshLinks(pages) BY DEF StructInv
<1>3. OneWay(pages') /\ FreshLinks(pages')
  <2>1. CASE UNCHANGED pages BY <2>1, <1>2
  <2>2. ASSUME NEW b, NEW N, NEW left, WriteOK(b, N, left), Writes(pages', b, N, left),
               lsn' = lsn + 1
        PROVE  OneWay(pages') /\ FreshLinks(pages')
    BY <2>2, <1>1, <1>2, WriteOneWay
  <2> QED BY <2>1, <2>2 DEF OneWrite
<1>4. Held(xlock', pages')
  <2>1. ASSUME NEW x \in Blocks, xlock'[x] # NoProc PROVE pages'[x].type # "new"
    <3>1. CASE xlock'[x] = xlock[x]
      <4>1. pages[x].type # "new" BY <2>1, <3>1 DEF StructInv, Held
      <4> QED BY <4>1, <1>1, GrownFacts
    <3>2. CASE xlock'[x] # xlock[x] BY <3>2, <2>1 DEF Respects
    <3> QED BY <3>1, <3>2
  <2> QED BY <2>1 DEF Held
<1>5. \A q \in Inserters : ProcStruct(q)' BY OthersStruct
<1>6. SplitAtomic
  <2>1. CASE UNCHANGED pages BY <2>1 DEF SplitAtomic
  <2>2. ASSUME NEW b, NEW N, NEW left, WriteOK(b, N, left), Writes(pages', b, N, left),
               lsn' = lsn + 1
        PROVE  SplitAtomic
    <3> SUFFICES ASSUME NEW x \in Blocks, pages[x].follow, ~pages'[x].follow
                 PROVE  /\ ~Linked(pages, pages[x].right) /\ Linked(pages', pages[x].right)
                        /\ pages'[x].right = pages[x].right /\ pages'[x].nsn = lsn'
      BY DEF SplitAtomic
    <3>1. pages[x].type # "new" BY <1>1 DEF GoodPages, GoodPage
    <3>2. x # b BY <2>2 DEF WriteOK
    <3>3. x = left /\ left # NoBlock BY <3>1, <3>2, <2>2, <1>1, WriteFacts, BlocksAssumption
    <3>4. pages'[x].right = pages[x].right /\ pages'[x].nsn = lsn'
      BY <3>3, <2>2, <1>1, WriteFacts
    <3>5. Linked(pages', pages[x].right) BY <3>3, <2>2, <1>1, WriteLinks
    <3>6. ~Linked(pages, pages[x].right) BY <1>2 DEF OneWay, Linked
    <3> QED BY <3>4, <3>5, <3>6
  <2> QED BY <2>1, <2>2 DEF OneWrite
<1>7. HandsOff BY DEF HandsOff, Respects, Spares
<1> QED BY <1>3, <1>4, <1>5, <1>6, <1>7 DEF StructInv, Logged
-----------------------------------------------------------------------------
(***************************************************************************)
(* Steps of a backend that has no split to finish.                         *)
(***************************************************************************)
\* Where there is no call of mgistfinishsplit there is nothing to ask of one.
LEMMA NoSplits ==
  ASSUME NEW p, NEW b, NEW st, NEW pgs, NEW xl PROVE SplitsOK(p, <<>>, b, st, pgs, xl)
BY DEF SplitsOK

\* The stack holds pages in use, whatever the descent does with it.
LEMMA StacksUsed ==
  ASSUME IInv, StructInv, NEW p \in Inserters, pc[p] # "idle"
  PROVE  /\ UsedFrames(stack[p], pages)
         /\ UsedFrames(SeenStack(p), pages)
         /\ \A c \in Blocks : pages[c].type # "new" /\ TopPage(p).type = "inner" =>
              UsedFrames(Append(SeenStack(p), NewFrame(c)), pages)
         /\ Depth(p) >= 2 => UsedFrames(SubSeq(stack[p], 1, Depth(p) - 1), pages)
         /\ TopPage(p).type # "new"
<1>1. UsedFrames(stack[p], pages) BY DEF StructInv, ProcStruct
<1>2. stack[p] \in Seq(Frame) /\ Depth(p) \in Nat /\ Depth(p) >= 1 /\ Top(p) \in Frame BY TopFacts
<1>3. Depth(p) \in 1..Depth(p) BY <1>2
<1>4. TopPage(p).type # "new" BY <1>1, <1>3 DEF UsedFrames, Depth, TopPage, Top
<1>5. SeenStack(p) \in Seq(Frame) /\ Len(SeenStack(p)) = Depth(p) BY SeenFacts
<1>6. \A i \in 1..Depth(p) : SeenStack(p)[i].blk = stack[p][i].blk
  <2> TAKE i \in 1..Depth(p)
  <2>1. SeenStack(p)[i] = IF i = Depth(p) THEN [Top(p) EXCEPT !.lsn = TopPage(p).lsn]
                          ELSE stack[p][i]
    BY <1>2 DEF SeenStack, Top, Depth
  <2> QED BY <2>1, <1>2 DEF Frame, Top
<1>7. UsedFrames(SeenStack(p), pages) BY <1>1, <1>5, <1>6 DEF UsedFrames, Depth
<1>8. ASSUME NEW c \in Blocks, pages[c].type # "new", TopPage(p).type = "inner"
      PROVE  UsedFrames(Append(SeenStack(p), NewFrame(c)), pages)
  <2> DEFINE st == Append(SeenStack(p), NewFrame(c))
  <2>1. NewFrame(c) \in Frame /\ NewFrame(c).blk = c BY NewFrameType
  <2>2. /\ Len(st) = Depth(p) + 1 /\ \A i \in 1..Depth(p) : st[i] = SeenStack(p)[i]
        /\ st[Depth(p) + 1] = NewFrame(c)
    BY <2>1, <1>5, AppendProperties
  <2> HIDE DEF st
  <2>3. UsedFrames(st, pages)
    <3>1. ASSUME NEW i \in 1..Len(st) PROVE pages[st[i].blk].type # "new"
      <4>1. CASE i = Depth(p) + 1 BY <4>1, <2>1, <2>2, <1>8
      <4>2. CASE i \in 1..Depth(p) BY <4>2, <2>2, <1>7, <1>5 DEF UsedFrames
      <4> QED BY <4>1, <4>2, <2>2, <1>2
    <3>2. ASSUME NEW i \in 1..Len(st) - 1 PROVE pages[st[i].blk].type = "inner"
      <4>1. i \in 1..Depth(p) /\ st[i] = SeenStack(p)[i] BY <2>2, <1>2
      <4>2. CASE i = Depth(p) BY <4>1, <4>2, <1>6, <1>8 DEF TopPage, Top
      <4>3. CASE i # Depth(p)
        <5>1. i \in 1..Len(SeenStack(p)) - 1 BY <4>1, <4>3, <1>5, <1>2
        <5> QED BY <5>1, <4>1, <1>7 DEF UsedFrames
      <4> QED BY <4>2, <4>3
    <3> QED BY <3>1, <3>2 DEF UsedFrames
  <2> QED BY <2>3 DEF st
<1>9. ASSUME Depth(p) >= 2 PROVE UsedFrames(SubSeq(stack[p], 1, Depth(p) - 1), pages)
  <2> DEFINE st == SubSeq(stack[p], 1, Depth(p) - 1)
  <2>1. Len(st) = Depth(p) - 1 /\ \A i \in 1..Len(st) : st[i] = stack[p][i]
    BY <1>2, <1>9, SubSeqProperties DEF Depth
  <2> HIDE DEF st
  <2>2. /\ \A i \in 1..Len(st) : i \in 1..Len(stack[p])
        /\ \A i \in 1..Len(st) - 1 : i \in 1..Len(stack[p]) - 1 /\ i \in 1..Len(st)
    BY <2>1, <1>2 DEF Depth
  <2>3. UsedFrames(st, pages) BY <2>1, <2>2, <1>1 DEF UsedFrames
  <2> QED BY <2>3 DEF st
<1> QED BY <1>1, <1>4, <1>7, <1>8, <1>9

\* So do a stack with the root only, and no stack.
LEMMA RootUsed ==
  ASSUME NEW pgs, NEW l, GoodPages(pgs, l)
  PROVE  UsedFrames(<<NewFrame(Root)>>, pgs) /\ UsedFrames(<<>>, pgs)
<1>1. NewFrame(Root).blk = Root BY NewFrameType, BlocksAssumption
<1> QED BY <1>1 DEF UsedFrames, GoodPages

\* Which changes of the locks are legal.
LEMMA KeepRespects ==
  ASSUME NEW p, UNCHANGED xlock PROVE Respects(p)
BY DEF Respects

\* So does releasing one's own locks.
LEMMA ReleaseRespects ==
  ASSUME NEW p, xlock' = Released(p) PROVE Respects(p)
<1>1. \A x \in Blocks : xlock'[x] = IF xlock[x] = p THEN NoProc ELSE xlock[x] BY DEF Released
<1> QED BY <1>1 DEF Respects

\* Taking locks that are free, or one's own, on pages in use respects the others.
LEMMA LockRespects ==
  ASSUME NEW p, NEW S, xlock' = Locked(p, S),
         \A x \in Blocks \cap S : xlock[x] \in {p, NoProc} /\ pages'[x].type # "new"
  PROVE  Respects(p)
<1>1. \A x \in Blocks : xlock'[x] = IF x \in S THEN p ELSE xlock[x] BY DEF Locked
<1> QED BY <1>1 DEF Respects

\* A step that writes nothing and leaves no split to finish.
LEMMA WandersStruct ==
  ASSUME IInv, StructInv, NEW p \in Inserters, IInv' /\ Grown /\ OthersSame(p),
         UNCHANGED pages, Respects(p), fin'[p] = <<>>, pc'[p] # "findpath",
         UsedFrames(stack'[p], pages), bfs'[p] \in {bfs[p], {}},
         Unmoved(pc'[p], stack'[p], pages)
  PROVE  StructInv' /\ Logged
<1>1. \A w \in bfs'[p] : UsedFrames(w, pages) BY DEF StructInv, ProcStruct
<1>2. SplitsOK(p, fin'[p], pc'[p] = "fixchain", stack'[p], pages', xlock') BY NoSplits
<1>3. ProcStruct(p)' BY <1>1, <1>2 DEF ProcStruct
<1>4. Spares(p) /\ OneWrite BY DEF Spares, OneWrite
<1> QED BY <1>3, <1>4, StructStep

\* A backend begins a row with nothing but the root on its stack.
LEMMA BeginRowStruct ==
  ASSUME IInv, StructInv, NEW p \in Inserters, NEW r \in Rows, BeginRow(p, r)
  PROVE  StructInv' /\ Logged
<1>1. IInv' /\ Grown /\ OthersSame(p) BY BeginRowOK
<1>2. /\ pc'[p] = "visit" /\ stack'[p] = <<NewFrame(Root)>> /\ fin'[p] = fin[p]
      /\ bfs'[p] = bfs[p] /\ UNCHANGED <<pages, xlock>>
  BY DEF BeginRow, treeVars, Proceed, IInv, TypeOK
<1>3. pc[p] = "idle" BY DEF BeginRow
<1>4. fin[p] = <<>> BY <1>3, NoCalls DEF Splitting
<1>5. Respects(p) BY <1>2, KeepRespects
<1>6. UsedFrames(<<NewFrame(Root)>>, pages) BY RootUsed DEF IInv
<1> QED BY <1>1, <1>2, <1>4, <1>5, <1>6, WandersStruct DEF Unmoved

\* The page on top of the stack was split: back to the parent.
LEMMA PopStruct ==
  ASSUME IInv, StructInv, NEW p \in Inserters, IInv' /\ Grown /\ OthersSame(p),
         pc[p] \in {"visit", "lockleaf"}, Depth(p) >= 2, PopTo(p), Respects(p),
         pc'[p] = "visit", UNCHANGED <<pages, fin, bfs>>
  PROVE  StructInv' /\ Logged
<1>1. stack'[p] = SubSeq(stack[p], 1, Depth(p) - 1) BY DEF PopTo, IInv, TypeOK
<1>2. UsedFrames(stack'[p], pages) BY <1>1, StacksUsed
<1>3. fin[p] = <<>> BY NoCalls DEF Splitting
<1> QED BY <1>2, <1>3, WandersStruct DEF Unmoved

\* The backend split the page itself and goes back to its parent.
LEMMA PopRetryStruct ==
  ASSUME IInv, StructInv, NEW p \in Inserters, PopRetry(p) PROVE StructInv' /\ Logged
<1>1. pc[p] = "visit" /\ Depth(p) >= 2 BY TopFacts DEF PopRetry
<1>2. PopTo(p) /\ xlock' = Released(p) /\ UNCHANGED <<pages, pc, fin, bfs>> BY DEF PopRetry
<1>3. Respects(p) BY <1>2, ReleaseRespects
<1> QED BY <1>1, <1>2, <1>3, PopRetryOK, PopStruct

\* The page was split after its parent was read: back to the parent.
LEMMA VisitStaleStruct ==
  ASSUME IInv, StructInv, NEW p \in Inserters, VisitStale(p) PROVE StructInv' /\ Logged
<1>1. pc[p] = "visit" /\ Depth(p) >= 2 BY TopFacts DEF VisitStale, Visiting, Stale
<1>2. PopTo(p) /\ xlock' = Released(p) /\ UNCHANGED <<pages, pc, fin, bfs>> BY DEF VisitStale
<1>3. Respects(p) BY <1>2, ReleaseRespects
<1> QED BY <1>1, <1>2, <1>3, VisitStaleOK, PopStruct

\* A downlink leads to a page in use.
LEMMA LinkUsed ==
  ASSUME IInv, StructInv, NEW b \in Blocks, pages[b].type = "inner", NEW d \in pages[b].items
  PROVE  d.ptr \in Blocks /\ InUse(d.ptr, pages)
BY DEF StructInv, OneWay, LinksOn

\* The chosen downlink covers the key: its child is pushed.
LEMMA VisitInnerStruct ==
  ASSUME IInv, StructInv, NEW p \in Inserters, VisitInner(p) PROVE StructInv' /\ Logged
<1>1. pc[p] = "visit" /\ TopPage(p).type = "inner" BY DEF VisitInner, Visiting
<1>2. PICK d \in TopPage(p).items :
        stack' = [stack EXCEPT ![p] = Append(SeenStack(p), NewFrame(d.ptr))]
  BY DEF VisitInner
<1>3. stack'[p] = Append(SeenStack(p), NewFrame(d.ptr)) BY <1>2 DEF IInv, TypeOK
<1>4. xlock' = Released(p) /\ UNCHANGED <<pages, pc, fin, bfs>> BY DEF VisitInner
<1>5. Top(p).blk \in Blocks BY <1>1, TopFacts
<1>6. d.ptr \in Blocks /\ pages[d.ptr].type # "new" BY <1>1, <1>5, LinkUsed DEF TopPage, InUse
<1>7. UsedFrames(stack'[p], pages) BY <1>1, <1>3, <1>6, StacksUsed
<1>8. fin[p] = <<>> BY <1>1, NoCalls DEF Splitting
<1>9. Respects(p) BY <1>4, ReleaseRespects
<1> QED BY <1>1, <1>4, <1>7, <1>8, <1>9, VisitInnerOK, WandersStruct DEF Unmoved

\* The page is to be locked exclusively, or is to be visited once more.
LEMMA SwapStruct ==
  ASSUME IInv, StructInv, NEW p \in Inserters, IInv' /\ Grown /\ OthersSame(p),
         pc[p] \notin Splitting \cup {"idle"},
         stack'[p] = SeenStack(p) \/ (stack'[p] = stack[p] /\ pc'[p] = "visit"),
         pc'[p] \in {"visit", "lockfix", "lockinner", "lockleaf"},
         pc'[p] = "lockinner" => ~TopPage(p).follow,
         Respects(p), UNCHANGED <<pages, fin, bfs>>
  PROVE  StructInv' /\ Logged
<1>1. fin[p] = <<>> BY NoCalls
<1>2. UsedFrames(stack'[p], pages) BY StacksUsed
<1>3. Unmoved(pc'[p], stack'[p], pages)
  <2> SUFFICES ASSUME pc'[p] = "lockinner" PROVE Unmoved(pc'[p], SeenStack(p), pages)
    BY DEF Unmoved
  <2>1. /\ Depth(p) \in Nat /\ Depth(p) >= 1 /\ stack[p] \in Seq(Frame) /\ Top(p) \in Frame
        /\ Len(SeenStack(p)) = Depth(p) /\ TopPage(p) \in Page
    BY TopFacts, SeenFacts
  <2>2. Depth(p) \in 1..Len(stack[p]) BY <2>1 DEF Depth
  <2>3. SeenStack(p)[Depth(p)] = [Top(p) EXCEPT !.lsn = TopPage(p).lsn]
    BY <2>1, <2>2 DEF SeenStack, Top
  <2> DEFINE f == SeenStack(p)[Len(SeenStack(p))]
  <2>4. f.blk = Top(p).blk /\ f.lsn = TopPage(p).lsn BY <2>1, <2>3 DEF Frame
  <2>5. pages[f.blk] = TopPage(p) /\ TopPage(p).lsn \in Nat BY <2>1, <2>4 DEF TopPage, Page
  <2> QED BY <2>4, <2>5 DEF Unmoved
<1> QED BY <1>1, <1>2, <1>3, WandersStruct DEF Splitting

\* The halves of a divided page form a chain, and are the blocks of the call that
\* is to give them their downlinks.
LEMMA DividedChain ==
  ASSUME NEW new, NEW b, NEW N, NEW left, NEW P, NEW blks, Divided(new, b, N, left, P, blks),
         NEW f, f.halves = HalvesOf(P, blks)
  PROVE  /\ Len(f.halves) = Len(blks) /\ Len(blks) \in Nat /\ Len(blks) >= 2
         /\ \A i \in 1..Len(blks) : f.halves[i].blk = blks[i]
         /\ f.halves[1].blk = b
         /\ BlocksOf(f) = {blks[i] : i \in 1..Len(blks)}
         /\ \A i \in 1..Len(blks) - 1 : new[blks[i]].follow /\ new[blks[i]].right = blks[i + 1]
         /\ ~new[blks[Len(blks)]].follow
         /\ \A i, j \in 1..Len(blks) : blks[i] = blks[j] => i = j
<1> DEFINE n == Len(blks)
<1>1. blks \in Seq(Blocks) /\ n \in Nat /\ n >= 2 BY DEF Divided
<1>2. HalvesOf(P, blks) = [i \in 1..n |-> [blk |-> blks[i], pred |-> UnionOf(P[i])]]
  BY <1>1 DEF HalvesOf
<1>3. Len(f.halves) = n BY <1>1, <1>2
<1>4. \A i \in 1..n : f.halves[i].blk = blks[i] BY <1>2
<1>5. /\ \A i \in 1..n : new[blks[i]].right = (IF i < n THEN blks[i + 1] ELSE pages[b].right)
                         /\ new[blks[i]].follow = (i < n)
      /\ \A i, j \in 1..n : blks[i] = blks[j] => i = j
      /\ blks[1] = b
  BY DEF Divided
<1> HIDE DEF n
<1>6. BlocksOf(f) = {blks[i] : i \in 1..n} BY <1>3, <1>4 DEF BlocksOf
<1>7. ASSUME NEW i \in 1..n - 1
      PROVE  new[blks[i]].follow /\ new[blks[i]].right = blks[i + 1]
  <2>1. i \in 1..n /\ i < n BY <1>1
  <2> QED BY <2>1, <1>5
<1>8. 1 \in 1..n /\ n \in 1..n BY <1>1
<1>9. ~new[blks[n]].follow
  <2>1. new[blks[n]].follow = (n < n) BY <1>5, <1>8
  <2>2. ~(n < n) BY <1>1
  <2> QED BY <2>1, <2>2
<1> QED BY <1>1, <1>3, <1>4, <1>5, <1>6, <1>7, <1>8, <1>9 DEF n

\* A write, in place or of the root, that leaves no split to finish.
LEMMA InPlaceStruct ==
  ASSUME IInv, StructInv, NEW p \in Inserters, IInv' /\ Grown /\ OthersSame(p),
         NEW b, NEW N, WriteOK(b, N, NoBlock), Adds(b, N), Writes(pages', b, N, NoBlock),
         lsn' = lsn + 1, xlock[b] \in {p, NoProc}, Respects(p), fin'[p] = <<>>,
         pc'[p] \notin {"findpath", "lockinner"}, UsedFrames(stack'[p], pages),
         bfs'[p] = bfs[p]
  PROVE  StructInv' /\ Logged
<1>1. Spares(p) BY WriteSpares DEF IInv, StructInv
<1>2. OneWrite BY DEF OneWrite, Finishes
<1>3. stack'[p] \in Seq(Frame) /\ \A w \in bfs[p] : w \in Seq(Frame) BY DEF IInv, TypeOK
<1>4. UsedFrames(stack'[p], pages') BY <1>3, UsedLater
<1>5. \A w \in bfs[p] : UsedFrames(w, pages') BY <1>3, UsedLater DEF StructInv, ProcStruct
<1>6. SplitsOK(p, fin'[p], pc'[p] = "fixchain", stack'[p], pages', xlock') BY NoSplits
<1>7. ProcStruct(p)' BY <1>4, <1>5, <1>6 DEF ProcStruct, Unmoved
<1> QED BY <1>1, <1>2, <1>7, StructStep

\* The page on top of the stack does not fit: its halves wait for their downlinks.
LEMMA SplitTopStruct ==
  ASSUME IInv, StructInv, NEW p \in Inserters, IInv' /\ Grown /\ OthersSame(p),
         pc[p] \notin Splitting \cup {"idle"}, Top(p).blk # Root,
         NEW N, WriteOK(Top(p).blk, N, NoBlock), Adds(Top(p).blk, N),
         xlock[Top(p).blk] \in {p, NoProc}, NEW P \in Partitions(Top(p).blk, N), NEW blks,
         Divided(pages', Top(p).blk, N, NoBlock, P, blks), lsn' = lsn + 1,
         xlock' = Locked(p, {blks[i] : i \in DOMAIN blks}),
         fin'[p] = <<[up |-> 0, halves |-> HalvesOf(P, blks), unlock |-> FALSE, locked |-> FALSE]>>,
         pc'[p] = "finish", stack'[p] = SeenStack(p), bfs'[p] = bfs[p]
  PROVE  StructInv' /\ Logged
<1> DEFINE b == Top(p).blk
           f == [up |-> 0, halves |-> HalvesOf(P, blks), unlock |-> FALSE, locked |-> FALSE]
           n == Len(blks)
           fixing == pc'[p] = "fixchain"
<1>1. GoodPages(pages, lsn) BY DEF IInv
<1>2. Divided(pages', b, N, NoBlock, P, blks) OBVIOUS
<1>4. f.up = 0 /\ f.locked = FALSE /\ f.unlock = FALSE /\ f.halves = HalvesOf(P, blks) OBVIOUS
<1>5. fin'[p] = <<f>> /\ fixing = FALSE OBVIOUS
<1> HIDE DEF f, n, fixing
<1>3. /\ Len(f.halves) = n /\ n \in Nat /\ n >= 2
      /\ \A i \in 1..n : f.halves[i].blk = blks[i]
      /\ f.halves[1].blk = b /\ BlocksOf(f) = {blks[i] : i \in 1..n}
      /\ \A i \in 1..n - 1 : pages'[blks[i]].follow /\ pages'[blks[i]].right = blks[i + 1]
      /\ ~pages'[blks[n]].follow
      /\ \A i, j \in 1..n : blks[i] = blks[j] => i = j
  BY <1>2, <1>4, <1>5, DividedChain DEF n
<1>6. blks \in Seq(Blocks) /\ DOMAIN blks = 1..n /\ \A i \in 1..n : blks[i] \in Blocks
  BY <1>2 DEF Divided, n
<1>7. Writes(pages', b, N, NoBlock) BY <1>2, <1>6 DEF Writes
<1>8. Spares(p) BY <1>1, <1>7, WriteSpares DEF StructInv
<1>9. OneWrite BY <1>7 DEF OneWrite, Finishes
<1>10. \A i \in 1..n : xlock[blks[i]] \in {p, NoProc} /\ pages'[blks[i]].type # "new"
  <2> SUFFICES ASSUME NEW i \in 1..n
               PROVE  xlock[blks[i]] \in {p, NoProc} /\ pages'[blks[i]].type # "new"
    OBVIOUS
  <2>1. blks[i] \in Blocks BY <1>6
  <2>2. xlock[blks[i]] \in {p, NoProc}
    <3>1. CASE i = 1 BY <3>1, <1>2 DEF Divided
    <3>2. CASE i \in 2..n BY <2>1, <3>2, <1>2 DEF Divided, StructInv, Held, n
    <3> QED BY <3>1, <3>2, <1>3
  <2>3. pages'[blks[i]].type # "new" BY <1>2 DEF Divided, WriteOK, n
  <2> QED BY <2>2, <2>3
<1>11. Respects(p) BY <1>6, <1>10, LockRespects
<1>12. stack'[p] \in Seq(Frame) /\ \A w \in bfs[p] : w \in Seq(Frame) BY DEF IInv, TypeOK
<1>13. UsedFrames(stack'[p], pages') BY <1>12, StacksUsed, UsedLater
<1>14. \A w \in bfs[p] : UsedFrames(w, pages') BY <1>12, UsedLater DEF StructInv, ProcStruct
<1>15. CallLocks(f, p, stack'[p], xlock')
  <2>1. stack'[p][Len(stack'[p])].blk = b /\ Len(stack'[p]) \in Nat BY <1>12, SeenKind
  <2>2. ASSUME NEW i \in 1..n PROVE xlock'[blks[i]] = p
    <3>1. blks[i] \in Blocks BY <1>6
    <3> QED BY <3>1, <1>6 DEF Locked
  <2> QED BY <2>1, <2>2, <1>3, <1>4 DEF CallLocks
<1>18. HalvesChained(f, fixing, pages')
  <2>1. \A i \in 1..n - 1 : i \in 1..n /\ i + 1 \in 1..n BY <1>3
  <2>2. n \in 1..n BY <1>3
  <2>3. pages'[blks[n]].follow \in BOOLEAN BY <2>2, <1>6 DEF IInv, TypeOK, Page
  <2>4. pages'[blks[n]].follow = FALSE BY <1>3, <2>3
  <2>5. pages'[f.halves[n].blk].follow = fixing BY <1>3, <1>5, <2>2, <2>4
  <2>6. ASSUME NEW i \in 1..n - 1
        PROVE  /\ pages'[f.halves[i].blk].follow
               /\ pages'[f.halves[i].blk].right = f.halves[i + 1].blk
    <3>1. f.halves[i].blk = blks[i] /\ f.halves[i + 1].blk = blks[i + 1] BY <1>3, <2>1
    <3>2. pages'[blks[i]].follow /\ pages'[blks[i]].right = blks[i + 1] BY <1>3
    <3> QED BY <3>1, <3>2
  <2>7. ASSUME NEW i \in 1..n, NEW j \in 1..n, f.halves[i].blk = f.halves[j].blk PROVE i = j
    <3>1. blks[i] = blks[j] BY <1>3, <2>7
    <3> QED BY <1>3, <3>1
  <2> QED BY <1>3, <2>5, <2>6, <2>7 DEF HalvesChained
<1>16. SplitsOK(p, <<f>>, fixing, stack'[p], pages', xlock')
  <2> DEFINE fs == <<f>>
  <2>1. Len(fs) = 1 /\ \A k \in 1..Len(fs) : k = 1 /\ fs[k] = f OBVIOUS
  <2> HIDE DEF fs
  <2>2. SplitsOK(p, fs, fixing, stack'[p], pages', xlock') BY <1>15, <1>18, <2>1 DEF SplitsOK
  <2> QED BY <2>2 DEF fs
<1>17. ProcStruct(p)' BY <1>5, <1>13, <1>14, <1>16 DEF fixing, ProcStruct, Unmoved
<1> QED BY <1>8, <1>9, <1>11, <1>17, StructStep

\* Enlarging a downlink keeps what the page leads to.
LEMMA EnlargeOK ==
  ASSUME IInv, StructInv, NEW p \in Inserters, pc[p] # "idle",
         TopPage(p).type = "inner", ~TopPage(p).follow, NEW d \in TopPage(p).items,
         NEW N, N = (TopPage(p).items \ {d}) \cup {[d EXCEPT !.pred = @ \cup {Key(p)}]}
  PROVE  WriteOK(Top(p).blk, N, NoBlock)
<1> DEFINE b == Top(p).blk
           e == [d EXCEPT !.pred = @ \cup {Key(p)}]
<1>1. /\ b \in Blocks /\ pages[b] = TopPage(p) /\ pages[b] \in Page /\ GoodPage(pages[b])
  BY TopFacts DEF TopPage
<1>2. pages[b].items \subseteq Item /\ \A i \in pages[b].items : i.ptr \in Blocks
  BY <1>1 DEF Page, GoodPage
<1>3. d \in Item /\ d.ptr \in Blocks BY <1>1, <1>2
<1>4. e \in Item /\ e.ptr = d.ptr BY <1>3, EntryFacts DEF Item
<1>5. N = (pages[b].items \ {d}) \cup {e} BY <1>1
<1> HIDE DEF b, e
<1>6. TuplesFor(b, N) BY <1>1, <1>2, <1>3, <1>4, <1>5 DEF TuplesFor
<1>7. \A i, j \in pages[b].items : i.ptr = j.ptr => i = j
  BY <1>1 DEF StructInv, OneWay, LinksOn
<1>8. \A x \in Blocks : \A i \in LinksOn(pages[x]) : i.ptr # NoBlock
  BY BlocksAssumption DEF StructInv, OneWay
<1>9. WriteOK(b, N, NoBlock)
  <2>1. \A i, j \in N : i.ptr = j.ptr => i = j BY <1>1, <1>4, <1>5, <1>7
  <2>2. \A i \in N : \E j \in pages[b].items : j.ptr = i.ptr BY <1>1, <1>4, <1>5
  <2>3. \A j \in pages[b].items : \E i \in N : i.ptr = j.ptr BY <1>4, <1>5
  <2>4. pages[b].type # "new" BY <1>1
  <2> QED BY <1>1, <1>6, <1>8, <2>1, <2>2, <2>3, <2>4 DEF WriteOK
<1> QED BY <1>9 DEF b

\* The enlarged downlink is written, and splits the page if it no longer fits.
LEMMA PlaceDownlinkStruct ==
  ASSUME IInv, StructInv, NEW p \in Inserters, pc[p] \in {"visit", "lockinner"},
         TopPage(p).type = "inner", ~TopPage(p).follow, xlock[Top(p).blk] \in {p, NoProc},
         NEW d \in TopPage(p).items, PlaceDownlink(p, d)
  PROVE  StructInv' /\ Logged
<1> DEFINE b == Top(p).blk
           N == (TopPage(p).items \ {d}) \cup {[d EXCEPT !.pred = @ \cup {Key(p)}]}
<1>1. WriteOK(b, N, NoBlock) /\ Adds(b, N) BY EnlargeOK DEF Adds, TopPage
<1>2. IInv' /\ Grown /\ OthersSame(p) BY PlaceDownlinkOK
<1>3. /\ GoodPages(pages, lsn) /\ pc[p] # "idle" /\ pc[p] \notin Splitting /\ fin[p] = <<>>
      /\ b \in Blocks /\ pages[b] = TopPage(p)
  BY NoCalls, TopFacts DEF IInv, Splitting, TopPage
<1>4. lsn' = lsn + 1 /\ bfs' = bfs BY DEF PlaceDownlink
<1>5. CASE /\ pages' = FitPages(b, N, NoBlock)
           /\ xlock' = Released(p)
           /\ stack' = [stack EXCEPT ![p] = Append(SeenStack(p), NewFrame(d.ptr))]
           /\ Proceed(p, "visit")
           /\ UNCHANGED fin
  <2> HIDE DEF N
  <2>1. Writes(pages', b, N, NoBlock) BY <1>1, <1>3, <1>5, FittedFacts DEF Writes
  <2>2. /\ stack'[p] = Append(SeenStack(p), NewFrame(d.ptr)) /\ pc'[p] = "visit"
        /\ fin'[p] = <<>>
    BY <1>3, <1>5 DEF IInv, TypeOK, Proceed
  <2>3. d.ptr \in Blocks /\ pages[d.ptr].type # "new" BY <1>3, LinkUsed DEF InUse
  <2>4. UsedFrames(stack'[p], pages) BY <1>3, <2>2, <2>3, StacksUsed
  <2>5. Respects(p) BY <1>5, ReleaseRespects
  <2> QED BY <1>1, <1>2, <1>4, <2>1, <2>2, <2>4, <2>5, InPlaceStruct
<1>6. CASE /\ b = Root
           /\ \E P \in Partitions(b, N) : \E blks \in FreshBlocks(Len(P)) :
                pages' = RootSplitPages(P, blks, NoBlock)
           /\ xlock' = Locked(p, {b})
           /\ stack' = [stack EXCEPT ![p] = SeenStack(p)]
           /\ Proceed(p, "visit")
           /\ UNCHANGED fin
  <2> HIDE DEF N
  <2>1. Writes(pages', b, N, NoBlock)
    <3>1. PICK P \in Partitions(b, N) : \E blks \in FreshBlocks(Len(P)) :
                 pages' = RootSplitPages(P, blks, NoBlock)
      BY <1>6
    <3>2. PICK blks \in FreshBlocks(Len(P)) : pages' = RootSplitPages(P, blks, NoBlock)
      BY <3>1
    <3>3. RootDivided(pages', N, NoBlock, P, blks) BY <1>1, <1>3, <1>6, <3>2, RootDividedFacts
    <3>4. blks \in Seq(Blocks) BY <3>3 DEF RootDivided
    <3> QED BY <1>6, <3>3, <3>4 DEF Writes
  <2>2. stack'[p] = SeenStack(p) /\ pc'[p] = "visit" /\ fin'[p] = <<>>
    BY <1>3, <1>6 DEF IInv, TypeOK, Proceed
  <2>3. UsedFrames(stack'[p], pages) BY <1>3, <2>2, StacksUsed
  <2>4. pages'[b].type # "new" BY <1>2, <1>6 DEF IInv, GoodPages
  <2>5. Respects(p) BY <1>6, <2>4, LockRespects
  <2> QED BY <1>1, <1>2, <1>4, <2>1, <2>2, <2>3, <2>5, InPlaceStruct
<1>7. CASE /\ b # Root
           /\ \E P \in Partitions(b, N) : \E new \in FreshBlocks(Len(P) - 1) :
                LET blks == <<b>> \o new IN
                /\ pages' = SplitPages(b, P, blks, NoBlock)
                /\ xlock' = Locked(p, {blks[i] : i \in DOMAIN blks})
                /\ StartFinish(p, P, blks, "inner")
           /\ stack' = [stack EXCEPT ![p] = SeenStack(p)]
  <2> HIDE DEF N
  <2>1. PICK P \in Partitions(b, N) : \E new \in FreshBlocks(Len(P) - 1) :
                LET blks == <<b>> \o new IN
                /\ pages' = SplitPages(b, P, blks, NoBlock)
                /\ xlock' = Locked(p, {blks[i] : i \in DOMAIN blks})
                /\ StartFinish(p, P, blks, "inner")
    BY <1>7
  <2>2. PICK new \in FreshBlocks(Len(P) - 1) :
                LET blks == <<b>> \o new IN
                /\ pages' = SplitPages(b, P, blks, NoBlock)
                /\ xlock' = Locked(p, {blks[i] : i \in DOMAIN blks})
                /\ StartFinish(p, P, blks, "inner")
    BY <2>1
  <2> DEFINE blks == <<b>> \o new
  <2>3. Divided(pages', b, N, NoBlock, P, blks) BY <1>1, <1>3, <1>7, <2>2, DividedFacts
  <2>4. /\ xlock' = Locked(p, {blks[i] : i \in DOMAIN blks})
        /\ StartFinish(p, P, blks, "inner")
    BY <2>2
  <2> HIDE DEF blks
  <2>5. /\ stack'[p] = SeenStack(p) /\ pc'[p] = "finish"
        /\ fin'[p] = <<[up |-> 0, halves |-> HalvesOf(P, blks), unlock |-> FALSE,
                        locked |-> FALSE]>>
    BY <1>7, <2>4 DEF IInv, TypeOK, StartFinish, Proceed
  <2> QED BY <1>1, <1>2, <1>3, <1>4, <1>7, <2>3, <2>4, <2>5, SplitTopStruct
<1> QED BY <1>5, <1>6, <1>7 DEF PlaceDownlink

\* What an insertion leaves behind when the entry is in.
LEMMA EntryDoneFacts ==
  ASSUME IInv, StructInv, NEW p \in Inserters, EntryDone(p)
  PROVE  /\ xlock' = Released(p) /\ Respects(p)
         /\ pc'[p] \in {"visit", "idle"} /\ UsedFrames(stack'[p], pages)
<1>1. xlock' = Released(p) BY DEF EntryDone
<1>2. /\ pc'[p] \in {"visit", "idle"}
      /\ stack'[p] = <<NewFrame(Root)>> \/ stack'[p] = <<>>
  BY DEF EntryDone, Proceed, IInv, TypeOK
<1>3. UsedFrames(stack'[p], pages) BY <1>2, RootUsed DEF IInv
<1> QED BY <1>1, <1>2, <1>3, ReleaseRespects

\* The write to the leaf is of that kind, too.
LEMMA EntryOK ==
  ASSUME IInv, StructInv, NEW p \in Inserters, pc[p] # "idle",
         TopPage(p).type = "leaf", ~TopPage(p).follow,
         NEW N, N = TopPage(p).items \cup {LeafItem(EntriesOf[row[p]][pos[p]])}
  PROVE  WriteOK(Top(p).blk, N, NoBlock) /\ Adds(Top(p).blk, N)
<1> DEFINE b == Top(p).blk
<1>1. /\ b \in Blocks /\ pages[b] = TopPage(p) /\ pages[b] \in Page /\ GoodPage(pages[b])
  BY TopFacts DEF TopPage
<1>2. pages[b].items \subseteq Item /\ \A i \in pages[b].items : i.ptr \in Entries
  BY <1>1 DEF Page, GoodPage
<1>3. ASSUME NEW e \in Entries PROVE LeafItem(e) \in Item /\ LeafItem(e).ptr \in Entries
  BY RowsAssumption DEF LeafItem, Item
<1>4. EntriesOf[row[p]][pos[p]] \in Entries BY <1>1, EntryFacts
<1>5. TuplesFor(b, N) BY <1>1, <1>2, <1>3, <1>4 DEF TuplesFor
<1>6. \A x \in Blocks : \A i \in LinksOn(pages[x]) : i.ptr # NoBlock
  <2>1. OneWay(pages) BY DEF StructInv
  <2>2. \A x \in Blocks : \A i \in LinksOn(pages[x]) : i.ptr \in Blocks BY <2>1 DEF OneWay
  <2> QED BY <2>2, BlocksAssumption
<1>7. Adds(b, N) BY <1>1 DEF Adds, LeafItem
<1> QED BY <1>1, <1>5, <1>6, <1>7 DEF WriteOK

\* The entry is written into its leaf, which is split if it is full.
LEMMA PlaceEntryStruct ==
  ASSUME IInv, StructInv, NEW p \in Inserters, pc[p] \in {"visit", "lockleaf"},
         TopPage(p).type = "leaf", ~TopPage(p).follow, xlock[Top(p).blk] \in {p, NoProc},
         PlaceEntry(p)
  PROVE  StructInv' /\ Logged
<1> DEFINE b == Top(p).blk
           N == TopPage(p).items \cup {LeafItem(EntriesOf[row[p]][pos[p]])}
<1>1. IInv' /\ Grown /\ OthersSame(p) BY PlaceEntryOK
<1>2. /\ GoodPages(pages, lsn) /\ pc[p] # "idle" /\ pc[p] \notin Splitting /\ fin[p] = <<>>
      /\ b \in Blocks /\ pages[b] = TopPage(p) /\ pages[b] \in Page /\ GoodPage(pages[b])
  BY NoCalls, TopFacts DEF IInv, Splitting, TopPage
<1>3. WriteOK(b, N, NoBlock) /\ Adds(b, N) BY <1>2, EntryOK
<1>4. lsn' = lsn + 1 /\ bfs' = bfs BY DEF PlaceEntry
<1>5. ASSUME Writes(pages', b, N, NoBlock), EntryDone(p), UNCHANGED fin
      PROVE  StructInv' /\ Logged
  <2> HIDE DEF N
  <2>1. Respects(p) /\ pc'[p] \in {"visit", "idle"} /\ UsedFrames(stack'[p], pages)
    BY <1>5, EntryDoneFacts
  <2> QED BY <1>1, <1>2, <1>3, <1>4, <1>5, <2>1, InPlaceStruct
<1>6. CASE pages' = FitPages(b, N, NoBlock) /\ EntryDone(p) /\ UNCHANGED fin
  <2> HIDE DEF N
  <2>1. Writes(pages', b, N, NoBlock) BY <1>2, <1>3, <1>6, FittedFacts DEF Writes
  <2> QED BY <1>5, <1>6, <2>1
<1>7. CASE /\ b = Root
           /\ \E P \in Partitions(b, N) : \E blks \in FreshBlocks(Len(P)) :
                pages' = RootSplitPages(P, blks, NoBlock)
           /\ EntryDone(p)
           /\ UNCHANGED fin
  <2> HIDE DEF N
  <2>1. Writes(pages', b, N, NoBlock)
    <3>1. PICK P \in Partitions(b, N) : \E blks \in FreshBlocks(Len(P)) :
                 pages' = RootSplitPages(P, blks, NoBlock)
      BY <1>7
    <3>2. PICK blks \in FreshBlocks(Len(P)) : pages' = RootSplitPages(P, blks, NoBlock)
      BY <3>1
    <3>3. RootDivided(pages', N, NoBlock, P, blks) BY <1>2, <1>3, <1>7, <3>2, RootDividedFacts
    <3>4. blks \in Seq(Blocks) BY <3>3 DEF RootDivided
    <3> QED BY <1>7, <3>3, <3>4 DEF Writes
  <2> QED BY <1>5, <1>7, <2>1
<1>8. CASE /\ b # Root
           /\ \E P \in Partitions(b, N) : \E new \in FreshBlocks(Len(P) - 1) :
                LET blks == <<b>> \o new IN
                /\ pages' = SplitPages(b, P, blks, NoBlock)
                /\ xlock' = Locked(p, {blks[i] : i \in DOMAIN blks})
                /\ StartFinish(p, P, blks, "leaf")
           /\ stack' = [stack EXCEPT ![p] = SeenStack(p)]
  <2> HIDE DEF N
  <2>1. PICK P \in Partitions(b, N) : \E new \in FreshBlocks(Len(P) - 1) :
                LET blks == <<b>> \o new IN
                /\ pages' = SplitPages(b, P, blks, NoBlock)
                /\ xlock' = Locked(p, {blks[i] : i \in DOMAIN blks})
                /\ StartFinish(p, P, blks, "leaf")
    BY <1>8
  <2>2. PICK new \in FreshBlocks(Len(P) - 1) :
                LET blks == <<b>> \o new IN
                /\ pages' = SplitPages(b, P, blks, NoBlock)
                /\ xlock' = Locked(p, {blks[i] : i \in DOMAIN blks})
                /\ StartFinish(p, P, blks, "leaf")
    BY <2>1
  <2> DEFINE blks == <<b>> \o new
  <2>3. Divided(pages', b, N, NoBlock, P, blks) BY <1>2, <1>3, <1>8, <2>2, DividedFacts
  <2>4. /\ xlock' = Locked(p, {blks[i] : i \in DOMAIN blks})
        /\ StartFinish(p, P, blks, "leaf")
    BY <2>2
  <2> HIDE DEF blks
  <2>5. /\ stack'[p] = SeenStack(p) /\ pc'[p] = "finish"
        /\ fin'[p] = <<[up |-> 0, halves |-> HalvesOf(P, blks), unlock |-> FALSE,
                        locked |-> FALSE]>>
    BY <1>8, <2>4 DEF IInv, TypeOK, StartFinish, Proceed
  <2> QED BY <1>1, <1>2, <1>3, <1>4, <1>8, <2>3, <2>4, <2>5, SplitTopStruct
<1> QED BY <1>6, <1>7, <1>8 DEF PlaceEntry

\* Who visits a page may lock it.
LEMMA VisitingLock ==
  ASSUME NEW p, Visiting(p) PROVE xlock[Top(p).blk] \in {p, NoProc} /\ pc[p] = "visit"
BY DEF Visiting, Free

\* The chosen downlink must be enlarged: at once, or after a swap of the lock.
LEMMA VisitAdjustStruct ==
  ASSUME IInv, StructInv, NEW p \in Inserters, VisitAdjust(p) PROVE StructInv' /\ Logged
<1>1. /\ xlock[Top(p).blk] \in {p, NoProc} /\ pc[p] = "visit"
      /\ ~TopPage(p).follow /\ TopPage(p).type = "inner"
  BY VisitingLock DEF VisitAdjust
<1>2. CASE \E d \in TopPage(p).items : PlaceDownlink(p, d) BY <1>1, <1>2, PlaceDownlinkStruct
<1>3. CASE /\ stack' = [stack EXCEPT ![p] = SeenStack(p)] /\ Proceed(p, "lockinner")
           /\ UNCHANGED <<pages, xlock, fin, bfs>>
  <2>1. stack'[p] = SeenStack(p) /\ pc'[p] = "lockinner" BY <1>3 DEF Proceed, IInv, TypeOK
  <2>2. Respects(p) BY <1>3, KeepRespects
  <2>3. IInv' /\ Grown /\ OthersSame(p) BY VisitAdjustOK
  <2>4. pc[p] \notin Splitting \cup {"idle"} BY <1>1 DEF Splitting
  <2>5. UNCHANGED <<pages, fin, bfs>> BY <1>3
  <2>6. ~TopPage(p).follow BY <1>1
  <2> QED BY <2>1, <2>2, <2>3, <2>4, <2>5, <2>6, SwapStruct
<1> QED BY <1>2, <1>3 DEF VisitAdjust, treeVars

\* The share lock on an inner page is swapped for an exclusive one.
LEMMA LockInnerStruct ==
  ASSUME IInv, StructInv, NEW p \in Inserters, LockInner(p) PROVE StructInv' /\ Logged
<1>1. pc[p] = "lockinner" /\ xlock[Top(p).blk] = NoProc /\ pc[p] # "idle"
  BY DEF LockInner, Free
<1>2. Top(p).blk \in Blocks /\ TopPage(p).type # "new" /\ GoodPage(TopPage(p))
  BY <1>1, TopFacts, StacksUsed
<1>3. CASE /\ xlock' = Locked(p, {Top(p).blk}) /\ Proceed(p, "visit")
           /\ UNCHANGED <<pages, stack, fin, bfs>>
  <2>1. stack'[p] = stack[p] /\ pc'[p] = "visit" BY <1>3 DEF Proceed, IInv, TypeOK
  <2>2. Respects(p) BY <1>1, <1>2, <1>3, LockRespects DEF TopPage
  <2> QED BY <1>1, <1>3, <2>1, <2>2, LockInnerOK, SwapStruct DEF Splitting
<1>4. CASE TopPage(p).lsn = Top(p).lsn /\ \E d \in TopPage(p).items : PlaceDownlink(p, d)
  <2>1. ~TopPage(p).follow
    BY <1>1, <1>4 DEF StructInv, ProcStruct, Unmoved, TopPage, Top, Depth
  <2>2. TopPage(p).type = "inner" BY <1>1 DEF IInv, ProcOK, KindOK, TopPage, Top, Depth
  <2> QED BY <1>1, <1>4, <2>1, <2>2, PlaceDownlinkStruct
<1> QED BY <1>3, <1>4 DEF LockInner

\* A leaf: the entry goes in at once, or after a swap of the lock.
LEMMA VisitLeafStruct ==
  ASSUME IInv, StructInv, NEW p \in Inserters, VisitLeaf(p) PROVE StructInv' /\ Logged
<1>1. /\ xlock[Top(p).blk] \in {p, NoProc} /\ pc[p] = "visit"
      /\ ~TopPage(p).follow /\ TopPage(p).type = "leaf"
  BY VisitingLock DEF VisitLeaf
<1>2. CASE PlaceEntry(p) BY <1>1, <1>2, PlaceEntryStruct
<1>3. CASE /\ stack' = [stack EXCEPT ![p] = SeenStack(p)] /\ Proceed(p, "lockleaf")
           /\ UNCHANGED <<pages, xlock, fin, bfs>>
  <2>1. stack'[p] = SeenStack(p) /\ pc'[p] = "lockleaf" BY <1>3 DEF Proceed, IInv, TypeOK
  <2>2. Respects(p) BY <1>3, KeepRespects
  <2>3. IInv' /\ Grown /\ OthersSame(p) BY VisitLeafOK
  <2>4. pc[p] \notin Splitting \cup {"idle"} BY <1>1 DEF Splitting
  <2>5. UNCHANGED <<pages, fin, bfs>> BY <1>3
  <2>6. ~TopPage(p).follow BY <1>1
  <2> QED BY <2>1, <2>2, <2>3, <2>4, <2>5, <2>6, SwapStruct
<1> QED BY <1>2, <1>3 DEF VisitLeaf, treeVars

\* The share lock on a leaf is swapped for an exclusive one.
LEMMA LockLeafStruct ==
  ASSUME IInv, StructInv, NEW p \in Inserters, LockLeaf(p) PROVE StructInv' /\ Logged
<1>1. pc[p] = "lockleaf" /\ xlock[Top(p).blk] = NoProc /\ pc[p] # "idle"
  BY DEF LockLeaf, Free
<1>2. CASE /\ Proceed(p, "visit") /\ stack' = [stack EXCEPT ![p] = SeenStack(p)]
           /\ UNCHANGED <<pages, xlock, fin, bfs>>
  <2>1. stack'[p] = SeenStack(p) /\ pc'[p] = "visit" BY <1>2 DEF Proceed, IInv, TypeOK
  <2>2. Respects(p) BY <1>2, KeepRespects
  <2> QED BY <1>1, <1>2, <2>1, <2>2, LockLeafOK, SwapStruct DEF Splitting
<1>3. CASE /\ Top(p).blk # Root /\ PopTo(p) /\ Proceed(p, "visit")
           /\ UNCHANGED <<pages, xlock, fin, bfs>>
  <2>1. pc'[p] = "visit" /\ Depth(p) >= 2 BY <1>1, <1>3, TopFacts DEF Proceed, IInv, TypeOK
  <2>2. Respects(p) BY <1>3, KeepRespects
  <2> QED BY <1>1, <1>3, <2>1, <2>2, LockLeafOK, PopStruct
<1>4. CASE /\ IF Top(p).blk = Root THEN TopPage(p).type = "leaf" ELSE ~LeafMoved(p)
           /\ PlaceEntry(p)
  <2>1. TopPage(p).type = "leaf"
    <3>1. Top(p).blk = Root \/ TopPage(p).type \in {"leaf", "deleted"}
      BY <1>1 DEF IInv, ProcOK, KindOK, TopPage, Top, Depth
    <3> QED BY <1>4, <3>1 DEF LeafMoved, Stale
  <2>2. ~TopPage(p).follow BY <1>4 DEF LeafMoved, IInv, GoodPages, TopPage
  <2> QED BY <1>1, <1>4, <2>1, <2>2, PlaceEntryStruct
<1> QED BY <1>2, <1>3, <1>4 DEF LockLeaf, treeVars
-----------------------------------------------------------------------------
(***************************************************************************)
(* Finishing a split, without writing.                                     *)
(***************************************************************************)
\* A step of mgistfinishsplit or mgistfixsplit that writes nothing.
LEMMA SplittingStruct ==
  ASSUME IInv, StructInv, NEW p \in Inserters, IInv' /\ Grown /\ OthersSame(p),
         UNCHANGED pages, Respects(p), UsedFrames(stack'[p], pages),
         \A w \in bfs'[p] : UsedFrames(w, pages),
         SplitsOK(p, fin'[p], pc'[p] = "fixchain", stack'[p], pages, xlock'),
         pc'[p] \in Splitting, pc'[p] = "findpath" => ~fin'[p][1].locked
  PROVE  StructInv' /\ Logged
<1>1. ProcStruct(p)' BY DEF ProcStruct, Splitting, Unmoved
<1>2. Spares(p) /\ OneWrite BY DEF Spares, OneWrite
<1> QED BY <1>1, <1>2, StructStep

\* The only call of a backend.
LEMMA OneCall ==
  ASSUME NEW p, NEW fs, NEW fixing, NEW st, NEW pgs, NEW xl, Len(fs) = 1,
         HalvesChained(fs[1], fixing, pgs), CallLocks(fs[1], p, st, xl)
  PROVE  SplitsOK(p, fs, fixing, st, pgs, xl)
<1>1. \A k \in 1..Len(fs) : k = 1 OBVIOUS
<1> QED BY <1>1 DEF SplitsOK

\* mgistfixsplit begins with the page at hand as the only half.
LEMMA StartFixStruct ==
  ASSUME IInv, StructInv, NEW p \in Inserters, IInv' /\ Grown /\ OthersSame(p),
         pc[p] \notin Splitting \cup {"idle"}, TopPage(p).follow, StartFix(p),
         stack'[p] \in {SeenStack(p), stack[p]}, xlock'[Top(p).blk] = p,
         Respects(p), UNCHANGED <<pages, bfs>>
  PROVE  StructInv' /\ Logged
<1> DEFINE f == [up |-> 0, halves |-> <<HalfAt(Top(p).blk)>>, unlock |-> FALSE, locked |-> FALSE]
<1>1. fin'[p] = <<f>> /\ pc'[p] = "fixchain"
  <2>1. fin' = [fin EXCEPT ![p] = <<f>>] /\ pc' = [pc EXCEPT ![p] = "fixchain"]
    BY DEF StartFix, Proceed
  <2>2. p \in DOMAIN fin /\ p \in DOMAIN pc BY DEF IInv, TypeOK
  <2> HIDE DEF f
  <2> QED BY <2>1, <2>2
<1>0. Len(fin'[p]) = 1 /\ fin'[p][1] = f BY <1>1
<1>2. UsedFrames(stack'[p], pages) /\ \A w \in bfs'[p] : UsedFrames(w, pages)
  BY StacksUsed DEF StructInv, ProcStruct
<1>3. f.halves[1].blk = Top(p).blk /\ Len(f.halves) = 1 /\ ~f.locked /\ f.up = 0
  BY DEF HalfAt
<1> HIDE DEF f
<1>4. stack'[p][Len(stack'[p])].blk = Top(p).blk /\ Len(stack'[p]) \in Nat
  BY SeenKind, TopFacts, SeenFacts DEF Top, Depth
<1>5. \A i \in 1..1 : i = 1 OBVIOUS
<1>6. CallLocks(f, p, stack'[p], xlock') BY <1>3, <1>4, <1>5 DEF CallLocks
<1>7. HalvesChained(f, pc'[p] = "fixchain", pages)
  <2>1. TopPage(p).follow = TRUE BY TopFacts DEF Page
  <2>2. pages[f.halves[1].blk].follow = TRUE BY <1>3, <2>1 DEF TopPage
  <2>3. pages[f.halves[1].blk].follow = (pc'[p] = "fixchain") BY <1>1, <2>2
  <2>4. \A i \in 1..1 - 1 : FALSE OBVIOUS
  <2> QED BY <1>3, <1>5, <2>3, <2>4 DEF HalvesChained
<1>8. SplitsOK(p, fin'[p], pc'[p] = "fixchain", stack'[p], pages, xlock')
  BY <1>0, <1>6, <1>7, OneCall
<1> QED BY <1>1, <1>2, <1>8, SplittingStruct DEF Splitting

\* A page with F_FOLLOW_RIGHT: the descent turns to the repair of its split.
LEMMA VisitFollowStruct ==
  ASSUME IInv, StructInv, NEW p \in Inserters, VisitFollow(p) PROVE StructInv' /\ Logged
<1>1. /\ xlock[Top(p).blk] \in {p, NoProc} /\ pc[p] = "visit" /\ TopPage(p).follow
      /\ xheld[p] => xlock[Top(p).blk] = p
  BY VisitingLock DEF VisitFollow, Visiting
<1>2. /\ stack'[p] = SeenStack(p) /\ UNCHANGED <<pages, bfs, xlock>>
  BY DEF VisitFollow, treeVars, IInv, TypeOK
<1>3. IInv' /\ Grown /\ OthersSame(p) BY VisitFollowOK
<1>4. pc[p] \notin Splitting \cup {"idle"} BY <1>1 DEF Splitting
<1>5. Respects(p) BY <1>2, KeepRespects
<1>6. CASE xheld[p] /\ StartFix(p)
  BY <1>1, <1>2, <1>3, <1>4, <1>5, <1>6, StartFixStruct
<1>7. CASE Proceed(p, "lockfix") /\ UNCHANGED fin
  <2>1. pc'[p] = "lockfix" BY <1>7 DEF Proceed, IInv, TypeOK
  <2> QED BY <1>2, <1>3, <1>4, <1>5, <1>7, <2>1, SwapStruct
<1> QED BY <1>6, <1>7 DEF VisitFollow

\* The lock is swapped to repair the split; another backend may have done so first.
LEMMA LockFixStruct ==
  ASSUME IInv, StructInv, NEW p \in Inserters, LockFix(p) PROVE StructInv' /\ Logged
<1>1. pc[p] = "lockfix" /\ xlock[Top(p).blk] = NoProc BY DEF LockFix, Free
<1>2. /\ stack'[p] = stack[p] /\ UNCHANGED <<pages, bfs>> /\ xlock' = Locked(p, {Top(p).blk})
  BY DEF LockFix
<1>3. IInv' /\ Grown /\ OthersSame(p) BY LockFixOK
<1>4. pc[p] \notin Splitting \cup {"idle"} BY <1>1 DEF Splitting
<1>5. Top(p).blk \in Blocks /\ TopPage(p).type # "new" BY <1>4, TopFacts, StacksUsed
<1>6. Respects(p) /\ xlock'[Top(p).blk] = p
  <2>1. xlock'[Top(p).blk] = p BY <1>2, <1>5 DEF Locked
  <2> QED BY <2>1, <1>1, <1>2, <1>5, LockRespects DEF TopPage
<1>7. CASE TopPage(p).follow /\ StartFix(p)
  BY <1>2, <1>3, <1>4, <1>6, <1>7, StartFixStruct
<1>8. CASE Proceed(p, "visit") /\ UNCHANGED fin
  <2>1. pc'[p] = "visit" BY <1>8 DEF Proceed, IInv, TypeOK
  <2> QED BY <1>2, <1>3, <1>4, <1>6, <1>8, <2>1, SwapStruct
<1> QED BY <1>7, <1>8 DEF LockFix

\* mgistfixsplit walks right along the half split, and at its end finishes it.
LEMMA FixChainStruct ==
  ASSUME IInv, StructInv, NEW p \in Inserters, FixChain(p) PROVE StructInv' /\ Logged
<1> DEFINE f == fin[p][1]
           hs == f.halves
           n == Len(hs)
           r == pages[hs[n].blk].right
           g == [f EXCEPT !.halves = Append(@, HalfAt(r))]
<1>1. /\ pc[p] = "fixchain" /\ r \in Blocks /\ xlock[r] = NoProc
      /\ xlock' = Locked(p, {r})
      /\ fin' = [fin EXCEPT ![p][1].halves = Append(@, HalfAt(r))]
      /\ IF pages[r].follow THEN UNCHANGED pc ELSE Proceed(p, "finish")
      /\ UNCHANGED <<pages, stack, bfs>>
  BY DEF FixChain, Free
<1>2. /\ f \in Call /\ n \in Nat /\ n >= 1 /\ hs \in Seq(Half)
      /\ \A i \in 1..n : hs[i].blk \in Blocks
      /\ fin[p] \in Seq(Call) /\ Len(fin[p]) = 1
  BY <1>1, CallFacts DEF Splitting, IInv, ProcOK
<1>3. ProcStruct(p) BY DEF StructInv
<1>4. HalvesChained(f, pc[p] = "fixchain", pages) /\ CallLocks(f, p, stack[p], xlock)
  BY <1>2, <1>3 DEF ProcStruct, SplitsOK
<1>5. HalfAt(r) \in Half /\ HalfAt(r).blk = r
  <2>1. pages[r] \in Page BY <1>1 DEF IInv, TypeOK
  <2>2. \A i \in pages[r].items : i.pred \subseteq Keys BY <2>1 DEF Page, Item
  <2>3. UnionOf(pages[r].items) \in SUBSET Keys BY <2>2 DEF UnionOf
  <2> HIDE DEF r
  <2> QED BY <1>1, <2>3 DEF HalfAt, Half
<1>6. /\ g.halves = Append(hs, HalfAt(r)) /\ g.up = f.up /\ g.unlock = f.unlock
      /\ g.locked = f.locked
  BY <1>2 DEF Call
<1>7. Len(fin'[p]) = 1 /\ fin'[p][1] = g
  <2>1. fin'[p] = [fin[p] EXCEPT ![1] = g] BY <1>1 DEF IInv, TypeOK
  <2> HIDE DEF g
  <2> QED BY <1>2, <2>1
<1>8. /\ Len(g.halves) = n + 1 /\ \A i \in 1..n : g.halves[i] = hs[i]
      /\ g.halves[n + 1].blk = r
  <2> HIDE DEF g, r, hs, f
  <2> QED BY <1>2, <1>5, <1>6, AppendProperties
<1> HIDE DEF g, r, n
<1>9. r = pages[hs[n].blk].right BY DEF r
<1> HIDE DEF hs
<1>10. /\ \A i \in 1..n - 1 : pages[hs[i].blk].follow /\ pages[hs[i].blk].right = hs[i + 1].blk
       /\ pages[hs[n].blk].follow
       /\ \A i, j \in 1..n : hs[i].blk = hs[j].blk => i = j
       /\ hs[1].blk = stack[p][Len(stack[p]) - f.up].blk
       /\ \A i \in 1..n : xlock[hs[i].blk] = p
       /\ f.locked => xlock[ParentOf(f, stack[p])] = p /\ ParentOf(f, stack[p]) \notin BlocksOf(f)
  BY <1>1, <1>4 DEF HalvesChained, CallLocks, hs, n
<1> HIDE DEF f
<1>11. \A i \in 1..n : hs[i].blk # r BY <1>1, <1>10, ProcAssumption
<1>12. HalvesChained(g, pc'[p] = "fixchain", pages)
  <2>1. pages[r].follow = (pc'[p] = "fixchain")
    <3>1. pages[r].follow \in BOOLEAN BY <1>1 DEF IInv, TypeOK, Page
    <3>2. CASE pages[r].follow BY <1>1, <3>1, <3>2
    <3>3. CASE ~pages[r].follow
      <4>1. pc'[p] = "finish" BY <1>1, <3>3 DEF Proceed, IInv, TypeOK
      <4> QED BY <3>1, <3>3, <4>1
    <3> QED BY <3>1, <3>2, <3>3
  <2>2. ASSUME NEW i \in 1..n
        PROVE  pages[g.halves[i].blk].follow /\ pages[g.halves[i].blk].right = g.halves[i + 1].blk
    <3>1. CASE i \in 1..n - 1
      <4>1. i + 1 \in 1..n BY <3>1, <1>2
      <4> QED BY <3>1, <4>1, <1>8, <1>10
    <3>2. CASE i = n BY <3>2, <1>8, <1>9, <1>10
    <3> QED BY <3>1, <3>2, <1>2
  <2>3. ASSUME NEW i \in 1..n + 1, NEW j \in 1..n + 1, g.halves[i].blk = g.halves[j].blk
        PROVE  i = j
    <3>1. (i \in 1..n \/ i = n + 1) /\ (j \in 1..n \/ j = n + 1) BY <1>2
    <3> QED BY <3>1, <2>3, <1>8, <1>10, <1>11
  <2>4. n + 1 - 1 = n BY <1>2
  <2>5. pages[g.halves[n + 1].blk].follow = (pc'[p] = "fixchain") BY <2>1, <1>8
  <2> DEFINE m == n + 1
  <2>6. Len(g.halves) = m BY <1>8
  <2>7. \A i \in 1..m - 1 : /\ pages[g.halves[i].blk].follow
                            /\ pages[g.halves[i].blk].right = g.halves[i + 1].blk
    <3> SUFFICES ASSUME NEW i \in 1..m - 1
                 PROVE  /\ pages[g.halves[i].blk].follow
                        /\ pages[g.halves[i].blk].right = g.halves[i + 1].blk
      OBVIOUS
    <3>1. i \in 1..n BY <1>2
    <3> QED BY <3>1, <2>2
  <2>8. \A i, j \in 1..m : g.halves[i].blk = g.halves[j].blk => i = j BY <2>3
  <2>9. pages[g.halves[m].blk].follow = (pc'[p] = "fixchain") BY <2>5
  <2> HIDE DEF m
  <2> QED BY <2>6, <2>7, <2>8, <2>9 DEF HalvesChained
<1>13. CallLocks(g, p, stack'[p], xlock')
  <2>1. /\ xlock'[r] = p /\ \A x \in Blocks : xlock[x] = p => xlock'[x] = p
    BY <1>1 DEF Locked
  <2>2. ASSUME NEW i \in 1..n + 1 PROVE xlock'[g.halves[i].blk] = p
    <3>1. i \in 1..n \/ i = n + 1 BY <1>2
    <3>2. CASE i \in 1..n
      <4>1. g.halves[i] = hs[i] /\ hs[i].blk \in Blocks /\ xlock[hs[i].blk] = p
        BY <3>2, <1>2, <1>8, <1>10
      <4> QED BY <4>1, <2>1
    <3>3. CASE i = n + 1 BY <3>3, <2>1, <1>8
    <3> QED BY <3>1, <3>2, <3>3
  <2>3. g.halves[1].blk = stack'[p][Len(stack'[p]) - g.up].blk
    <3>1. 1 \in 1..n BY <1>2
    <3> QED BY <3>1, <1>1, <1>6, <1>8, <1>10
  <2>4. ASSUME g.locked
        PROVE  xlock'[ParentOf(g, stack'[p])] = p /\ ParentOf(g, stack'[p]) \notin BlocksOf(g)
    <3>1. ParentOf(g, stack'[p]) = ParentOf(f, stack[p]) BY <1>1, <1>6 DEF ParentOf
    <3>2. xlock[ParentOf(f, stack[p])] = p /\ ParentOf(f, stack[p]) \notin BlocksOf(f)
      BY <2>4, <1>6, <1>10
    <3>3. ParentOf(f, stack[p]) \in Blocks
      <4>1. 1 \in 1..Len(fin[p]) BY <1>2
      <4> QED BY <4>1, CallBlocks DEF f
    <3>4. ParentOf(f, stack[p]) # r BY <1>1, <3>2, ProcAssumption
    <3>5. BlocksOf(g) = BlocksOf(f) \cup {r}
      <4>1. \A i \in 1..n : i \in 1..n + 1 BY <1>2
      <4>2. n + 1 \in 1..n + 1 /\ \A i \in 1..n + 1 : i \in 1..n \/ i = n + 1 BY <1>2
      <4>3. BlocksOf(f) = {hs[i].blk : i \in 1..n} BY DEF BlocksOf, hs, n
      <4> QED BY <4>1, <4>2, <4>3, <1>8 DEF BlocksOf
    <3> QED BY <2>1, <3>1, <3>2, <3>3, <3>4, <3>5
  <2> QED BY <1>8, <2>2, <2>3, <2>4 DEF CallLocks
<1>14. SplitsOK(p, fin'[p], pc'[p] = "fixchain", stack'[p], pages, xlock')
  BY <1>7, <1>12, <1>13, OneCall
<1>15. Respects(p)
  <2>1. pages[r].type # "new"
    <3>1. hs[n].blk \in Blocks BY <1>2 DEF hs, f, n
    <3>2. pages[hs[n].blk].follow /\ r # NoBlock BY <1>1, <1>10, BlocksAssumption
    <3> QED BY <1>9, <3>1, <3>2 DEF IInv, GoodPages, GoodPage
  <2> QED BY <1>1, <2>1, LockRespects
<1>16. pc'[p] \in {"fixchain", "finish"} BY <1>1 DEF Proceed, IInv, TypeOK
<1>17. UsedFrames(stack'[p], pages) /\ \A w \in bfs'[p] : UsedFrames(w, pages)
  BY <1>1, <1>3 DEF ProcStruct
<1> QED BY <1>1, <1>14, <1>15, <1>16, <1>17, FixChainOK, SplittingStruct DEF Splitting

\* The calls of p stay in order when the innermost one takes or leaves the lock of
\* its parent, and when the stack below the pages of the calls changes.
LEMMA CallsKeep ==
  ASSUME IInv, StructInv, NEW p \in Inserters, pc[p] \in {"finish", "findpath"},
         NEW label, label # "fixchain",
         NEW gs, Len(gs) = Len(fin[p]), \A k \in 2..Len(fin[p]) : gs[k] = fin[p][k],
         gs[1].up = fin[p][1].up, gs[1].halves = fin[p][1].halves,
         gs[1].unlock = fin[p][1].unlock,
         NEW st, Len(st) \in Nat,
         \A j \in 0..fin[p][1].up : st[Len(st) - j].blk = stack[p][Depth(p) - j].blk,
         NEW xl, \A x \in Blocks :
                   xlock[x] = p /\ (fin[p][1].locked => x # ParentBlk(p)) => xl[x] = p,
         gs[1].locked => xl[ParentOf(gs[1], st)] = p /\ xlock[ParentOf(gs[1], st)] # p
  PROVE  SplitsOK(p, gs, label = "fixchain", st, pages, xl)
<1> DEFINE fs == fin[p]
           n == Len(fs)
           f == fs[1]
           old == stack[p]
<1>1. n \in Nat /\ n >= 1 /\ 1 \in 1..n /\ fs \in Seq(Call) BY CallFacts DEF Splitting
<1>2. ASSUME NEW k \in 1..n
      PROVE  /\ fs[k].up \in Nat /\ Len(old) \in Nat /\ Len(fs[k].halves) \in Nat
             /\ Len(fs[k].halves) >= 1
             /\ \A i \in 1..Len(fs[k].halves) : fs[k].halves[i].blk \in Blocks
             /\ ParentOf(fs[k], old) \in Blocks
  BY CallBlocks
<1>3. ASSUME NEW k \in 1..n
      PROVE  HalvesChained(fs[k], pc[p] = "fixchain", pages) /\ CallLocks(fs[k], p, old, xlock)
  BY DEF StructInv, ProcStruct, SplitsOK
<1>4. \A j, k \in 1..n : j < k => Apart(fs[j], fs[k], old)
  BY DEF StructInv, ProcStruct, SplitsOK
<1>5. ParentBlk(p) = ParentOf(f, old) BY DEF ParentBlk, ParentIx, ChildIx, ParentOf, Depth
<1>6. \A x \in Blocks : xlock[x] = p /\ (f.locked => x # ParentOf(f, old)) => xl[x] = p
  BY <1>5
<1>7. /\ gs[1].up = f.up /\ gs[1].halves = f.halves /\ gs[1].unlock = f.unlock
      /\ Len(gs) = n /\ \A k \in 2..n : gs[k] = fs[k]
      /\ \A j \in 0..f.up : st[Len(st) - j].blk = old[Len(old) - j].blk
  BY DEF Depth
<1>8. f.up \in Nat /\ Len(old) \in Nat BY <1>1, <1>2
<1> HIDE DEF fs, n, old
<1>9. \A k \in 2..n : k \in 1..n /\ 1 < k BY <1>1
<1>10. ASSUME NEW k \in 2..n
       PROVE  /\ Apart(f, fs[k], old) /\ fs[k].up \in Nat /\ fs[k].up < f.up
              /\ ParentOf(fs[k], st) = ParentOf(fs[k], old)
              /\ st[Len(st) - fs[k].up].blk = old[Len(old) - fs[k].up].blk
  <2>1. Apart(f, fs[k], old) /\ fs[k].up \in Nat BY <1>1, <1>2, <1>4, <1>9
  <2>2. fs[k].up < f.up BY <2>1 DEF Apart
  <2> DEFINE u == fs[k].up
  <2>3. u \in 0..f.up /\ u + 1 \in 0..f.up BY <2>1, <2>2, <1>8
  <2>4. Len(st) - u - 1 = Len(st) - (u + 1) /\ Len(old) - u - 1 = Len(old) - (u + 1)
    <3>1. \A x, y \in Int : x - y - 1 = x - (y + 1) OBVIOUS
    <3>2. u \in Int /\ Len(st) \in Int /\ Len(old) \in Int BY <2>1, <1>8
    <3> QED BY <3>1, <3>2
  <2> HIDE DEF u
  <2>5. /\ st[Len(st) - u].blk = old[Len(old) - u].blk
        /\ st[Len(st) - u - 1].blk = old[Len(old) - u - 1].blk
    BY <2>3, <2>4, <1>7
  <2> QED BY <2>1, <2>2, <2>5 DEF u, ParentOf
<1>11. ASSUME NEW k \in 1..n PROVE HalvesChained(fs[k], label = "fixchain", pages)
  <2>1. (pc[p] = "fixchain") = (label = "fixchain") OBVIOUS
  <2> QED BY <2>1, <1>3 DEF HalvesChained
<1>12. HalvesChained(gs[1], label = "fixchain", pages)
  <2>1. HalvesChained(f, label = "fixchain", pages) BY <1>1, <1>11
  <2>2. gs[1].halves = f.halves BY <1>7
  <2> HIDE DEF f
  <2> QED BY <2>1, <2>2 DEF HalvesChained
<1>13. ASSUME NEW k \in 2..n PROVE CallLocks(fs[k], p, st, xl)
  <2> DEFINE g == fs[k]
  <2>1. /\ CallLocks(g, p, old, xlock) /\ ParentOf(g, old) \in Blocks
        /\ \A i \in 1..Len(g.halves) : g.halves[i].blk \in Blocks
    BY <1>2, <1>3, <1>9
  <2>2. /\ Apart(f, g, old) /\ ParentOf(g, st) = ParentOf(g, old)
        /\ st[Len(st) - g.up].blk = old[Len(old) - g.up].blk
    BY <1>10
  <2> HIDE DEF g, f
  <2>3. \A i \in 1..Len(g.halves) : f.locked => g.halves[i].blk # ParentOf(f, old)
    BY <2>2 DEF Apart, BlocksOf
  <2>4. \A i \in 1..Len(g.halves) : xl[g.halves[i].blk] = p
    BY <2>1, <2>3, <1>6 DEF CallLocks
  <2>5. g.locked => xl[ParentOf(g, st)] = p BY <2>1, <2>2, <1>6 DEF CallLocks, Apart
  <2> QED BY <2>1, <2>2, <2>4, <2>5 DEF CallLocks, g
<1>14. CallLocks(f, p, old, xlock) /\ \A i \in 1..Len(f.halves) : f.halves[i].blk \in Blocks
  BY <1>1, <1>2, <1>3
<1>15. BlocksOf(gs[1]) = BlocksOf(f) BY <1>7 DEF BlocksOf
<1>16. CallLocks(gs[1], p, st, xl)
  <2> HIDE DEF f
  <2>1. gs[1].halves[1].blk = st[Len(st) - gs[1].up].blk
    <3>1. f.up \in 0..f.up BY <1>8
    <3> QED BY <3>1, <1>7, <1>14 DEF CallLocks
  <2>2. \A i \in 1..Len(f.halves) : f.locked => f.halves[i].blk # ParentOf(f, old)
    BY <1>14 DEF CallLocks, BlocksOf
  <2>3. \A i \in 1..Len(f.halves) : xl[f.halves[i].blk] = p
    BY <2>2, <1>6, <1>14 DEF CallLocks
  <2>4. \A b \in BlocksOf(f) : xlock[b] = p BY <1>14 DEF CallLocks, BlocksOf
  <2> QED BY <2>1, <2>3, <2>4, <1>7, <1>15 DEF CallLocks
<1>17. ASSUME NEW k \in 2..n PROVE Apart(gs[1], fs[k], st)
  <2> DEFINE g == fs[k]
  <2>1. CallLocks(g, p, old, xlock) BY <1>3, <1>9
  <2>2. Apart(f, g, old) /\ ParentOf(g, st) = ParentOf(g, old) BY <1>10
  <2> HIDE DEF g, f
  <2>3. \A b \in BlocksOf(g) : xlock[b] = p BY <2>1 DEF CallLocks, BlocksOf
  <2>4. xlock[ParentOf(g, old)] = p BY <2>1, <2>2 DEF CallLocks, Apart
  <2>5. Apart(gs[1], g, st) BY <2>2, <2>3, <2>4, <1>7, <1>15 DEF Apart
  <2> QED BY <2>5 DEF g
<1>18. ASSUME NEW j \in 2..n, NEW k \in 2..n, j < k PROVE Apart(fs[j], fs[k], st)
  <2>1. Apart(fs[j], fs[k], old) BY <1>4, <1>9, <1>18
  <2>2. ParentOf(fs[j], st) = ParentOf(fs[j], old) /\ ParentOf(fs[k], st) = ParentOf(fs[k], old)
    BY <1>10
  <2> QED BY <2>1, <2>2 DEF Apart
<1> HIDE DEF f
<1>19. \A k \in 1..n : k = 1 \/ k \in 2..n BY <1>1
<1>20. ASSUME NEW k \in 1..n
       PROVE  HalvesChained(gs[k], label = "fixchain", pages) /\ CallLocks(gs[k], p, st, xl)
  BY <1>7, <1>11, <1>12, <1>13, <1>16, <1>19
<1>21. ASSUME NEW j \in 1..n, NEW k \in 1..n, j < k PROVE Apart(gs[j], gs[k], st)
  <2>1. k \in 2..n /\ j \in 1..n BY <1>21
  <2> QED BY <2>1, <1>7, <1>17, <1>18, <1>19, <1>21
<1> QED BY <1>7, <1>20, <1>21 DEF SplitsOK

\* mgistfinishsplit locks the parent, if the downlink is still there.
LEMMA FinishLockStruct ==
  ASSUME IInv, StructInv, NEW p \in Inserters, FinishLock(p) PROVE StructInv' /\ Logged
<1> DEFINE f == fin[p][1]
           g == [f EXCEPT !.locked = TRUE]
           par == ParentBlk(p)
<1>1. /\ pc[p] = "finish" /\ ~f.locked /\ xlock[par] = NoProc /\ xlock' = Locked(p, {par})
      /\ fin' = [fin EXCEPT ![p][1].locked = TRUE] /\ UNCHANGED <<pages, pc, stack, bfs>>
  BY DEF FinishLock, Finishing, Free
<1>2. /\ f \in Call /\ fin[p] \in Seq(Call) /\ Len(fin[p]) \in Nat /\ Len(fin[p]) >= 1
      /\ par \in Blocks /\ stack[p] \in Seq(Frame) /\ Depth(p) \in Nat
      /\ ParentIx(p) \in 1..Depth(p)
  BY <1>1, CallFacts DEF Splitting
<1>3. fin'[p] = [fin[p] EXCEPT ![1] = g] BY <1>1 DEF IInv, TypeOK
<1>4. g.up = f.up /\ g.halves = f.halves /\ g.unlock = f.unlock /\ g.locked = TRUE
  BY <1>2 DEF Call
<1> HIDE DEF g
<1>5. /\ Len(fin'[p]) = Len(fin[p]) /\ fin'[p][1] = g
      /\ \A k \in 2..Len(fin[p]) : fin'[p][k] = fin[p][k]
  BY <1>2, <1>3
<1>6. stack'[p] = stack[p] /\ pc'[p] = "finish" BY <1>1
<1>7. xlock'[par] = p /\ \A x \in Blocks : xlock[x] = p => xlock'[x] = p
  BY <1>1, <1>2 DEF Locked
<1>8. ParentOf(g, stack'[p]) = par
  BY <1>4, <1>6 DEF ParentOf, ParentBlk, ParentIx, ChildIx, Depth
<1>9. xlock[par] # p BY <1>1, ProcAssumption
<1> DEFINE gs == fin'[p]
           st == stack'[p]
           xl == xlock'
           label == pc'[p]
<1>10. SplitsOK(p, gs, label = "fixchain", st, pages, xl)
  <2>1. Len(st) \in Nat /\ Len(st) = Depth(p) BY <1>2, <1>6 DEF Depth
  <2>2. \A j \in 0..fin[p][1].up : st[Len(st) - j].blk = stack[p][Depth(p) - j].blk
    BY <2>1, <1>6
  <2>3. label # "fixchain" BY <1>6
  <2>4. gs[1].up = f.up /\ gs[1].halves = f.halves /\ gs[1].unlock = f.unlock
    BY <1>4, <1>5
  <2>5. xl[ParentOf(gs[1], st)] = p /\ xlock[ParentOf(gs[1], st)] # p
    BY <1>5, <1>7, <1>8, <1>9
  <2>6. Len(gs) = Len(fin[p]) /\ \A k \in 2..Len(fin[p]) : gs[k] = fin[p][k] BY <1>5
  <2>7. \A x \in Blocks : xlock[x] = p => xl[x] = p BY <1>7
  <2> HIDE DEF gs, st, xl, label, f, par
  <2> QED BY <1>1, <2>1, <2>2, <2>3, <2>4, <2>5, <2>6, <2>7, CallsKeep DEF f
<1>11. Respects(p)
  <2>1. pages[par].type # "new"
    BY <1>2 DEF StructInv, ProcStruct, UsedFrames, ParentBlk, Depth
  <2> QED BY <1>1, <2>1, LockRespects
<1>12. UsedFrames(stack'[p], pages) /\ \A w \in bfs'[p] : UsedFrames(w, pages)
  BY <1>1 DEF StructInv, ProcStruct
<1> QED BY <1>1, <1>6, <1>10, <1>11, <1>12, FinishLockOK, SplittingStruct DEF Splitting

\* The downlink moved right: the parent on the stack follows it.
LEMMA FinishMoveRightStruct ==
  ASSUME IInv, StructInv, NEW p \in Inserters, FinishMoveRight(p)
  PROVE  StructInv' /\ Logged
<1> DEFINE f == fin[p][1]
           g == [f EXCEPT !.locked = FALSE]
           par == ParentBlk(p)
           next == pages[par].right
<1>1. /\ pc[p] = "finish" /\ f.locked /\ xlock' = Unlocked({par})
      /\ fin' = [fin EXCEPT ![p][1].locked = FALSE] /\ UNCHANGED pages
      /\ \/ /\ next # NoBlock
            /\ stack' = [stack EXCEPT ![p][ParentIx(p)].blk = next]
            /\ UNCHANGED <<pc, bfs>>
         \/ /\ Proceed(p, "findpath")
            /\ bfs' = [bfs EXCEPT ![p] = {<<NewFrame(Root)>>}]
            /\ UNCHANGED stack
  BY DEF FinishMoveRight, Finishing
<1>2. /\ f \in Call /\ fin[p] \in Seq(Call) /\ Len(fin[p]) \in Nat /\ Len(fin[p]) >= 1
      /\ par \in Blocks /\ stack[p] \in Seq(Frame) /\ Depth(p) \in Nat /\ f.up \in Nat
      /\ ParentIx(p) \in 1..Depth(p) /\ ParentIx(p) + 1 = ChildIx(p)
  BY <1>1, CallFacts DEF Splitting
<1>3. fin'[p] = [fin[p] EXCEPT ![1] = g] BY <1>1 DEF IInv, TypeOK
<1>4. g.up = f.up /\ g.halves = f.halves /\ g.unlock = f.unlock /\ g.locked = FALSE
  BY <1>2 DEF Call
<1> HIDE DEF g
<1>5. /\ Len(fin'[p]) = Len(fin[p]) /\ fin'[p][1] = g
      /\ \A k \in 2..Len(fin[p]) : fin'[p][k] = fin[p][k]
  BY <1>2, <1>3
<1>6. pc'[p] \in {"finish", "findpath"} /\ (pc'[p] = "findpath" => ~fin'[p][1].locked)
  BY <1>1, <1>4, <1>5 DEF Proceed, IInv, TypeOK
<1>7. /\ Len(stack'[p]) = Depth(p)
      /\ \A i \in 1..Depth(p) : i # ParentIx(p) => stack'[p][i] = stack[p][i]
      /\ \/ stack'[p] = stack[p]
         \/ stack'[p][ParentIx(p)].blk = next /\ next # NoBlock
  <2>1. CASE stack' = stack BY <2>1 DEF Depth
  <2>2. CASE next # NoBlock /\ stack' = [stack EXCEPT ![p][ParentIx(p)].blk = next]
    <3> DEFINE i == ParentIx(p)
               h == [stack[p][i] EXCEPT !.blk = next]
    <3>1. stack'[p] = [stack[p] EXCEPT ![i] = h] BY <2>2 DEF IInv, TypeOK
    <3>2. stack[p][i] \in Frame BY <1>2 DEF Depth
    <3>3. h.blk = next BY <3>2 DEF Frame
    <3> HIDE DEF h, i, next
    <3>4. i \in 1..Len(stack[p]) BY <1>2 DEF i, Depth
    <3> QED BY <1>2, <2>2, <3>1, <3>3, <3>4 DEF Depth, i
  <2> QED BY <1>1, <2>1, <2>2
<1>8. UsedFrames(stack'[p], pages)
  <2>1. /\ \A i \in 1..Depth(p) : pages[stack[p][i].blk].type # "new"
        /\ \A i \in 1..Depth(p) - 1 : pages[stack[p][i].blk].type = "inner"
    BY DEF StructInv, ProcStruct, UsedFrames, Depth
  <2>2. ParentIx(p) \in 1..Depth(p) - 1 BY <1>2, CallFacts, <1>1 DEF ChildIx, Splitting
  <2>3. pages[par].type = "inner" BY <2>1, <2>2 DEF ParentBlk
  <2>4. next # NoBlock => pages[next].type = "inner" BY <1>2, <2>3 DEF IInv, GoodPages
  <2>5. \A i \in 1..Depth(p) - 1 : i \in 1..Depth(p) BY <1>2
  <2> HIDE DEF next, par
  <2>6. \A i \in 1..Depth(p) : pages[stack'[p][i].blk].type # "new"
    BY <1>7, <2>1, <2>4
  <2>7. \A i \in 1..Depth(p) - 1 : pages[stack'[p][i].blk].type = "inner"
    BY <1>7, <2>1, <2>4, <2>5
  <2> QED BY <1>7, <2>6, <2>7 DEF UsedFrames
<1>9. \A w \in bfs'[p] : UsedFrames(w, pages)
  <2>1. CASE bfs' = bfs BY <2>1 DEF StructInv, ProcStruct
  <2>2. CASE bfs' = [bfs EXCEPT ![p] = {<<NewFrame(Root)>>}]
    <3>1. bfs'[p] = {<<NewFrame(Root)>>} BY <2>2 DEF IInv, TypeOK
    <3>2. UsedFrames(<<NewFrame(Root)>>, pages) BY RootUsed DEF IInv
    <3> QED BY <3>1, <3>2
  <2> QED BY <1>1, <2>1, <2>2
<1>10. \A x \in Blocks : xlock[x] = p /\ x # par => xlock'[x] = p
  BY <1>1 DEF Unlocked
<1> DEFINE gs == fin'[p]
           st == stack'[p]
           xl == xlock'
           label == pc'[p]
<1>11. SplitsOK(p, gs, label = "fixchain", st, pages, xl)
  <2>1. Len(st) \in Nat /\ Len(st) = Depth(p) BY <1>2, <1>7
  <2>2. \A j \in 0..f.up : st[Len(st) - j].blk = stack[p][Depth(p) - j].blk
    <3> SUFFICES ASSUME NEW j \in 0..f.up
                 PROVE  st[Depth(p) - j].blk = stack[p][Depth(p) - j].blk
      BY <2>1
    <3>1. ParentIx(p) = Depth(p) - f.up - 1 BY DEF ParentIx, ChildIx
    <3> HIDE DEF f, st
    <3>2. Depth(p) - j \in 1..Depth(p) /\ Depth(p) - j # ParentIx(p) BY <1>2, <3>1
    <3> QED BY <3>2, <1>7 DEF st
  <2>3. label # "fixchain" BY <1>6
  <2>4. gs[1].up = f.up /\ gs[1].halves = f.halves /\ gs[1].unlock = f.unlock /\ ~gs[1].locked
    BY <1>4, <1>5
  <2>5. Len(gs) = Len(fin[p]) /\ \A k \in 2..Len(fin[p]) : gs[k] = fin[p][k] BY <1>5
  <2>6. \A x \in Blocks : xlock[x] = p /\ (f.locked => x # ParentBlk(p)) => xl[x] = p
    BY <1>1, <1>10
  <2> HIDE DEF gs, st, xl, label, par
  <2> QED BY <1>1, <2>1, <2>2, <2>3, <2>4, <2>5, <2>6, CallsKeep
<1>12. Respects(p)
  <2>1. xlock[par] = p
    <3>1. CallLocks(f, p, stack[p], xlock)
      <4>1. 1 \in 1..Len(fin[p]) BY <1>2
      <4> QED BY <4>1 DEF StructInv, ProcStruct, SplitsOK
    <3> QED BY <1>1, <3>1 DEF CallLocks, ParentOf, ParentBlk, ParentIx, ChildIx, Depth
  <2>2. \A x \in Blocks : xlock'[x] = IF x = par THEN NoProc ELSE xlock[x]
    BY <1>1 DEF Unlocked
  <2> QED BY <2>1, <2>2 DEF Respects
<1> QED BY <1>1, <1>6, <1>8, <1>9, <1>11, <1>12, FinishMoveRightOK, SplittingStruct DEF Splitting

\* The paths of gistFindPath hold pages in use.
LEMMA PathUsed ==
  ASSUME IInv, StructInv, NEW w, GoodStack(w, lsn), UsedFrames(w, pages),
         pages[w[Len(w)].blk].type = "inner"
  PROVE  /\ Seen(w) \in Seq(Frame) /\ Len(Seen(w)) = Len(w) /\ UsedFrames(Seen(w), pages)
         /\ \A c \in Blocks : pages[c].type # "new" =>
              UsedFrames(Append(Seen(w), NewFrame(c)), pages)
         /\ \A u \in MissedRight(w) : UsedFrames(u, pages)
         /\ w[Len(w)].blk \in Blocks
<1>1. w \in Seq(Frame) /\ Len(w) \in Nat /\ Len(w) >= 1 BY DEF GoodStack, Anchored
<1>2. Len(w) \in 1..Len(w) BY <1>1
<1>3. Seen(w) \in Seq(Frame) /\ Len(Seen(w)) = Len(w)
  BY SeenPath DEF IInv, GoodStack, Anchored
<1>4. w[Len(w)] \in Frame BY <1>1, <1>2
<1>5. \A i \in 1..Len(w) : Seen(w)[i].blk = w[i].blk
  <2> TAKE i \in 1..Len(w)
  <2>1. Seen(w)[i] = IF i = Len(w) THEN [w[Len(w)] EXCEPT !.lsn = pages[w[Len(w)].blk].lsn]
                     ELSE w[i]
    BY <1>1 DEF Seen
  <2> QED BY <2>1, <1>4 DEF Frame
<1>6. UsedFrames(Seen(w), pages) BY <1>3, <1>5 DEF UsedFrames
<1>10. \A i \in 1..Len(w) : pages[w[i].blk].type = "inner"
  <2> TAKE i \in 1..Len(w)
  <2>1. i \in 1..Len(w) - 1 \/ i = Len(w) BY <1>1
  <2> QED BY <2>1 DEF UsedFrames
<1>7. ASSUME NEW v \in Seq(Frame), \A i \in 1..Len(v) : pages[v[i].blk].type = "inner",
             NEW c \in Blocks, pages[c].type # "new"
      PROVE  UsedFrames(Append(v, NewFrame(c)), pages)
  <2> DEFINE st == Append(v, NewFrame(c))
  <2>1. NewFrame(c) \in Frame /\ NewFrame(c).blk = c BY NewFrameType
  <2>2. /\ Len(v) \in Nat /\ Len(st) = Len(v) + 1 /\ \A i \in 1..Len(v) : st[i] = v[i]
        /\ st[Len(v) + 1] = NewFrame(c)
    BY <2>1, <1>7, AppendProperties
  <2> HIDE DEF st
  <2>3. UsedFrames(st, pages)
    <3>1. \A i \in 1..Len(v) : pages[st[i].blk].type = "inner" BY <2>2, <1>7
    <3>2. pages[st[Len(v) + 1].blk].type # "new" BY <2>1, <2>2, <1>7
    <3>3. /\ \A i \in 1..Len(st) : i \in 1..Len(v) \/ i = Len(v) + 1
          /\ \A i \in 1..Len(st) - 1 : i \in 1..Len(v)
      BY <2>2
    <3> QED BY <3>1, <3>2, <3>3 DEF UsedFrames
  <2> QED BY <2>3 DEF st
<1>8. ASSUME NEW u \in MissedRight(w) PROVE UsedFrames(u, pages)
  <2> DEFINE r == pages[w[Len(w)].blk].right
             v == SubSeq(w, 1, Len(w) - 1)
  <2>1. u = Append(v, NewFrame(r)) /\ r # NoBlock /\ Len(w) > 1 BY DEF MissedRight
  <2>2. r \in Blocks /\ pages[r].type # "new"
    <3>1. w[Len(w)].blk \in Blocks BY <1>4 DEF Frame
    <3>2. pages[w[Len(w)].blk].right \in Blocks \cup {NoBlock} BY <3>1 DEF IInv, TypeOK, Page
    <3> QED BY <2>1, <3>1, <3>2 DEF IInv, GoodPages
  <2>3. v \in Seq(Frame) /\ Len(v) = Len(w) - 1 /\ \A i \in 1..Len(v) : v[i] = w[i]
    BY <1>1, <2>1, SubSeqProperties
  <2> HIDE DEF v, r
  <2>4. \A i \in 1..Len(v) : i \in 1..Len(w) BY <2>3, <1>1
  <2>5. \A i \in 1..Len(v) : pages[v[i].blk].type = "inner" BY <2>3, <2>4, <1>10
  <2> QED BY <2>1, <2>2, <2>3, <2>5, <1>7
<1>9. w[Len(w)].blk \in Blocks BY <1>4 DEF Frame
<1>11. \A i \in 1..Len(Seen(w)) : pages[Seen(w)[i].blk].type = "inner" BY <1>3, <1>5, <1>10
<1> QED BY <1>3, <1>6, <1>7, <1>8, <1>9, <1>11

\* Two paths, one after the other.
LEMMA PathsJoined ==
  ASSUME NEW s \in Seq(Frame), NEW t \in Seq(Frame), NEW u, u = s \o t
  PROVE  u \in Seq(Frame) /\ Len(u) = Len(s) + Len(t)
BY ConcatProperties

\* The halves of call f and the page par that is to get their downlinks, all locked
\* by p.
LockedHalves(f, p, par) ==
  LET n == Len(f.halves)
      h == f.halves
  IN /\ n \in Nat /\ n >= 2 /\ par \in Blocks /\ par = ParentOf(f, stack[p])
     /\ \A i \in 1..n : h[i].blk \in Blocks \ {Root} /\ pages[h[i].blk].type # "new"
                        /\ h[i].blk # par /\ xlock[h[i].blk] = p
     /\ \A i \in 1..n - 1 : pages[h[i].blk].follow /\ pages[h[i].blk].right = h[i + 1].blk
     /\ \A i, j \in 1..n : h[i].blk = h[j].blk => i = j
     /\ ~pages[h[n].blk].follow
     /\ h[1].blk = ChildBlk(p) /\ xlock[par] = p

\* gistFindPath reads one page of its queue.
LEMMA FindPathStepStruct ==
  ASSUME IInv, StructInv, NEW p \in Inserters, FindPathStep(p) PROVE StructInv' /\ Logged
<1>1. PICK w \in NextPaths(p) :
        LET b == w[Len(w)].blk IN
        /\ pages[b].type = "inner"
        /\ IF DownlinksOn(b, ChildBlk(p)) # {}
           THEN /\ stack' = [stack EXCEPT ![p] =
                               Seen(w) \o SubSeq(stack[p], ChildIx(p), Depth(p))]
                /\ bfs' = [bfs EXCEPT ![p] = {}]
                /\ Proceed(p, "finish")
           ELSE /\ bfs' = [bfs EXCEPT ![p] = (@ \ {w}) \cup MissedRight(w)
                             \cup {Append(Seen(w), NewFrame(d.ptr)) : d \in pages[b].items}]
                /\ UNCHANGED <<stack, pc>>
  BY DEF FindPathStep
<1> DEFINE b == w[Len(w)].blk
           f == fin[p][1]
<1>2. pc[p] = "findpath" /\ UNCHANGED <<pages, xlock, fin>> BY DEF FindPathStep, treeVars
<1>3. ProcStruct(p) /\ ~f.locked BY <1>2 DEF StructInv, ProcStruct
<1>4. w \in bfs[p] /\ GoodStack(w, lsn) /\ UsedFrames(w, pages)
  BY <1>3 DEF NextPaths, IInv, ProcOK, ProcStruct
<1>5. /\ Seen(w) \in Seq(Frame) /\ Len(Seen(w)) = Len(w) /\ Len(w) \in Nat
      /\ UsedFrames(Seen(w), pages) /\ b \in Blocks
      /\ Len(w) >= 1 /\ pages[Seen(w)[Len(w)].blk].type = "inner"
  <2>1. /\ Len(w) \in Nat /\ Len(w) >= 1 /\ w \in Seq(Frame)
    BY <1>4 DEF GoodStack, Anchored
  <2>2. Seen(w)[Len(w)] = [w[Len(w)] EXCEPT !.lsn = pages[w[Len(w)].blk].lsn]
        /\ w[Len(w)] \in Frame
    BY <2>1 DEF Seen
  <2>3. Seen(w)[Len(w)].blk = b BY <2>2 DEF Frame
  <2> QED BY <2>1, <2>3, <1>1, <1>4, PathUsed
<1>6. /\ f \in Call /\ fin[p] \in Seq(Call) /\ Len(fin[p]) \in Nat /\ Len(fin[p]) >= 1
      /\ stack[p] \in Seq(Frame) /\ Depth(p) \in Nat /\ f.up \in Nat
      /\ ChildIx(p) \in 1..Depth(p) /\ ChildIx(p) = Depth(p) - f.up
  BY <1>2, CallFacts DEF Splitting, ChildIx
<1> DEFINE tail == SubSeq(stack[p], ChildIx(p), Depth(p))
           gs == fin'[p]
           st == stack'[p]
           xl == xlock'
           label == pc'[p]
<1>7. tail \in Seq(Frame) /\ Len(tail) = f.up + 1
      /\ \A i \in 1..f.up + 1 : tail[i] = stack[p][ChildIx(p) + i - 1]
  <2> DEFINE c == ChildIx(p)
             d == Depth(p)
             s == stack[p]
             u == f.up
  <2>1. /\ c \in Int /\ d \in Int /\ c <= d /\ d - c + 1 = u + 1
        /\ s \in Seq(Frame) /\ Len(s) = d /\ c >= 1
    BY <1>6 DEF Depth
  <2>2. tail = SubSeq(s, c, d) OBVIOUS
  <2> HIDE DEF c, d, s, u, tail
  <2>3. \A i \in c..d : s[i] \in Frame BY <2>1
  <2>4. /\ tail \in Seq(Frame) /\ Len(tail) = d - c + 1
        /\ \A i \in 1..d - c + 1 : tail[i] = s[c + i - 1]
    <3>1. /\ SubSeq(s, c, d) \in Seq(Frame)
          /\ Len(SubSeq(s, c, d)) = IF c <= d THEN d - c + 1 ELSE 0
          /\ \A i \in 1..d - c + 1 : SubSeq(s, c, d)[i] = s[c + i - 1]
      BY <2>1, <2>3, SubSeqProperties
    <3> QED BY <2>1, <2>2, <3>1
  <2>5. /\ tail \in Seq(Frame) /\ Len(tail) = u + 1
        /\ \A i \in 1..u + 1 : tail[i] = s[c + i - 1]
    BY <2>1, <2>4
  <2> QED BY <2>5 DEF c, s, u
<1> HIDE DEF tail
<1>8. UsedFrames(tail, pages)
  <2>1. /\ \A i \in 1..Len(stack[p]) : pages[stack[p][i].blk].type # "new"
        /\ \A i \in 1..Len(stack[p]) - 1 : pages[stack[p][i].blk].type = "inner"
    BY <1>3 DEF ProcStruct, UsedFrames
  <2> DEFINE u == f.up
             c == ChildIx(p)
             d == Len(stack[p])
  <2>2. u \in Nat /\ d \in Nat /\ c \in 1..d /\ c = d - u BY <1>6 DEF Depth
  <2>3. Len(tail) = u + 1 /\ \A i \in 1..u + 1 : tail[i] = stack[p][c + i - 1] BY <1>7
  <2> HIDE DEF u, c, d
  <2>4. /\ \A i \in 1..u + 1 : c + i - 1 \in 1..d
        /\ \A i \in 1..u : c + i - 1 \in 1..d - 1 /\ i \in 1..u + 1
        /\ u + 1 - 1 = u
    BY <2>2
  <2>5. /\ \A i \in 1..u + 1 : pages[tail[i].blk].type # "new"
        /\ \A i \in 1..u : pages[tail[i].blk].type = "inner"
    BY <2>1, <2>3, <2>4 DEF d
  <2>6. Len(tail) - 1 = u /\ Len(tail) = u + 1 BY <2>2, <2>3
  <2>7. /\ \A i \in 1..Len(tail) : pages[tail[i].blk].type # "new"
        /\ \A i \in 1..Len(tail) - 1 : pages[tail[i].blk].type = "inner"
    BY <2>5, <2>6
  <2> QED BY <2>7 DEF UsedFrames
\* Either the path is found, or the search goes on.
<1>9. CASE DownlinksOn(b, ChildBlk(p)) # {}
  <2>1. st = Seen(w) \o tail /\ bfs'[p] = {} /\ label = "finish"
    BY <1>1, <1>9 DEF tail, Proceed, IInv, TypeOK
  <2>2. /\ st \in Seq(Frame) /\ Len(st) = Len(w) + f.up + 1
        /\ \A i \in 1..Len(w) : st[i] = Seen(w)[i]
        /\ \A i \in 1..f.up + 1 : st[Len(w) + i] = tail[i]
    <3> HIDE DEF f, st
    <3>1. st \in Seq(Frame) /\ Len(st) = Len(w) + (f.up + 1)
      <4>1. tail \in Seq(Frame) /\ Len(tail) = f.up + 1 BY <1>7
      <4>2. Seen(w) \in Seq(Frame) /\ Len(Seen(w)) = Len(w) BY <1>5
      <4>3. st = Seen(w) \o tail BY <2>1
      <4>4. st \in Seq(Frame) /\ Len(st) = Len(Seen(w)) + Len(tail)
        BY <4>1, <4>2, <4>3, PathsJoined
      <4> QED BY <4>1, <4>2, <4>4
    <3>2. \A i \in 1..Len(st) : st[i] = IF i <= Len(w) THEN Seen(w)[i] ELSE tail[i - Len(w)]
      BY <1>5, <1>7, <2>1
    <3>3. \A i \in 1..Len(w) : i \in 1..Len(st) /\ i <= Len(w) BY <1>5, <1>6, <3>1
    <3>4. \A i \in 1..f.up + 1 : /\ Len(w) + i \in 1..Len(st) /\ ~(Len(w) + i <= Len(w))
                                 /\ Len(w) + i - Len(w) = i
      BY <1>5, <1>6, <3>1
    <3>5. \A i \in 1..f.up + 1 : st[Len(w) + i] = tail[i] BY <3>2, <3>4
    <3>6. \A i \in 1..Len(w) : st[i] = Seen(w)[i] BY <3>2, <3>3
    <3>7. Len(w) + (f.up + 1) = Len(w) + f.up + 1
      <4>1. \A x, y \in Nat : x + (y + 1) = x + y + 1 OBVIOUS
      <4> QED BY <4>1, <1>5, <1>6
    <3> QED BY <3>1, <3>5, <3>6, <3>7
  <2> HIDE DEF st
  <2>3. UsedFrames(st, pages)
    <3> SUFFICES ASSUME NEW i \in 1..Len(st)
                 PROVE  /\ pages[st[i].blk].type # "new"
                        /\ i \in 1..Len(st) - 1 => pages[st[i].blk].type = "inner"
      <4>1. \A i \in 1..Len(st) - 1 : i \in 1..Len(st) BY <2>2
      <4> QED BY <4>1 DEF UsedFrames
    <3>1. CASE i \in 1..Len(w)
      <4>1. i \in 1..Len(w) - 1 \/ i = Len(w) BY <3>1, <1>5
      <4> QED BY <3>1, <4>1, <2>2, <1>5 DEF UsedFrames
    <3>2. CASE i \notin 1..Len(w)
      <4> DEFINE j == i - Len(w)
      <4>1. j \in 1..f.up + 1 /\ i = Len(w) + j
        <5> HIDE DEF f
        <5> QED BY <3>2, <2>2, <1>5, <1>6
      <4>2. st[i] = tail[j] BY <4>1, <2>2
      <4>3. pages[tail[j].blk].type # "new" BY <4>1, <1>7, <1>8 DEF UsedFrames
      <4>4. ASSUME i \in 1..Len(st) - 1 PROVE pages[tail[j].blk].type = "inner"
        <5>1. j \in 1..Len(tail) - 1
          <6>1. \A k1, k2, k3 \in Nat : k3 = k1 + k2 + 1 =>
                  \A y1 \in 1..k3 - 1 : \A y2 \in 1..k2 + 1 : y1 = k1 + y2 => y2 \in 1..k2
            OBVIOUS
          <6>2. Len(w) \in Nat /\ f.up \in Nat /\ Len(st) = Len(w) + f.up + 1 BY <2>2, <1>5, <1>6
          <6>3. Len(st) \in Nat /\ Len(tail) - 1 = f.up BY <6>2, <1>7
          <6> HIDE DEF f, j
          <6>4. j \in 1..f.up BY <6>1, <6>2, <6>3, <4>1, <4>4
          <6> QED BY <6>3, <6>4
        <5> QED BY <5>1, <1>8 DEF UsedFrames
      <4> QED BY <4>2, <4>3, <4>4
    <3> QED BY <3>1, <3>2
  <2>4. \A j \in 0..f.up : st[Len(st) - j].blk = stack[p][Depth(p) - j].blk
    <3> TAKE j \in 0..f.up
    <3> DEFINE i == f.up + 1 - j
    <3>1. /\ i \in 1..f.up + 1 /\ Len(w) + i = Len(st) - j
          /\ ChildIx(p) + i - 1 = Depth(p) - j
      <4> DEFINE u == f.up
      <4>1. u \in Nat /\ j \in 0..u /\ Len(w) \in Nat /\ Depth(p) \in Nat BY <1>5, <1>6
      <4>2. Len(st) = Len(w) + u + 1 /\ ChildIx(p) = Depth(p) - u BY <2>2, <1>6
      <4> HIDE DEF u
      <4>3. u + 1 - j \in 1..u + 1 BY <4>1
      <4>4. Len(w) + (u + 1 - j) = Len(st) - j BY <4>1, <4>2
      <4>5. ChildIx(p) + (u + 1 - j) - 1 = Depth(p) - j BY <4>1, <4>2
      <4> QED BY <4>3, <4>4, <4>5 DEF u
    <3> HIDE DEF i, f
    <3> QED BY <3>1, <2>2, <1>7
  <2>5. SplitsOK(p, gs, label = "fixchain", st, pages, xl)
    <3>1. gs = fin[p] /\ xl = xlock BY <1>2
    <3>2. label # "fixchain" /\ Len(st) \in Nat
      <4>1. st \in Seq(Frame) BY <2>2
      <4> QED BY <4>1, <2>1
    <3> HIDE DEF gs, xl, label, f
    <3> QED BY <1>2, <1>3, <2>4, <3>1, <3>2, CallsKeep DEF f
  <2>6. Respects(p) BY <1>2, KeepRespects
  <2> QED BY <1>2, <2>1, <2>3, <2>5, <2>6, FindPathStepOK, SplittingStruct DEF Splitting, st
<1>10. CASE ~(DownlinksOn(b, ChildBlk(p)) # {})
  <2>1. /\ bfs'[p] = (bfs[p] \ {w}) \cup MissedRight(w)
                       \cup {Append(Seen(w), NewFrame(d.ptr)) : d \in pages[b].items}
        /\ st = stack[p] /\ label = "findpath"
    BY <1>1, <1>2, <1>10 DEF IInv, TypeOK
  <2>2. \A d \in pages[b].items : d.ptr \in Blocks /\ pages[d.ptr].type # "new"
    BY <1>1, <1>5, LinkUsed DEF InUse
  <2>3. ASSUME NEW v \in bfs'[p] PROVE UsedFrames(v, pages)
    <3>1. CASE v \in bfs[p] BY <3>1, <1>3 DEF ProcStruct
    <3>2. CASE v \in MissedRight(w) BY <3>2, <1>1, <1>4, PathUsed
    <3>3. ASSUME NEW d \in pages[b].items, v = Append(Seen(w), NewFrame(d.ptr))
          PROVE  UsedFrames(v, pages)
      BY <3>3, <2>2, <1>1, <1>4, PathUsed
    <3> QED BY <3>1, <3>2, <3>3, <2>1
  <2>4. UsedFrames(stack'[p], pages) BY <2>1, <1>3 DEF ProcStruct
  <2>5. SplitsOK(p, gs, label = "fixchain", st, pages, xl)
    <3>1. gs = fin[p] /\ xl = xlock BY <1>2
    <3>2. label # "fixchain" /\ Len(st) \in Nat BY <2>1, <1>6 DEF Depth
    <3>3. \A j \in 0..f.up : st[Len(st) - j].blk = stack[p][Depth(p) - j].blk
      BY <2>1 DEF Depth
    <3> HIDE DEF gs, xl, label, f, st
    <3> QED BY <1>2, <1>3, <3>1, <3>2, <3>3, CallsKeep DEF f
  <2>6. Respects(p) BY <1>2, KeepRespects
  <2> QED BY <1>2, <1>3, <2>1, <2>3, <2>4, <2>5, <2>6, FindPathStepOK, SplittingStruct DEF Splitting
<1> QED BY <1>9, <1>10
-----------------------------------------------------------------------------
(***************************************************************************)
(* Giving a half its downlink.                                             *)
(***************************************************************************)
\* What is known of the innermost call when it has locked its parent.
LEMMA LockedCall ==
  ASSUME IInv, StructInv, NEW p \in Inserters, pc[p] = "finish", fin[p][1].locked
  PROVE  LockedHalves(fin[p][1], p, ParentBlk(p))
<1> DEFINE f == fin[p][1]
           n == Len(f.halves)
           h == f.halves
           par == ParentBlk(p)
<1>1. /\ n \in Nat /\ n >= 2 /\ par \in Blocks /\ 1 \in 1..Len(fin[p]) /\ h \in Seq(Half)
      /\ \A i \in 1..n : h[i].blk \in Blocks /\ InUse(h[i].blk, pages)
  BY CallFacts DEF Splitting
<1>2. HalvesChained(f, pc[p] = "fixchain", pages) /\ CallLocks(f, p, stack[p], xlock)
  BY <1>1 DEF StructInv, ProcStruct, SplitsOK
<1>3. par = ParentOf(f, stack[p]) BY DEF ParentBlk, ParentIx, ChildIx, ParentOf, Depth
<1>4. ChildBlk(p) = stack[p][Len(stack[p]) - f.up].blk BY DEF ChildBlk, ChildIx, Depth
<1>5. f.locked OBVIOUS
<1> HIDE DEF f, par
<1>6. /\ \A i \in 1..n - 1 : pages[h[i].blk].follow /\ pages[h[i].blk].right = h[i + 1].blk
      /\ \A i, j \in 1..n : h[i].blk = h[j].blk => i = j
      /\ ~pages[h[n].blk].follow
  BY <1>2 DEF HalvesChained
<1>7. /\ \A i \in 1..n : xlock[h[i].blk] = p
      /\ h[1].blk = ChildBlk(p) /\ xlock[par] = p
      /\ \A i \in 1..n : h[i].blk # par
  BY <1>2, <1>3, <1>4, <1>5 DEF CallLocks, BlocksOf
<1>8. \A i \in 1..n : h[i].blk \in Blocks \ {Root} /\ pages[h[i].blk].type # "new"
  BY <1>1 DEF InUse
<1> HIDE DEF n, h
<1>9. LockedHalves(f, p, par) BY <1>1, <1>3, <1>6, <1>7, <1>8 DEF LockedHalves, n, h
<1> QED BY <1>9 DEF f, par

\* When the write to an inner page is of that kind.
LEMMA WriteLinked ==
  ASSUME NEW b \in Blocks, NEW N, NEW left \in Blocks \ {Root}, NEW new,
         pages[b].type = "inner", ~pages[b].follow, TuplesFor(b, N),
         pages[left].follow, left # b, pages[left].right = new,
         \A d, e \in N : d.ptr = e.ptr => d = e,
         \A d \in N : (\E e \in pages[b].items : e.ptr = d.ptr) \/ d.ptr = new,
         \A e \in pages[b].items : \E d \in N : d.ptr = e.ptr,
         \E d \in N : d.ptr = new,
         \A x \in Blocks : \A d \in LinksOn(pages[x]) : d.ptr = left => x = b, Led(left, b)
  PROVE  WriteOK(b, N, left)
<1>1. left # NoBlock BY BlocksAssumption
<1> QED BY <1>1 DEF WriteOK

\* The pages of a chain but the last are all that lead to one of them when the first
\* of them has its downlink on page b.
LEMMA ChainLed ==
  ASSUME OneWay(pages), NEW b \in Blocks, NEW h, NEW n \in Nat, n >= 2,
         \A i \in 1..n : h[i].blk \in Blocks,
         \A i \in 1..n - 1 : pages[h[i].blk].follow /\ pages[h[i].blk].right = h[i + 1].blk,
         \E d \in LinksOn(pages[b]) : d.ptr = h[1].blk
  PROVE  Led(h[n - 1].blk, b)
<1> DEFINE S == {h[i].blk : i \in 1..n - 1}
<1>1. S \in SUBSET Blocks /\ h[n - 1].blk \in S
  <2>1. n - 1 \in 1..n - 1 /\ \A i \in 1..n - 1 : i \in 1..n OBVIOUS
  <2> QED BY <2>1
<1>2. ASSUME NEW x \in S
      PROVE  /\ pages[x].follow
             /\ \A y \in Blocks : pages[y].follow /\ pages[y].right = x => y \in S
             /\ \A y \in Blocks : \A d \in LinksOn(pages[y]) : d.ptr = x => y = b
  <2>1. PICK i \in 1..n - 1 : x = h[i].blk OBVIOUS
  <2>2. pages[x].follow BY <2>1
  <2>3. CASE i = 1
    <3>1. PICK e \in LinksOn(pages[b]) : e.ptr = x BY <2>1, <2>3
    <3>2. \A y \in Blocks : pages[y].follow => pages[y].right # x BY <3>1 DEF OneWay
    <3>3. \A y \in Blocks : \A d \in LinksOn(pages[y]) : d.ptr = x => y = b BY <3>1 DEF OneWay
    <3> QED BY <2>2, <3>2, <3>3
  <2>4. CASE i # 1
    <3>1. i - 1 \in 1..n - 1 /\ i - 1 + 1 = i /\ i - 1 \in 1..n BY <2>4
    <3>2. /\ pages[h[i - 1].blk].follow /\ pages[h[i - 1].blk].right = x
          /\ h[i - 1].blk \in S /\ h[i - 1].blk \in Blocks
      BY <2>1, <3>1
    <3> HIDE DEF S
    <3>3. \A y \in Blocks : pages[y].follow /\ pages[y].right = x => y = h[i - 1].blk
      BY <3>2 DEF OneWay
    <3>4. \A y \in Blocks : \A d \in LinksOn(pages[y]) : d.ptr # x BY <3>2 DEF OneWay
    <3> QED BY <2>2, <3>2, <3>3, <3>4
  <2> QED BY <2>3, <2>4
<1>3. LedFrom(S, b) BY <1>2 DEF LedFrom
<1> QED BY <1>1, <1>3 DEF Led

\* The write to the parent is of the kind that keeps one way into every page.
LEMMA DownlinkOK ==
  ASSUME IInv, StructInv, NEW p \in Inserters, pc[p] = "finish", fin[p][1].locked,
         DownlinksOn(ParentBlk(p), ChildBlk(p)) # {}, ~pages[ParentBlk(p)].follow
  PROVE  LET f == fin[p][1] IN
         WriteOK(ParentBlk(p), ParentItems(p), f.halves[Len(f.halves) - 1].blk)
<1> DEFINE f == fin[p][1]
           n == Len(f.halves)
           h == f.halves
           b == ParentBlk(p)
           N == ParentItems(p)
           left == h[n - 1].blk
           new == h[n].blk
           own == DownlinksOn(b, ChildBlk(p))
<1>0. ~pages[b].follow OBVIOUS
<1>1. /\ n \in Nat /\ n >= 2 /\ b \in Blocks
      /\ \A i \in 1..n : h[i].blk \in Blocks \ {Root} /\ h[i].blk # b
      /\ \A i \in 1..n - 1 : pages[h[i].blk].follow /\ pages[h[i].blk].right = h[i + 1].blk
      /\ \A i, j \in 1..n : h[i].blk = h[j].blk => i = j
      /\ h[1].blk = ChildBlk(p)
  <2>1. LockedHalves(f, p, b) BY LockedCall
  <2> HIDE DEF f, b
  <2> QED BY <2>1 DEF LockedHalves
<1>2. pages[b].type = "inner" /\ TuplesFor(b, N) BY ParentItemsOK
<1>3. N = IF n > 2 THEN pages[b].items \cup {LinkOf(h[n])}
          ELSE (pages[b].items \ own) \cup {LinkOf(h[1]), LinkOf(h[2])}
  BY DEF ParentItems
<1>4. own = {d \in pages[b].items : d.ptr = ChildBlk(p)} /\ own # {} BY DEF DownlinksOn
<1>5. \A i \in 1..n : LinkOf(h[i]).ptr = h[i].blk BY DEF LinkOf
<1>6. LinksOn(pages[b]) = pages[b].items BY <1>2 DEF LinksOn
<1>7. OneWay(pages) BY DEF StructInv
<1> HIDE DEF f, n, h, b, N, own
<1>8. n - 1 \in 1..n - 1 /\ n - 1 \in 1..n /\ n \in 1..n /\ n - 1 + 1 = n /\ 1 \in 1..n
      /\ n - 1 # n
  BY <1>1
<1>9. pages[left].follow /\ pages[left].right = new /\ new \in Blocks /\ left \in Blocks \ {Root}
      /\ left # b
  BY <1>1, <1>8
<1>10. \A x \in Blocks : \A d \in LinksOn(pages[x]) : d.ptr # new
  BY <1>7, <1>9 DEF OneWay
<1>11. \A d, e \in pages[b].items : d.ptr = e.ptr => d = e
  BY <1>1, <1>6, <1>7 DEF OneWay
<1>12. \A d \in pages[b].items : d.ptr # new BY <1>1, <1>6, <1>10
<1>15. Led(left, b)
  <2>1. \E d \in LinksOn(pages[b]) : d.ptr = h[1].blk BY <1>1, <1>4, <1>6
  <2>2. \A i \in 1..n : h[i].blk \in Blocks BY <1>1
  <2> QED BY <1>1, <1>7, <2>1, <2>2, ChainLed
<1>13. CASE n > 2
  <2>1. N = pages[b].items \cup {LinkOf(h[n])} /\ LinkOf(h[n]).ptr = new
    BY <1>3, <1>5, <1>8, <1>13
  <2>2. \A d, e \in N : d.ptr = e.ptr => d = e BY <2>1, <1>11, <1>12
  <2>3. \A d \in N : (\E e \in pages[b].items : e.ptr = d.ptr) \/ d.ptr = new BY <2>1
  <2>4. \A e \in pages[b].items : \E d \in N : d.ptr = e.ptr BY <2>1
  <2>5. \E d \in N : d.ptr = new BY <2>1
  <2>6. \A x \in Blocks : \A d \in LinksOn(pages[x]) : d.ptr # left
    <3>1. n - 2 \in 1..n - 1 /\ n - 2 + 1 = n - 1 /\ n - 2 \in 1..n BY <1>1, <1>13
    <3>2. /\ pages[h[n - 2].blk].follow /\ pages[h[n - 2].blk].right = left
          /\ h[n - 2].blk \in Blocks
      BY <1>1, <3>1
    <3> QED BY <3>2, <1>7 DEF OneWay
  <2>7. \A x \in Blocks : \A d \in LinksOn(pages[x]) : d.ptr = left => x = b BY <2>6
  <2> HIDE DEF left, new
  <2>8. WriteOK(b, N, left)
    BY <1>0, <1>1, <1>2, <1>9, <1>15, <2>2, <2>3, <2>4, <2>5, <2>7, WriteLinked
  <2> QED BY <2>8 DEF left, f, n, h, b, N
<1>14. CASE n = 2
  <2>1. N = (pages[b].items \ own) \cup {LinkOf(h[1]), LinkOf(h[2])} /\ left = h[1].blk
        /\ new = h[2].blk /\ h[1].blk # h[2].blk /\ LinkOf(h[1]).ptr = left
        /\ LinkOf(h[2]).ptr = new /\ left = ChildBlk(p)
    BY <1>1, <1>3, <1>5, <1>8, <1>14
  <2> HIDE DEF left, new
  <2>2. \A d \in pages[b].items \ own : d.ptr # left /\ d.ptr # new
    BY <2>1, <1>4, <1>12
  <2>3. \A d, e \in N : d.ptr = e.ptr => d = e BY <2>1, <2>2, <1>11
  <2>4. PICK c \in own : TRUE BY <1>4
  <2>5. c \in pages[b].items /\ c.ptr = left BY <2>1, <2>4, <1>4
  <2>6. \A d \in N : (\E e \in pages[b].items : e.ptr = d.ptr) \/ d.ptr = new
    BY <2>1, <2>5
  <2>7. \A e \in pages[b].items : \E d \in N : d.ptr = e.ptr BY <2>1, <1>4
  <2>8. \E d \in N : d.ptr = new BY <2>1
  <2>9. \A x \in Blocks : \A d \in LinksOn(pages[x]) : d.ptr = left => x = b
    BY <2>5, <1>1, <1>6, <1>7 DEF OneWay
  <2>10. WriteOK(b, N, left)
    BY <1>0, <1>1, <1>2, <1>9, <1>15, <2>3, <2>6, <2>7, <2>8, <2>9, WriteLinked
  <2> QED BY <2>10 DEF left, f, n, h, b, N
<1> QED BY <1>1, <1>13, <1>14
\* The calls that are left: the innermost has lost its rightmost half, or is over.
LEMMA RemainingFacts ==
  ASSUME IInv, NEW p \in Inserters, pc[p] = "finish"
  PROVE  LET f == fin[p][1]
             n == Len(f.halves)
             fs == Remaining(p)
         IN /\ Len(fin[p]) \in Nat /\ Len(fin[p]) >= 1 /\ n \in Nat /\ n >= 2
            /\ n > 2 => /\ Len(fs) = Len(fin[p])
                        /\ fs[1].up = f.up /\ fs[1].unlock = f.unlock /\ fs[1].locked = f.locked
                        /\ Len(fs[1].halves) = n - 1
                        /\ \A i \in 1..n - 1 : fs[1].halves[i] = f.halves[i]
                        /\ \A k \in 2..Len(fin[p]) : fs[k] = fin[p][k]
            /\ n = 2 => /\ Len(fs) = Len(fin[p]) - 1
                        /\ \A k \in 1..Len(fin[p]) - 1 : fs[k] = fin[p][k + 1]
<1> DEFINE f == fin[p][1]
           n == Len(f.halves)
           m == Len(fin[p])
           g == [f EXCEPT !.halves = SubSeq(@, 1, n - 1)]
           rest == Tail(fin[p])
           fs == Remaining(p)
<1>1. /\ fin[p] \in Seq(Call) /\ m \in Nat /\ m >= 1 /\ n \in Nat /\ n >= 2
      /\ f \in Call /\ f.halves \in Seq(Half)
  BY CallFacts DEF Splitting
<1>2. rest \in Seq(Call) /\ Len(rest) = m - 1 /\ \A k \in 1..m - 1 : rest[k] = fin[p][k + 1]
  BY <1>1
<1>3. fs = IF n > 2 THEN <<g>> \o rest ELSE rest BY DEF Remaining
<1>4. \A h \in 1..n : f.halves[h] \in Half BY <1>1
<1> HIDE DEF f, rest, m, fs
<1>5. CASE n > 2
  <2>1. \A h \in 1..n - 1 : f.halves[h] \in Half BY <1>1, <1>4
  <2>2. /\ SubSeq(f.halves, 1, n - 1) \in Seq(Half) /\ Len(SubSeq(f.halves, 1, n - 1)) = n - 1
        /\ \A h \in 1..n - 1 : SubSeq(f.halves, 1, n - 1)[h] = f.halves[h]
    BY <1>1, <1>5, <2>1, SubSeqProperties
  <2>3. /\ g \in Call /\ g.up = f.up /\ g.halves = SubSeq(f.halves, 1, n - 1)
        /\ g.unlock = f.unlock /\ g.locked = f.locked
    BY <1>1, <2>2 DEF Call
  <2> HIDE DEF g
  <2>4. <<g>> \in Seq(Call) /\ Len(<<g>>) = 1 /\ <<g>>[1] = g BY <2>3
  <2>5. /\ Len(fs) = 1 + Len(rest)
        /\ \A i \in 1..1 + Len(rest) : fs[i] = IF i <= 1 THEN <<g>>[i] ELSE rest[i - 1]
    <3>1. fs = <<g>> \o rest BY <1>3, <1>5
    <3> HIDE DEF n
    <3> QED BY <3>1, <1>2, <2>4, ConcatProperties
  <2>6. Len(fs) = m BY <1>1, <1>2, <2>5
  <2>7. fs[1] = g BY <1>1, <1>2, <2>4, <2>5
  <2>8. \A k \in 2..m : fs[k] = fin[p][k]
    <3> TAKE k \in 2..m
    <3>1. k \in 1..1 + Len(rest) /\ ~(k <= 1) /\ k - 1 \in 1..m - 1 /\ k - 1 + 1 = k
      BY <1>1, <1>2
    <3> QED BY <3>1, <1>2, <2>5
  <2>9. Len(fs[1].halves) = n - 1 /\ \A i \in 1..n - 1 : fs[1].halves[i] = f.halves[i]
    BY <2>2, <2>3, <2>7
  <2>10. /\ Len(fs) = m /\ fs[1].up = f.up /\ fs[1].unlock = f.unlock
         /\ fs[1].locked = f.locked
    BY <2>3, <2>6, <2>7
  <2>11. m \in Nat /\ m >= 1 /\ n \in Nat /\ n >= 2 BY <1>1
  <2> HIDE DEF n
  <2>12. n # 2 BY <1>5, <2>11
  <2> QED BY <2>12, <2>8, <2>9, <2>10, <2>11 DEF f, m, fs, n
<1>6. CASE n = 2
  <2>1. fs = rest BY <1>3, <1>6
  <2> QED BY <1>1, <1>2, <1>6, <2>1 DEF f, m, fs
<1> QED BY <1>1, <1>5, <1>6 DEF f, m, fs

\* The half that loses F_FOLLOW_RIGHT with the downlink of the rightmost one.
LeftOf(f) == f.halves[Len(f.halves) - 1].blk

\* The calls that are left are in order when the insertion leaves alone the pages
\* they have locked, but for the half that is the last one from here on.
LEMMA RemainingKeeps ==
  ASSUME IInv, StructInv, NEW p \in Inserters, pc[p] = "finish", fin[p][1].locked,
         NEW pgs, \A x \in Blocks : pages[x].type # "new" /\ x # ParentBlk(p)
                                    /\ x # LeftOf(fin[p][1]) => pgs[x] = pages[x],
         ~pgs[LeftOf(fin[p][1])].follow, pgs[LeftOf(fin[p][1])].follow \in BOOLEAN,
         NEW st, Len(st) = Depth(p), \A i \in 1..Depth(p) : st[i].blk = stack[p][i].blk,
         NEW xl, \A x \in Blocks :
                   /\ xlock[x] = p /\ x \notin LetGo(fin[p][1])
                   /\ Len(fin[p][1].halves) = 2 => x # ParentBlk(p)
                   => xl[x] = p,
         NEW label, label # "fixchain"
  PROVE  SplitsOK(p, Remaining(p), label = "fixchain", st, pgs, xl)
<1> DEFINE fs == fin[p]
           m == Len(fs)
           f == fs[1]
           old == stack[p]
           gs == Remaining(p)
           fixing == (label = "fixchain")
           par == ParentBlk(p)
           n == Len(f.halves)
           left == LeftOf(f)
<1>1. m \in Nat /\ m >= 1 /\ 1 \in 1..m /\ n \in Nat /\ n >= 2 BY RemainingFacts
<1>2. ASSUME NEW k \in 1..m
      PROVE  /\ fs[k].up \in Nat /\ Len(fs[k].halves) \in Nat /\ Len(fs[k].halves) >= 1
             /\ \A i \in 1..Len(fs[k].halves) : /\ fs[k].halves[i].blk \in Blocks
                                                /\ pages[fs[k].halves[i].blk].type # "new"
             /\ ParentOf(fs[k], old) \in Blocks
             /\ ParentOf(fs[k], st) = ParentOf(fs[k], old)
             /\ st[Len(st) - fs[k].up].blk = old[Len(old) - fs[k].up].blk
  <2>1. /\ Len(fs[k].halves) \in Nat /\ Len(fs[k].halves) >= 1 /\ fs[k].up \in Nat
        /\ \A i \in 1..Len(fs[k].halves) : fs[k].halves[i].blk \in Blocks
        /\ ParentOf(fs[k], old) \in Blocks
        /\ Len(old) - fs[k].up - 1 \in 1..Len(old) /\ Len(old) - fs[k].up \in 1..Len(old)
    BY CallBlocks
  <2>2. \A i \in 1..Len(fs[k].halves) : pages[fs[k].halves[i].blk].type # "new"
    BY DEF IInv, ProcOK, GoodCalls, GoodCall, InUse
  <2>3. Len(st) = Len(old) /\ \A i \in 1..Len(old) : st[i].blk = old[i].blk BY DEF Depth
  <2> QED BY <2>1, <2>2, <2>3 DEF ParentOf
<1>3. ASSUME NEW k \in 1..m
      PROVE  HalvesChained(fs[k], FALSE, pages) /\ CallLocks(fs[k], p, old, xlock)
  <2>1. (pc[p] = "fixchain") = FALSE OBVIOUS
  <2> QED BY <2>1 DEF StructInv, ProcStruct, SplitsOK
<1>4. \A j, k \in 1..m : j < k => Apart(fs[j], fs[k], old)
  BY DEF StructInv, ProcStruct, SplitsOK
<1>5. par = ParentOf(f, old) /\ f.locked
  BY DEF ParentBlk, ParentIx, ChildIx, ParentOf, Depth
<1>6. /\ \A x \in Blocks : pages[x].type # "new" /\ x # par /\ x # left => pgs[x] = pages[x]
      /\ \A x \in Blocks : xlock[x] = p /\ x \notin LetGo(f) /\ (n = 2 => x # par) => xl[x] = p
      /\ n = Len(f.halves) /\ left = f.halves[n - 1].blk
  BY DEF LeftOf
<1>7. /\ n > 2 => /\ Len(gs) = m
                  /\ gs[1].up = f.up /\ gs[1].unlock = f.unlock /\ gs[1].locked = f.locked
                  /\ Len(gs[1].halves) = n - 1
                  /\ \A i \in 1..n - 1 : gs[1].halves[i] = f.halves[i]
                  /\ \A k \in 2..m : gs[k] = fs[k]
      /\ n = 2 => Len(gs) = m - 1 /\ \A k \in 1..m - 1 : gs[k] = fs[k + 1]
  BY RemainingFacts
<1>8. fixing = FALSE OBVIOUS
<1>9. /\ n - 1 \in 1..n /\ n \in 1..n /\ n - 1 # n /\ 1 \in 1..n /\ (n = 2 <=> n - 1 = 1)
      /\ \A k \in 2..m : k \in 1..m /\ 1 < k
  <2> HIDE DEF n, m
  <2>1. n - 1 \in 1..n /\ n \in 1..n /\ n - 1 # n /\ 1 \in 1..n BY <1>1
  <2>2. n = 2 <=> n - 1 = 1 BY <1>1
  <2>3. \A k \in 2..m : k \in 1..m /\ 1 < k BY <1>1
  <2> QED BY <2>1, <2>2, <2>3
<1>10. \A x \in LetGo(f) : x = f.halves[n].blk \/ (f.unlock /\ n = 2 /\ x = f.halves[1].blk)
  BY <1>6 DEF LetGo
<1> HIDE DEF fs, m, f, old, gs, par, fixing, n, left
\* The calls that wait.
<1>11. ASSUME NEW k \in 2..m
       PROVE  HalvesChained(fs[k], fixing, pgs) /\ CallLocks(fs[k], p, st, xl)
  <2> DEFINE g == fs[k]
  <2>1. Apart(f, g, old) BY <1>1, <1>4, <1>9 DEF f
  <2>2. HalvesChained(g, FALSE, pages) /\ CallLocks(g, p, old, xlock) BY <1>3, <1>9
  <2>3. /\ Len(g.halves) \in Nat /\ Len(g.halves) >= 1
        /\ \A i \in 1..Len(g.halves) : /\ g.halves[i].blk \in Blocks
                                       /\ pages[g.halves[i].blk].type # "new"
        /\ ParentOf(g, old) \in Blocks /\ ParentOf(g, st) = ParentOf(g, old)
        /\ st[Len(st) - g.up].blk = old[Len(old) - g.up].blk
    BY <1>2, <1>9
  <2> HIDE DEF g
  <2>4. \A b \in BlocksOf(g) : b # par /\ \A i \in 1..n : b # f.halves[i].blk
    BY <2>1, <1>5, <1>6 DEF Apart, BlocksOf
  <2>5. \A i \in 1..Len(g.halves) : g.halves[i].blk \in BlocksOf(g) BY DEF BlocksOf
  <2>6. ASSUME NEW i \in 1..Len(g.halves) PROVE pgs[g.halves[i].blk] = pages[g.halves[i].blk]
    <3>1. g.halves[i].blk # par /\ g.halves[i].blk # f.halves[n - 1].blk BY <2>4, <2>5, <1>9
    <3>2. g.halves[i].blk \in Blocks /\ pages[g.halves[i].blk].type # "new" BY <2>3
    <3> QED BY <3>1, <3>2, <1>6
  <2>7. \A i \in 1..Len(g.halves) : g.halves[i].blk \notin LetGo(f)
    BY <2>4, <2>5, <1>9, <1>10
  <2>8. \A i \in 1..Len(g.halves) : xl[g.halves[i].blk] = p
    BY <2>2, <2>3, <2>4, <2>5, <2>7, <1>6 DEF CallLocks
  <2>9. ParentOf(g, old) # par /\ ParentOf(g, old) \notin LetGo(f)
    <3>1. ParentOf(g, old) # par BY <2>1, <1>5 DEF Apart
    <3>2. n \in 2..n BY <1>1
    <3>3. f.halves[n].blk # ParentOf(g, old) BY <2>1, <3>2, <1>6 DEF Apart
    <3>4. f.unlock => f.halves[1].blk # ParentOf(g, old) BY <2>1 DEF Apart
    <3> QED BY <3>1, <3>3, <3>4, <1>10
  <2>10. g.locked => xl[ParentOf(g, st)] = p BY <2>2, <2>3, <2>9, <1>6 DEF CallLocks
  <2>11. CallLocks(g, p, st, xl) BY <2>2, <2>3, <2>8, <2>10 DEF CallLocks
  <2>12. HalvesChained(g, fixing, pgs)
    <3> DEFINE l == Len(g.halves)
    <3>1. l \in Nat /\ l >= 1 BY <2>3
    <3>2. /\ \A i \in 1..l - 1 : pages[g.halves[i].blk].follow
                                 /\ pages[g.halves[i].blk].right = g.halves[i + 1].blk
          /\ pages[g.halves[l].blk].follow = FALSE
          /\ \A i, j \in 1..l : g.halves[i].blk = g.halves[j].blk => i = j
      BY <2>2 DEF HalvesChained
    <3>3. \A i \in 1..l : pgs[g.halves[i].blk] = pages[g.halves[i].blk] BY <2>6
    <3> HIDE DEF l
    <3>4. \A i \in 1..l - 1 : i \in 1..l BY <3>1
    <3>5. l \in 1..l BY <3>1
    <3>6. pgs[g.halves[l].blk].follow = fixing BY <3>2, <3>3, <3>5, <1>8
    <3> QED BY <3>2, <3>3, <3>4, <3>6 DEF HalvesChained, l
  <2> QED BY <2>11, <2>12 DEF g
<1>12. ASSUME NEW j \in 2..m, NEW k \in 2..m, j < k PROVE Apart(fs[j], fs[k], st)
  <2>1. Apart(fs[j], fs[k], old) BY <1>4, <1>9, <1>12
  <2>2. ParentOf(fs[j], st) = ParentOf(fs[j], old) /\ ParentOf(fs[k], st) = ParentOf(fs[k], old)
    BY <1>2, <1>9
  <2> QED BY <2>1, <2>2 DEF Apart
\* The call that goes on.
<1>13. ASSUME n > 2
       PROVE  /\ HalvesChained(gs[1], fixing, pgs) /\ CallLocks(gs[1], p, st, xl)
              /\ \A k \in 2..m : Apart(gs[1], fs[k], st)
  <2> DEFINE g == gs[1]
             l == n - 1
  <2>1. /\ g.up = f.up /\ g.unlock = f.unlock /\ g.locked = f.locked /\ Len(g.halves) = l
        /\ \A i \in 1..l : g.halves[i] = f.halves[i]
    BY <1>7, <1>13
  <2>2. HalvesChained(f, FALSE, pages) /\ CallLocks(f, p, old, xlock) BY <1>1, <1>3 DEF f
  <2>3. /\ \A i \in 1..n : f.halves[i].blk \in Blocks /\ pages[f.halves[i].blk].type # "new"
        /\ ParentOf(f, old) \in Blocks /\ ParentOf(f, st) = ParentOf(f, old)
        /\ st[Len(st) - f.up].blk = old[Len(old) - f.up].blk
    BY <1>1, <1>2, <1>6 DEF f
  <2>4. ParentOf(g, st) = par BY <2>1, <2>3, <1>5 DEF ParentOf
  <2> HIDE DEF g
  <2>5. /\ \A i \in 1..n - 1 : pages[f.halves[i].blk].follow
                               /\ pages[f.halves[i].blk].right = f.halves[i + 1].blk
        /\ \A i, j \in 1..n : f.halves[i].blk = f.halves[j].blk => i = j
    BY <2>2, <1>6 DEF HalvesChained
  <2>6. \A i \in 1..n : f.halves[i].blk # par /\ xlock[f.halves[i].blk] = p
    BY <2>2, <1>5, <1>6 DEF CallLocks, BlocksOf
  <2>7. xlock[par] = p /\ f.halves[1].blk = old[Len(old) - f.up].blk
    BY <2>2, <1>5 DEF CallLocks
  <2>8. \A x \in LetGo(f) : x = f.halves[n].blk BY <1>10, <1>13
  <2>9. /\ l \in 1..n /\ l \in 1..l /\ 1 \in 1..l
        /\ \A i \in 1..l : i \in 1..n /\ i # n
        /\ \A i \in 1..l - 1 : i \in 1..l /\ i \in 1..n - 1 /\ i + 1 \in 1..l /\ i # l
    BY <1>1, <1>13
  <2>10. left = f.halves[l].blk BY <1>6
  <2> HIDE DEF l
  <2>11. \A i \in 1..l - 1 : pgs[f.halves[i].blk] = pages[f.halves[i].blk]
    <3> TAKE i \in 1..l - 1
    <3>1. i \in 1..n /\ i # l /\ l \in 1..n /\ i \in 1..l BY <2>9
    <3>2. f.halves[i].blk # left BY <3>1, <2>5, <2>10
    <3>3. /\ f.halves[i].blk \in Blocks /\ pages[f.halves[i].blk].type # "new"
          /\ f.halves[i].blk # par
      BY <3>1, <2>3, <2>6
    <3> QED BY <3>2, <3>3, <1>6
  <2>12. ASSUME NEW i \in 1..l - 1
         PROVE  /\ pgs[g.halves[i].blk].follow
                /\ pgs[g.halves[i].blk].right = g.halves[i + 1].blk
    <3>1. i \in 1..l /\ i \in 1..n - 1 /\ i + 1 \in 1..l BY <2>9
    <3>2. g.halves[i] = f.halves[i] /\ g.halves[i + 1] = f.halves[i + 1] BY <3>1, <2>1
    <3>3. pages[f.halves[i].blk].follow /\ pages[f.halves[i].blk].right = f.halves[i + 1].blk
      BY <3>1, <2>5
    <3> QED BY <3>2, <3>3, <2>11
  <2>13. pgs[g.halves[l].blk].follow = fixing
    <3>1. pgs[left].follow = FALSE BY DEF left, f, fs
    <3> QED BY <3>1, <2>1, <2>9, <2>10, <1>8
  <2>14. \A i, j \in 1..l : g.halves[i].blk = g.halves[j].blk => i = j
    <3> TAKE i, j \in 1..l
    <3>1. i \in 1..n /\ j \in 1..n BY <2>9
    <3>2. g.halves[i] = f.halves[i] /\ g.halves[j] = f.halves[j] BY <2>1
    <3> QED BY <3>1, <3>2, <2>5
  <2>15. HalvesChained(g, fixing, pgs) BY <2>1, <2>12, <2>13, <2>14 DEF HalvesChained
  <2>16. \A i \in 1..l : xl[g.halves[i].blk] = p
    <3> TAKE i \in 1..l
    <3>1. /\ g.halves[i].blk = f.halves[i].blk /\ f.halves[i].blk \in Blocks
          /\ xlock[f.halves[i].blk] = p /\ f.halves[i].blk # f.halves[n].blk
      BY <2>1, <2>3, <2>5, <2>6, <2>9, <1>9
    <3>2. f.halves[i].blk \notin LetGo(f) BY <3>1, <2>8
    <3>3. xl[f.halves[i].blk] = p BY <3>1, <3>2, <1>6, <1>13
    <3> QED BY <3>1, <3>3
  <2>17. par \in Blocks /\ par \notin LetGo(f) /\ par \notin BlocksOf(g)
    <3>1. par \in Blocks BY <2>3, <1>5
    <3>2. par \notin LetGo(f) BY <2>6, <2>8, <1>9
    <3>3. par \notin BlocksOf(g) BY <2>1, <2>6, <2>9 DEF BlocksOf
    <3> QED BY <3>1, <3>2, <3>3
  <2>18. xl[par] = p
    <3>1. n # 2 BY <1>1, <1>13
    <3> QED BY <3>1, <2>7, <2>17, <1>6
  <2>19. g.halves[1].blk = st[Len(st) - g.up].blk BY <2>1, <2>3, <2>7, <2>9
  <2>20. CallLocks(g, p, st, xl) BY <2>1, <2>4, <2>16, <2>17, <2>18, <2>19 DEF CallLocks
  <2>21. ASSUME NEW k \in 2..m PROVE Apart(g, fs[k], st)
    <3> DEFINE h == fs[k]
    <3>1. Apart(f, h, old) /\ ParentOf(h, st) = ParentOf(h, old)
      BY <1>1, <1>2, <1>4, <1>9 DEF f
    <3> HIDE DEF h
    <3>2. \A b \in BlocksOf(g) : b \in BlocksOf(f)
      <4>1. BlocksOf(g) = {g.halves[i].blk : i \in 1..l} BY <2>1 DEF BlocksOf
      <4>2. BlocksOf(f) = {f.halves[i].blk : i \in 1..n} BY <1>6 DEF BlocksOf
      <4> QED BY <4>1, <4>2, <2>1, <2>9
    <3>3. \A i \in 2..l : g.halves[i] = f.halves[i] /\ i \in 2..Len(f.halves)
      <4>1. \A i \in 2..l : i \in 1..l /\ i \in 2..n BY <1>1 DEF l
      <4> QED BY <4>1, <2>1, <1>6
    <3>4. g.halves[1] = f.halves[1] BY <2>1, <2>9
    <3>5. /\ h.locked /\ h.up < f.up /\ BlocksOf(f) \cap BlocksOf(h) = {}
          /\ \A i \in 2..Len(f.halves) : f.halves[i].blk # ParentOf(h, old)
          /\ f.unlock => f.halves[1].blk # ParentOf(h, old)
          /\ par # ParentOf(h, old) /\ par \notin BlocksOf(h)
      BY <3>1, <1>5 DEF Apart
    <3>6. Apart(g, h, st)
      BY <3>1, <3>2, <3>3, <3>4, <3>5, <2>1, <2>4 DEF Apart
    <3> QED BY <3>6 DEF h
  <2> QED BY <2>15, <2>20, <2>21 DEF g
<1>14. CASE n > 2
  <2>1. Len(gs) = m /\ \A k \in 2..m : gs[k] = fs[k] BY <1>7, <1>14
  <2>2. \A k \in 1..m : k = 1 \/ k \in 2..m BY <1>1
  <2>3. ASSUME NEW k \in 1..m PROVE HalvesChained(gs[k], fixing, pgs) /\ CallLocks(gs[k], p, st, xl)
    BY <2>1, <2>2, <1>11, <1>13, <1>14
  <2>4. ASSUME NEW j \in 1..m, NEW k \in 1..m, j < k PROVE Apart(gs[j], gs[k], st)
    <3>1. k \in 2..m BY <1>1, <2>4
    <3> QED BY <3>1, <2>1, <2>2, <2>4, <1>12, <1>13, <1>14
  <2> QED BY <2>1, <2>3, <2>4 DEF SplitsOK, gs, fixing
<1>15. CASE n = 2
  <2>1. Len(gs) = m - 1 /\ \A k \in 1..m - 1 : gs[k] = fs[k + 1] BY <1>7, <1>15
  <2>2. \A k \in 1..m - 1 : k + 1 \in 2..m BY <1>1
  <2>3. ASSUME NEW k \in 1..m - 1
        PROVE  HalvesChained(gs[k], fixing, pgs) /\ CallLocks(gs[k], p, st, xl)
    BY <2>1, <2>2, <1>11
  <2>4. ASSUME NEW j \in 1..m - 1, NEW k \in 1..m - 1, j < k PROVE Apart(gs[j], gs[k], st)
    <3>1. j + 1 \in 2..m /\ k + 1 \in 2..m /\ j + 1 < k + 1 BY <1>1, <2>4
    <3> QED BY <3>1, <2>1, <1>12
  <2> QED BY <2>1, <2>3, <2>4 DEF SplitsOK, gs, fixing
<1>16. n > 2 \/ n = 2 BY <1>1
<1> QED BY <1>14, <1>15, <1>16

\* A call begins while others wait.
LEMMA SplitsNest ==
  ASSUME NEW p, NEW c \in Call, NEW gs \in Seq(Call), NEW fixing, NEW st, NEW pgs, NEW xl,
         SplitsOK(p, gs, fixing, st, pgs, xl),
         HalvesChained(c, fixing, pgs), CallLocks(c, p, st, xl),
         \A k \in 1..Len(gs) : Apart(c, gs[k], st)
  PROVE  SplitsOK(p, <<c>> \o gs, fixing, st, pgs, xl)
<1> DEFINE q == <<c>> \o gs
<1>1. Len(gs) \in Nat /\ <<c>> \in Seq(Call) /\ Len(<<c>>) = 1 /\ <<c>>[1] = c OBVIOUS
<1>2. /\ Len(q) = 1 + Len(gs)
      /\ \A i \in 1..1 + Len(gs) : q[i] = IF i <= 1 THEN <<c>>[i] ELSE gs[i - 1]
  BY <1>1, ConcatProperties
<1> HIDE DEF q
<1>3. q[1] = c /\ \A i \in 1..Len(q) : i # 1 => i - 1 \in 1..Len(gs) /\ q[i] = gs[i - 1]
  BY <1>1, <1>2
<1>4. \A k \in 1..Len(q) : HalvesChained(q[k], fixing, pgs) /\ CallLocks(q[k], p, st, xl)
  BY <1>3 DEF SplitsOK
<1>5. ASSUME NEW j \in 1..Len(q), NEW k \in 1..Len(q), j < k PROVE Apart(q[j], q[k], st)
  <2>1. k # 1 /\ k - 1 \in 1..Len(gs) /\ q[k] = gs[k - 1] BY <1>3, <1>5
  <2>2. CASE j = 1 BY <2>1, <2>2, <1>3
  <2>3. CASE j # 1
    <3>1. j - 1 \in 1..Len(gs) /\ q[j] = gs[j - 1] /\ j - 1 < k - 1 BY <2>1, <2>3, <1>3, <1>5
    <3> QED BY <2>1, <3>1 DEF SplitsOK
  <2> QED BY <2>2, <2>3
<1>6. SplitsOK(p, q, fixing, st, pgs, xl) BY <1>4, <1>5 DEF SplitsOK
<1> QED BY <1>6 DEF q

\* What the insertion of a downlink writes, and whom it spares.
LEMMA DownlinkWrite ==
  ASSUME IInv, StructInv, NEW p \in Inserters, IInv' /\ Grown /\ OthersSame(p),
         pc[p] = "finish", fin[p][1].locked,
         NEW N, WriteOK(ParentBlk(p), N, LeftOf(fin[p][1])),
         Writes(pages', ParentBlk(p), N, LeftOf(fin[p][1])), lsn' = lsn + 1
  PROVE  /\ Spares(p) /\ OneWrite
         /\ \A x \in Blocks : pages[x].type # "new" /\ x # ParentBlk(p)
                              /\ x # LeftOf(fin[p][1]) => pages'[x] = pages[x]
         /\ ~pages'[LeftOf(fin[p][1])].follow /\ pages'[LeftOf(fin[p][1])].follow \in BOOLEAN
<1> DEFINE f == fin[p][1]
           n == Len(f.halves)
           par == ParentBlk(p)
           left == LeftOf(f)
<1>1. /\ n \in Nat /\ n >= 2 /\ xlock[par] = p
      /\ \A i \in 1..n : f.halves[i].blk \in Blocks \ {Root} /\ xlock[f.halves[i].blk] = p
      /\ \A i \in 1..n - 1 : pages[f.halves[i].blk].right = f.halves[i + 1].blk
  <2>1. LockedHalves(f, p, par) BY LockedCall
  <2> HIDE DEF f, par
  <2> QED BY <2>1 DEF LockedHalves
<1> HIDE DEF n
<1>2. n - 1 \in 1..n BY <1>1
<1>3. left = f.halves[n - 1].blk BY DEF LeftOf, n
<1>4. left \in Blocks /\ xlock[left] = p /\ left # NoBlock
  BY <1>1, <1>2, <1>3, BlocksAssumption
<1> HIDE DEF left, par
<1>5. WriteOK(par, N, left) /\ Writes(pages', par, N, left) BY DEF par, left
<1>6. GoodPages(pages, lsn) /\ Held(xlock, pages) BY DEF IInv, StructInv
<1>7. Spares(p) BY <1>1, <1>4, <1>5, <1>6, WriteSpares
<1>8. OneWrite
  <2>1. n - 1 \in 1..n - 1 /\ n - 1 + 1 = n /\ n \in 1..n BY <1>1
  <2>2. xlock[pages[left].right] = p BY <2>1, <1>1, <1>3
  <2>3. Finishes(left) BY <2>2 DEF Finishes
  <2>4. Adds(par, N) BY <1>4, <1>5 DEF WriteOK, Adds
  <2> QED BY <1>5, <2>3, <2>4 DEF OneWrite
<1>9. /\ \A x \in Blocks : pages[x].type # "new" /\ x # par /\ x # left => pages'[x] = pages[x]
      /\ left # NoBlock => ~pages'[left].follow
  BY <1>5, <1>6, WriteFacts
<1>10. pages'[left].follow \in BOOLEAN BY <1>4 DEF IInv, TypeOK, Page
<1> QED BY <1>4, <1>7, <1>8, <1>9, <1>10 DEF par, left

\* The pages let go are halves.
LEMMA LetGoHalves ==
  ASSUME NEW f, Len(f.halves) \in Nat, Len(f.halves) >= 2
  PROVE  \A x \in LetGo(f) : \E i \in 1..Len(f.halves) : x = f.halves[i].blk
<1> DEFINE n == Len(f.halves)
<1>1. 1 \in 1..n /\ n \in 1..n OBVIOUS
<1>2. \A x \in LetGo(f) : x = f.halves[n].blk \/ x = f.halves[1].blk BY DEF LetGo
<1> QED BY <1>1, <1>2

\* The parent has room, or it is the root and is split: the insertion is done.
LEMMA DownlinkDoneStruct ==
  ASSUME IInv, StructInv, NEW p \in Inserters, IInv' /\ Grown /\ OthersSame(p),
         pc[p] = "finish", fin[p][1].locked,
         NEW N, WriteOK(ParentBlk(p), N, LeftOf(fin[p][1])),
         Writes(pages', ParentBlk(p), N, LeftOf(fin[p][1])), lsn' = lsn + 1,
         xlock' = Unlocked(LetGo(fin[p][1]) \cup
                           (IF Len(fin[p][1].halves) = 2 THEN {ParentBlk(p)} ELSE {})),
         fin'[p] = Remaining(p), pc'[p] \in {"return", "finish"},
         Len(stack'[p]) = Depth(p), \A i \in 1..Depth(p) : stack'[p][i].blk = stack[p][i].blk,
         bfs'[p] = bfs[p]
  PROVE  StructInv' /\ Logged
<1> DEFINE st == stack'[p]
           xl == xlock'
           label == pc'[p]
           pgs == pages'
<1>1. /\ Spares(p) /\ OneWrite
      /\ \A x \in Blocks : pages[x].type # "new" /\ x # ParentBlk(p)
                           /\ x # LeftOf(fin[p][1]) => pgs[x] = pages[x]
      /\ ~pgs[LeftOf(fin[p][1])].follow /\ pgs[LeftOf(fin[p][1])].follow \in BOOLEAN
  BY DownlinkWrite
<1>2. Len(st) = Depth(p) /\ \A i \in 1..Depth(p) : st[i].blk = stack[p][i].blk OBVIOUS
<1>3. \A x \in Blocks : /\ xl[x] \in {xlock[x], NoProc}
                        /\ /\ xlock[x] = p /\ x \notin LetGo(fin[p][1])
                           /\ Len(fin[p][1].halves) = 2 => x # ParentBlk(p)
                           => xl[x] = p
  BY DEF Unlocked
<1>4. label # "fixchain" OBVIOUS
<1>9. /\ \A x \in LetGo(fin[p][1]) : xlock[x] = p
      /\ xlock[ParentBlk(p)] = p
  <2> DEFINE f == fin[p][1]
             par == ParentBlk(p)
  <2>1. LockedHalves(f, p, par) BY LockedCall
  <2> HIDE DEF f, par
  <2>2. /\ \A i \in 1..Len(f.halves) : xlock[f.halves[i].blk] = p
        /\ Len(f.halves) \in Nat /\ Len(f.halves) >= 2
        /\ xlock[par] = p
    BY <2>1 DEF LockedHalves
  <2>3. \A x \in LetGo(f) : xlock[x] = p BY <2>2, LetGoHalves
  <2> QED BY <2>2, <2>3 DEF f, par
<1>5. Respects(p)
  <2>1. \A x \in Blocks : xlock[x] \notin {p, NoProc} => xlock'[x] = xlock[x]
    BY <1>9 DEF Unlocked
  <2> QED BY <2>1, <1>3 DEF Respects
<1> HIDE DEF st, xl, label, pgs
<1>6. SplitsOK(p, Remaining(p), label = "fixchain", st, pgs, xl)
  BY <1>1, <1>2, <1>3, <1>4, RemainingKeeps
<1>7. stack'[p] \in Seq(Frame) /\ \A w \in bfs[p] : w \in Seq(Frame) BY DEF IInv, TypeOK
<1>10. UsedFrames(stack'[p], pages) /\ \A w \in bfs[p] : UsedFrames(w, pages)
  <2>1. UsedFrames(stack[p], pages) /\ \A w \in bfs[p] : UsedFrames(w, pages)
    BY DEF StructInv, ProcStruct
  <2> QED BY <2>1, <1>2 DEF UsedFrames, Depth, st
<1>11. UsedFrames(stack'[p], pages') /\ \A w \in bfs[p] : UsedFrames(w, pages')
  BY <1>7, <1>10, UsedLater
<1>12. ProcStruct(p)' BY <1>6, <1>11 DEF ProcStruct, Unmoved, st, xl, label, pgs
<1> QED BY <1>1, <1>5, <1>12, StructStep

\* The parent is split: a call for its halves begins.
LEMMA DownlinkSplitStruct ==
  ASSUME IInv, StructInv, NEW p \in Inserters, IInv' /\ Grown /\ OthersSame(p),
         pc[p] = "finish", fin[p][1].locked, ParentBlk(p) # Root,
         NEW N, WriteOK(ParentBlk(p), N, LeftOf(fin[p][1])),
         NEW P \in Partitions(ParentBlk(p), N), NEW blks,
         Divided(pages', ParentBlk(p), N, LeftOf(fin[p][1]), P, blks), lsn' = lsn + 1,
         xlock' = [b \in Blocks |->
                     IF b \in LetGo(fin[p][1]) THEN NoProc
                     ELSE IF \E i \in 2..Len(blks) : blks[i] = b THEN p ELSE xlock[b]],
         NEW c \in Call, c.up = fin[p][1].up + 1, c.halves = HalvesOf(P, blks), ~c.locked,
         c.unlock => Len(fin[p][1].halves) = 2,
         fin'[p] = <<c>> \o Remaining(p), pc'[p] = "finish",
         Len(stack'[p]) = Depth(p), \A i \in 1..Depth(p) : stack'[p][i].blk = stack[p][i].blk,
         bfs'[p] = bfs[p]
  PROVE  StructInv' /\ Logged
<1> DEFINE f == fin[p][1]
           n == Len(f.halves)
           m == Len(blks)
           par == ParentBlk(p)
           left == LeftOf(f)
           st == stack'[p]
           xl == xlock'
           label == pc'[p]
           pgs == pages'
           fixing == (label = "fixchain")
           gs == Remaining(p)
<1>1. Divided(pages', par, N, left, P, blks) OBVIOUS
<1>2. Writes(pages', par, N, left)
  <2>1. blks \in Seq(Blocks) BY <1>1 DEF Divided
  <2> QED BY <1>1, <2>1 DEF Writes
<1>3. /\ Spares(p) /\ OneWrite
      /\ \A x \in Blocks : pages[x].type # "new" /\ x # par /\ x # left => pgs[x] = pages[x]
      /\ ~pgs[left].follow /\ pgs[left].follow \in BOOLEAN
  BY <1>2, DownlinkWrite
<1>4. /\ Len(c.halves) = m /\ m \in Nat /\ m >= 2
      /\ \A i \in 1..m : c.halves[i].blk = blks[i]
      /\ c.halves[1].blk = par /\ BlocksOf(c) = {blks[i] : i \in 1..m}
      /\ \A i \in 1..m - 1 : pgs[blks[i]].follow /\ pgs[blks[i]].right = blks[i + 1]
      /\ ~pgs[blks[m]].follow
      /\ \A i, j \in 1..m : blks[i] = blks[j] => i = j
  BY <1>1, DividedChain
<1>5. /\ blks[1] = par /\ \A i \in 1..m : blks[i] \in Blocks
      /\ \A i \in 2..m : pages[blks[i]].type = "new" /\ pgs[blks[i]].type # "new"
  <2>1. blks \in Seq(Blocks) /\ blks[1] = par BY <1>1 DEF Divided
  <2>2. \A i \in 2..m : i \in 1..m /\ pages[blks[i]].type = "new" BY <1>1, <1>4 DEF Divided
  <2>3. \A i \in 1..m : pgs[blks[i]].type = pages[par].type BY <1>1 DEF Divided
  <2>4. pages[par].type # "new" BY DEF WriteOK
  <2> QED BY <2>1, <2>2, <2>3, <2>4
<1>6. /\ n \in Nat /\ n >= 2 /\ par \in Blocks /\ par = ParentOf(f, stack[p]) /\ xlock[par] = p
      /\ \A i \in 1..n : /\ f.halves[i].blk \in Blocks /\ pages[f.halves[i].blk].type # "new"
                         /\ f.halves[i].blk # par /\ xlock[f.halves[i].blk] = p
  <2>1. LockedHalves(f, p, par) BY LockedCall
  <2> HIDE DEF f, par
  <2> QED BY <2>1 DEF LockedHalves
<1>7. \A x \in LetGo(f) : \E i \in 1..n : x = f.halves[i].blk BY <1>6, LetGoHalves
<1>8. \A x \in Blocks : xl[x] = IF x \in LetGo(f) THEN NoProc
                                ELSE IF \E i \in 2..m : blks[i] = x THEN p ELSE xlock[x]
  OBVIOUS
<1>9. \A x \in Blocks : pages[x].type = "new" => xlock[x] = NoProc
  BY DEF StructInv, Held
<1>10. /\ f.up \in Nat /\ c.up = f.up + 1 /\ c.locked = FALSE /\ (c.unlock => n = 2)
       /\ f.locked
  <2>1. c.locked \in BOOLEAN BY DEF Call
  <2>2. f.up \in Nat BY CallFacts DEF Splitting
  <2> QED BY <2>1, <2>2
<1>11. fixing = FALSE /\ label # "fixchain" OBVIOUS
<1>12. Len(st) = Depth(p) /\ \A i \in 1..Depth(p) : st[i].blk = stack[p][i].blk OBVIOUS
<1>13. /\ \A k \in 1..Len(fin[p]) : /\ ParentOf(fin[p][k], stack[p]) \in Blocks
                                    /\ CallLocks(fin[p][k], p, stack[p], xlock)
                                    /\ ParentOf(fin[p][k], st) = ParentOf(fin[p][k], stack[p])
       /\ \A j, k \in 1..Len(fin[p]) : j < k => Apart(fin[p][j], fin[p][k], stack[p])
       /\ Len(stack[p]) - f.up - 1 \in 1..Len(stack[p])
       /\ Len(fin[p]) \in Nat /\ Len(fin[p]) >= 1
  <2>1. Len(fin[p]) \in Nat /\ Len(fin[p]) >= 1 BY RemainingFacts
  <2>2. ASSUME NEW k \in 1..Len(fin[p])
        PROVE  /\ ParentOf(fin[p][k], stack[p]) \in Blocks
               /\ Len(stack[p]) - fin[p][k].up - 1 \in 1..Len(stack[p])
    BY CallBlocks
  <2>3. \A k \in 1..Len(fin[p]) : ParentOf(fin[p][k], st) = ParentOf(fin[p][k], stack[p])
    BY <2>2, <1>12 DEF ParentOf, Depth
  <2>4. /\ \A k \in 1..Len(fin[p]) : CallLocks(fin[p][k], p, stack[p], xlock)
        /\ \A j, k \in 1..Len(fin[p]) : j < k => Apart(fin[p][j], fin[p][k], stack[p])
    BY DEF StructInv, ProcStruct, SplitsOK
  <2>5. 1 \in 1..Len(fin[p]) BY <2>1
  <2> QED BY <2>1, <2>2, <2>3, <2>4, <2>5
<1>14. /\ gs \in Seq(Call) /\ Len(gs) \in Nat
       /\ n > 2 => /\ Len(gs) = Len(fin[p])
                   /\ gs[1].up = f.up /\ gs[1].unlock = f.unlock /\ gs[1].locked = f.locked
                   /\ Len(gs[1].halves) = n - 1
                   /\ \A i \in 1..n - 1 : gs[1].halves[i] = f.halves[i]
                   /\ \A k \in 2..Len(fin[p]) : gs[k] = fin[p][k]
       /\ n = 2 => /\ Len(gs) = Len(fin[p]) - 1
                   /\ \A k \in 1..Len(fin[p]) - 1 : gs[k] = fin[p][k + 1]
  <2>1. gs \in Seq(Call) BY RemainingOK DEF GoodCalls
  <2>2. Len(gs) \in Nat BY <2>1
  <2>3. /\ n > 2 => /\ Len(gs) = Len(fin[p])
                    /\ gs[1].up = f.up /\ gs[1].unlock = f.unlock /\ gs[1].locked = f.locked
                    /\ Len(gs[1].halves) = n - 1
                    /\ \A i \in 1..n - 1 : gs[1].halves[i] = f.halves[i]
                    /\ \A k \in 2..Len(fin[p]) : gs[k] = fin[p][k]
        /\ n = 2 => /\ Len(gs) = Len(fin[p]) - 1
                    /\ \A k \in 1..Len(fin[p]) - 1 : gs[k] = fin[p][k + 1]
    BY RemainingFacts
  <2> QED BY <2>1, <2>2, <2>3
<1>15. fin'[p] = <<c>> \o gs OBVIOUS
<1>16. bfs'[p] = bfs[p] /\ label = "finish" OBVIOUS
<1> HIDE DEF f, n, m, par, left, st, xl, label, pgs, fixing, gs
<1>17. \A i \in 2..m : blks[i] # par /\ i \in 1..m BY <1>4, <1>5
<1>18. par \notin LetGo(f) /\ \A i \in 2..m : blks[i] \notin LetGo(f)
  <2>1. \A x \in LetGo(f) : x # par /\ pages[x].type # "new" BY <1>6, <1>7
  <2>2. \A i \in 2..m : pages[blks[i]].type = "new" BY <1>5
  <2> QED BY <2>1, <2>2
\* The other calls.
<1>19. SplitsOK(p, gs, fixing, st, pgs, xl)
  <2>1. \A x \in Blocks : /\ xlock[x] = p /\ x \notin LetGo(f)
                          /\ n = 2 => x # par
                          => xl[x] = p
    BY <1>8
  <2> QED BY <2>1, <1>3, <1>11, <1>12, RemainingKeeps DEF f, n, par, left, gs, fixing
\* The call that begins.
<1>20. HalvesChained(c, fixing, pgs)
  <2>1. \A i \in 1..m - 1 : i \in 1..m /\ i + 1 \in 1..m BY <1>4
  <2>2. m \in 1..m BY <1>4
  <2>3. pgs[blks[m]].follow \in BOOLEAN BY <2>2, <1>5 DEF IInv, TypeOK, Page, pgs
  <2>4. pgs[c.halves[m].blk].follow = fixing BY <1>4, <1>11, <2>2, <2>3
  <2>5. \A i \in 1..m - 1 : /\ pgs[c.halves[i].blk].follow
                            /\ pgs[c.halves[i].blk].right = c.halves[i + 1].blk
    <3>1. \A i \in 1..m : c.halves[i].blk = blks[i] BY <1>4
    <3>2. \A i \in 1..m - 1 : pgs[blks[i]].follow /\ pgs[blks[i]].right = blks[i + 1]
      BY <1>4
    <3> QED BY <2>1, <3>1, <3>2
  <2>6. \A i, j \in 1..m : c.halves[i].blk = c.halves[j].blk => i = j BY <1>4
  <2> QED BY <1>4, <2>4, <2>5, <2>6 DEF HalvesChained
<1>21. CallLocks(c, p, st, xl)
  <2>1. xl[par] = p BY <1>6, <1>8, <1>17, <1>18
  <2>2. \A i \in 2..m : xl[blks[i]] = p BY <1>5, <1>8, <1>17, <1>18
  <2>3. \A i \in 1..m : xl[c.halves[i].blk] = p
    <3> TAKE i \in 1..m
    <3>1. i = 1 \/ i \in 2..m BY <1>4
    <3> QED BY <2>1, <2>2, <3>1, <1>4, <1>5
  <2>4. par = st[Len(st) - c.up].blk
    <3>1. par = stack[p][Len(stack[p]) - f.up - 1].blk BY <1>6 DEF ParentOf
    <3>2. Len(st) = Len(stack[p]) BY <1>12 DEF Depth
    <3>3. Len(stack[p]) \in Nat BY DEF IInv, TypeOK
    <3>4. Len(st) - c.up = Len(stack[p]) - f.up - 1
      <4> DEFINE u == f.up
                 k == Len(stack[p])
      <4>1. u \in Nat /\ c.up = u + 1 BY <1>10
      <4>2. Len(st) = k /\ k \in Nat BY <3>2, <3>3
      <4> HIDE DEF u, k
      <4>3. k - (u + 1) = k - u - 1 BY <4>1, <4>2
      <4>4. Len(st) - c.up = k - u - 1 BY <4>1, <4>2, <4>3
      <4> QED BY <4>4 DEF u, k
    <3> QED BY <3>1, <3>4, <1>12, <1>13 DEF Depth
  <2> QED BY <2>3, <2>4, <1>4, <1>10 DEF CallLocks
<1>22. ASSUME NEW k \in 2..Len(fin[p]) PROVE Apart(c, fin[p][k], st)
  <2> DEFINE g == fin[p][k]
  <2>1. k \in 1..Len(fin[p]) /\ 1 \in 1..Len(fin[p]) /\ 1 < k BY <1>13
  <2>2. /\ Apart(f, g, stack[p]) /\ CallLocks(g, p, stack[p], xlock)
        /\ ParentOf(g, st) = ParentOf(g, stack[p]) /\ ParentOf(g, stack[p]) \in Blocks
        /\ g.up \in Nat
    BY <2>1, <1>13, CallBlocks DEF f
  <2> HIDE DEF g
  <2>3. /\ g.locked /\ g.up < f.up /\ par # ParentOf(g, stack[p]) /\ par \notin BlocksOf(g)
    BY <2>2, <1>6, <1>10 DEF Apart
  <2>4. g.up < c.up BY <2>2, <2>3, <1>10
  <2>5. xlock[ParentOf(g, stack[p])] = p /\ \A b \in BlocksOf(g) : xlock[b] = p
    BY <2>2, <2>3 DEF CallLocks, BlocksOf
  <2>6. p # NoProc BY ProcAssumption
  <2>7. \A i \in 2..m : blks[i] # ParentOf(g, stack[p]) /\ blks[i] \notin BlocksOf(g)
    BY <2>5, <2>6, <1>5, <1>9, <1>17
  <2>8. \A i \in 1..m : i = 1 \/ i \in 2..m BY <1>4
  <2>9. BlocksOf(c) \cap BlocksOf(g) = {} BY <2>3, <2>7, <2>8, <1>4, <1>5
  <2>10. \A i \in 2..Len(c.halves) : c.halves[i].blk # ParentOf(g, st)
    BY <2>2, <2>7, <1>4, <1>17
  <2>11. c.halves[1].blk # ParentOf(g, st) BY <2>2, <2>3, <1>4
  <2>12. Apart(c, g, st) BY <2>3, <2>4, <2>9, <2>10, <2>11, <1>10 DEF Apart
  <2> QED BY <2>12 DEF g
<1>23. ASSUME n > 2 PROVE Apart(c, gs[1], st)
  <2> DEFINE g == gs[1]
  <2>1. /\ g.locked /\ g.up = f.up /\ Len(g.halves) = n - 1
        /\ \A i \in 1..n - 1 : g.halves[i] = f.halves[i]
    BY <1>10, <1>14, <1>23
  <2>2. ParentOf(g, st) = par
    <3>1. 1 \in 1..Len(fin[p]) BY <1>13
    <3>2. ParentOf(f, st) = par BY <3>1, <1>6, <1>13 DEF f
    <3> QED BY <3>2, <2>1 DEF ParentOf
  <2> HIDE DEF g
  <2>3. \A i \in 1..n - 1 : i \in 1..n BY <1>6
  <2>4. \A b \in BlocksOf(g) : b # par /\ pages[b].type # "new"
    <3>1. BlocksOf(g) = {g.halves[i].blk : i \in 1..n - 1} BY <2>1 DEF BlocksOf
    <3>2. \A i \in 1..n - 1 : g.halves[i].blk # par /\ pages[g.halves[i].blk].type # "new"
      BY <2>1, <2>3, <1>6
    <3> QED BY <3>1, <3>2
  <2>5. \A i \in 1..m : i = 1 \/ i \in 2..m BY <1>4
  <2>6. BlocksOf(c) \cap BlocksOf(g) = {}
    <3>1. BlocksOf(c) = {blks[i] : i \in 1..m} BY <1>4
    <3>2. \A i \in 1..m : blks[i] = par \/ pages[blks[i]].type = "new" BY <2>5, <1>5
    <3> QED BY <2>4, <3>1, <3>2
  <2>7. \A i \in 2..Len(c.halves) : c.halves[i].blk # ParentOf(g, st)
    BY <2>2, <1>4, <1>17
  <2>8. ~c.unlock BY <1>10, <1>23
  <2>9. g.up < c.up BY <2>1, <1>10
  <2>10. Apart(c, g, st) BY <2>1, <2>6, <2>7, <2>8, <2>9, <1>10 DEF Apart
  <2> QED BY <2>10 DEF g
<1>24. ASSUME NEW k \in 1..Len(gs) PROVE Apart(c, gs[k], st)
  <2>1. CASE n > 2
    <3>1. k = 1 \/ k \in 2..Len(fin[p]) BY <2>1, <1>13, <1>14, <1>24
    <3> QED BY <2>1, <3>1, <1>14, <1>22, <1>23
  <2>2. CASE n = 2
    <3>1. k + 1 \in 2..Len(fin[p]) /\ k \in 1..Len(fin[p]) - 1 BY <2>2, <1>13, <1>14, <1>24
    <3> QED BY <2>2, <3>1, <1>14, <1>22
  <2> QED BY <2>1, <2>2, <1>6
<1>25. SplitsOK(p, <<c>> \o gs, fixing, st, pgs, xl)
  BY <1>14, <1>19, <1>20, <1>21, <1>24, SplitsNest
\* Everything else.
<1>26. Respects(p)
  <2>1. \A x \in Blocks : xlock[x] \notin {p, NoProc} => xl[x] = xlock[x]
    BY <1>5, <1>6, <1>7, <1>8, <1>9, <1>17
  <2>2. \A x \in Blocks : xl[x] \in {xlock[x], NoProc} \/ pgs[x].type # "new"
    BY <1>5, <1>8
  <2>3. \A x \in Blocks : xl[x] \in {xlock[x], NoProc, p} BY <1>8
  <2> QED BY <2>1, <2>2, <2>3 DEF Respects, xl, pgs
<1>27. stack'[p] \in Seq(Frame) /\ \A w \in bfs[p] : w \in Seq(Frame) BY DEF IInv, TypeOK
<1>28. UsedFrames(stack'[p], pages) /\ \A w \in bfs[p] : UsedFrames(w, pages)
  <2>1. UsedFrames(stack[p], pages) /\ \A w \in bfs[p] : UsedFrames(w, pages)
    BY DEF StructInv, ProcStruct
  <2>2. Depth(p) \in Nat BY DEF Depth, IInv, TypeOK
  <2>3. \A i \in 1..Depth(p) - 1 : i \in 1..Depth(p) BY <2>2
  <2>4. UsedFrames(stack'[p], pages)
    <3>1. Len(stack[p]) = Depth(p) /\ Len(stack'[p]) = Depth(p) BY <1>12 DEF Depth, st
    <3>2. \A i \in 1..Depth(p) : stack'[p][i].blk = stack[p][i].blk BY <1>12 DEF st
    <3>3. ASSUME NEW i \in 1..Len(stack'[p])
          PROVE  /\ pages[stack'[p][i].blk].type # "new"
                 /\ i \in 1..Len(stack'[p]) - 1 => pages[stack'[p][i].blk].type = "inner"
      <4>1. i \in 1..Depth(p) /\ stack'[p][i].blk = stack[p][i].blk BY <3>1, <3>2
      <4>2. i \in 1..Len(stack'[p]) - 1 => i \in 1..Len(stack[p]) - 1 BY <3>1
      <4> QED BY <2>1, <3>1, <4>1, <4>2 DEF UsedFrames
    <3> QED BY <3>3 DEF UsedFrames
  <2> QED BY <2>1, <2>4
<1>29. UsedFrames(stack'[p], pages') /\ \A w \in bfs[p] : UsedFrames(w, pages')
  BY <1>27, <1>28, UsedLater
<1>30. ProcStruct(p)'
  BY <1>15, <1>16, <1>25, <1>29 DEF ProcStruct, Unmoved, st, xl, label, pgs, fixing
<1> QED BY <1>3, <1>26, <1>30, StructStep

\* The stack has the same pages after the insertion.
LEMMA DownlinkStack ==
  ASSUME IInv, NEW p \in Inserters, InsertDownlink(p)
  PROVE  Len(stack'[p]) = Depth(p) /\ \A i \in 1..Depth(p) : stack'[p][i].blk = stack[p][i].blk
<1>1. /\ stack[p] \in Seq(Frame) /\ ChildIx(p) \in 1..Depth(p) /\ Depth(p) = Len(stack[p])
  <2>1. pc[p] \in Splitting BY DEF InsertDownlink, Finishing, Splitting
  <2>2. stack[p] \in Seq(Frame) /\ ChildIx(p) \in 2..Depth(p) /\ Depth(p) \in Nat BY <2>1, CallFacts
  <2> QED BY <2>2 DEF Depth
<1>2. stack' = IF Len(fin[p][1].halves) > 2 THEN stack
               ELSE [stack EXCEPT ![p][ChildIx(p)].retry = TRUE]
  BY DEF InsertDownlink
<1>3. CASE Len(fin[p][1].halves) > 2 BY <1>2, <1>3 DEF Depth
<1>4. CASE ~(Len(fin[p][1].halves) > 2)
  <2> DEFINE j == ChildIx(p)
             g == [stack[p][j] EXCEPT !.retry = TRUE]
  <2>1. stack'[p] = [stack[p] EXCEPT ![j] = g] BY <1>2, <1>4 DEF IInv, TypeOK
  <2>2. j \in 1..Len(stack[p]) /\ stack[p][j] \in Frame BY <1>1
  <2>3. g.blk = stack[p][j].blk /\ g \in Frame BY <2>2 DEF Frame
  <2> HIDE DEF g, j
  <2>4. /\ Len([stack[p] EXCEPT ![j] = g]) = Len(stack[p])
        /\ \A i \in 1..Len(stack[p]) : [stack[p] EXCEPT ![j] = g][i] =
                                         IF i = j THEN g ELSE stack[p][i]
    BY <1>1, <2>2, <2>3, ExceptSeq
  <2> QED BY <1>1, <2>1, <2>3, <2>4
<1> QED BY <1>3, <1>4

\* mgistfinishsplit inserts one downlink, or replaces one when it reaches the last half.
LEMMA InsertDownlinkStruct ==
  ASSUME IInv, StructInv, NEW p \in Inserters, InsertDownlink(p)
  PROVE  StructInv' /\ Logged
<1> DEFINE f == fin[p][1]
           n == Len(f.halves)
           par == ParentBlk(p)
           left == f.halves[n - 1].blk
           N == ParentItems(p)
           fs == Remaining(p)
           done == LetGo(f) \cup (IF n = 2 THEN {par} ELSE {})
           label == IF fs = <<>> THEN "return" ELSE "finish"
<1>1. /\ pc[p] = "finish" /\ f.locked /\ lsn' = lsn + 1
      /\ DownlinksOn(par, ChildBlk(p)) # {} /\ ~pages[par].follow
      /\ bfs' = bfs
  BY DEF InsertDownlink, Finishing
<1>2. IInv' /\ Grown /\ OthersSame(p) BY InsertDownlinkOK
<1>3. /\ Len(stack'[p]) = Depth(p)
      /\ \A i \in 1..Depth(p) : stack'[p][i].blk = stack[p][i].blk
  BY DownlinkStack
<1>4. left = LeftOf(f) BY DEF LeftOf
<1>5. WriteOK(par, N, left) BY <1>1, DownlinkOK
<1>6. GoodPages(pages, lsn) BY DEF IInv
<1>7. bfs'[p] = bfs[p] BY <1>1
<1>8. fin \in [Inserters -> Seq(Call)] /\ pc \in [Inserters -> PCs] BY DEF IInv, TypeOK
<1>9. f \in Call /\ f.up \in Nat BY <1>1, CallFacts DEF Splitting
<1>10. \/ Fits(par, N) /\ pages' = FitPages(par, N, left)
          /\ xlock' = Unlocked(done) /\ fin' = [fin EXCEPT ![p] = fs]
          /\ pc' = [pc EXCEPT ![p] = label]
       \/ /\ par = Root
          /\ \E P \in Partitions(par, N) : \E blks \in FreshBlocks(Len(P)) :
               pages' = RootSplitPages(P, blks, left)
          /\ xlock' = Unlocked(done) /\ fin' = [fin EXCEPT ![p] = fs]
          /\ pc' = [pc EXCEPT ![p] = label]
       \/ /\ par # Root
          /\ \E P \in Partitions(par, N) : \E new \in FreshBlocks(Len(P) - 1) :
               LET blks == <<par>> \o new IN
               /\ pages' = SplitPages(par, P, blks, left)
               /\ xlock' = [b \in Blocks |->
                    IF b \in LetGo(f) THEN NoProc
                    ELSE IF \E i \in DOMAIN new : new[i] = b THEN p ELSE xlock[b]]
               /\ fin' = [fin EXCEPT ![p] =
                    <<[up |-> f.up + 1, halves |-> HalvesOf(P, blks),
                       unlock |-> n = 2, locked |-> FALSE]>> \o Remaining(p)]
          /\ UNCHANGED pc
  BY DEF InsertDownlink, Proceed
<1> HIDE DEF f, par, left, N, fs
<1>11. ASSUME Writes(pages', par, N, left), xlock' = Unlocked(done),
              fin' = [fin EXCEPT ![p] = fs], pc' = [pc EXCEPT ![p] = label]
       PROVE  StructInv' /\ Logged
  <2>1. fin'[p] = fs /\ pc'[p] \in {"return", "finish"} BY <1>8, <1>11
  <2>2. xlock' = Unlocked(LetGo(f) \cup (IF Len(f.halves) = 2 THEN {par} ELSE {})) BY <1>11
  <2> HIDE DEF n, done, label
  <2> QED BY <1>1, <1>2, <1>3, <1>4, <1>5, <1>7, <1>11, <2>1, <2>2, DownlinkDoneStruct
             DEF f, par, fs
<1>12. CASE /\ Fits(par, N) /\ pages' = FitPages(par, N, left)
            /\ xlock' = Unlocked(done) /\ fin' = [fin EXCEPT ![p] = fs]
            /\ pc' = [pc EXCEPT ![p] = label]
  <2>1. Writes(pages', par, N, left) BY <1>5, <1>6, <1>12, FittedFacts DEF Writes
  <2> QED BY <1>11, <1>12, <2>1
<1>13. CASE /\ par = Root
            /\ \E P \in Partitions(par, N) : \E blks \in FreshBlocks(Len(P)) :
                 pages' = RootSplitPages(P, blks, left)
            /\ xlock' = Unlocked(done) /\ fin' = [fin EXCEPT ![p] = fs]
            /\ pc' = [pc EXCEPT ![p] = label]
  <2>0. PICK P \in Partitions(par, N) : \E blks \in FreshBlocks(Len(P)) :
          pages' = RootSplitPages(P, blks, left)
    BY <1>13
  <2>1. PICK blks \in FreshBlocks(Len(P)) : pages' = RootSplitPages(P, blks, left) BY <2>0
  <2>2. RootDivided(pages', N, left, P, blks) BY <1>5, <1>6, <1>13, <2>1, RootDividedFacts
  <2>3. blks \in Seq(Blocks) BY <2>2 DEF RootDivided
  <2>4. Writes(pages', par, N, left) BY <1>13, <2>2, <2>3 DEF Writes
  <2> QED BY <1>11, <1>13, <2>4
<1>14. CASE /\ par # Root
            /\ \E P \in Partitions(par, N) : \E new \in FreshBlocks(Len(P) - 1) :
                 LET blks == <<par>> \o new IN
                 /\ pages' = SplitPages(par, P, blks, left)
                 /\ xlock' = [b \in Blocks |->
                      IF b \in LetGo(f) THEN NoProc
                      ELSE IF \E i \in DOMAIN new : new[i] = b THEN p ELSE xlock[b]]
                 /\ fin' = [fin EXCEPT ![p] =
                      <<[up |-> f.up + 1, halves |-> HalvesOf(P, blks),
                         unlock |-> n = 2, locked |-> FALSE]>> \o Remaining(p)]
            /\ UNCHANGED pc
  <2>0. PICK P \in Partitions(par, N) : \E new \in FreshBlocks(Len(P) - 1) :
             LET blks == <<par>> \o new IN
             /\ pages' = SplitPages(par, P, blks, left)
             /\ xlock' = [b \in Blocks |->
                  IF b \in LetGo(f) THEN NoProc
                  ELSE IF \E i \in DOMAIN new : new[i] = b THEN p ELSE xlock[b]]
             /\ fin' = [fin EXCEPT ![p] =
                  <<[up |-> f.up + 1, halves |-> HalvesOf(P, blks),
                     unlock |-> n = 2, locked |-> FALSE]>> \o Remaining(p)]
    BY <1>14
  <2>1. PICK new \in FreshBlocks(Len(P) - 1) :
             /\ pages' = SplitPages(par, P, <<par>> \o new, left)
             /\ xlock' = [b \in Blocks |->
                  IF b \in LetGo(f) THEN NoProc
                  ELSE IF \E i \in DOMAIN new : new[i] = b THEN p ELSE xlock[b]]
             /\ fin' = [fin EXCEPT ![p] =
                  <<[up |-> f.up + 1, halves |-> HalvesOf(P, <<par>> \o new),
                     unlock |-> n = 2, locked |-> FALSE]>> \o Remaining(p)]
    BY <2>0
  <2> DEFINE blks == <<par>> \o new
             c == [up |-> f.up + 1, halves |-> HalvesOf(P, blks), unlock |-> n = 2,
                   locked |-> FALSE]
  <2>2. Divided(pages', par, N, left, P, blks)
    BY <1>5, <1>6, <1>14, <2>1, DividedFacts
  <2>3. /\ Len(blks) = Len(P) /\ Len(P) \in Nat /\ Len(P) >= 2
        /\ \A i \in 2..Len(P) : blks[i] = new[i - 1]
        /\ DOMAIN new = 1..Len(P) - 1
    <3>1. Len(P) \in Nat /\ Len(P) >= 2
      <4>1. par \in Blocks /\ pages[par].type \in InTree BY <1>5 DEF WriteOK
      <4> QED BY <4>1, <1>6, PartitionFacts
    <3>2. new \in [1..Len(P) - 1 -> Blocks] BY DEF FreshBlocks, Unused
    <3>3. new \in Seq(Blocks) /\ Len(new) = Len(P) - 1 BY <3>1, <3>2
    <3>4. par \in Blocks BY <1>5 DEF WriteOK
    <3>5. <<par>> \in Seq(Blocks) /\ Len(<<par>>) = 1 BY <3>4
    <3>6. /\ Len(blks) = 1 + Len(new)
          /\ \A i \in 1..1 + Len(new) : blks[i] = IF i <= 1 THEN <<par>>[i] ELSE new[i - 1]
      BY <3>3, <3>5, ConcatProperties
    <3> HIDE DEF blks
    <3>7. Len(blks) = Len(P) BY <3>1, <3>3, <3>6
    <3>8. \A i \in 2..Len(P) : i \in 1..1 + Len(new) /\ ~(i <= 1) BY <3>1, <3>3
    <3> QED BY <3>1, <3>2, <3>3, <3>6, <3>7, <3>8
  <2>4. HalvesOf(P, blks) \in Seq(Half)
    <3>1. /\ par \in Blocks \ {Root} /\ pages[par].type \in InTree /\ TuplesFor(par, N)
          /\ left \in (Blocks \ {Root}) \cup {NoBlock}
      BY <1>5, <1>14 DEF WriteOK
    <3>2. left # NoBlock => pages[left].type \in InTree
      BY <1>5, <1>6, BlocksAssumption DEF WriteOK, GoodPages, GoodPage, Page
    <3> QED BY <3>1, <3>2, <1>6, SplitOK
  <2>5. c \in Call BY <1>9, <2>4 DEF Call
  <2>6. c.up = f.up + 1 /\ c.halves = HalvesOf(P, blks) /\ ~c.locked
        /\ (c.unlock => Len(f.halves) = 2)
    OBVIOUS
  <2>7. fin'[p] = <<c>> \o Remaining(p) /\ pc'[p] = "finish" BY <1>1, <1>8, <1>14, <2>1
  <2> HIDE DEF c, blks, n
  <2>8. xlock' = [b \in Blocks |->
                    IF b \in LetGo(f) THEN NoProc
                    ELSE IF \E i \in 2..Len(blks) : blks[i] = b THEN p ELSE xlock[b]]
    <3>1. ASSUME NEW b
          PROVE  (\E i \in DOMAIN new : new[i] = b) <=> (\E i \in 2..Len(blks) : blks[i] = b)
      <4>1. ASSUME NEW i \in DOMAIN new, new[i] = b PROVE \E k \in 2..Len(blks) : blks[k] = b
        <5>1. i + 1 \in 2..Len(P) /\ i + 1 - 1 = i BY <2>3
        <5> QED BY <4>1, <5>1, <2>3
      <4>2. ASSUME NEW i \in 2..Len(blks), blks[i] = b PROVE \E k \in DOMAIN new : new[k] = b
        <5>1. i - 1 \in DOMAIN new BY <2>3
        <5> QED BY <4>2, <5>1, <2>3
      <4> QED BY <4>1, <4>2
    <3> QED BY <2>1, <3>1
  <2>9. par # Root BY <1>14
  <2> HIDE DEF n, done, label
  <2> QED BY <1>1, <1>2, <1>3, <1>4, <1>5, <1>7, <2>2, <2>5, <2>6, <2>7, <2>8, <2>9,
             DownlinkSplitStruct DEF f, par
<1> QED BY <1>10, <1>12, <1>13, <1>14
-----------------------------------------------------------------------------
(***************************************************************************)
(* The end of an insertion, failures, scans.                               *)
(***************************************************************************)
\* Back in mgistdoinsert, the entry is in or the stack is popped.
LEMMA FinishReturnStruct ==
  ASSUME IInv, StructInv, NEW p \in Inserters, FinishReturn(p) PROVE StructInv' /\ Logged
<1>1. pc[p] = "return" /\ UNCHANGED <<pages, lsn, child, fin, ret, bfs, scan, aborts, errs>>
  BY DEF FinishReturn
<1>2. IInv' /\ Grown /\ OthersSame(p) BY FinishReturnOK
<1>3. fin[p] = <<>> BY <1>1, NoCalls DEF Splitting
<1>4. Len(stack[p]) >= 2 /\ Depth(p) >= 2 BY <1>1 DEF IInv, ProcOK, Depth
<1>5. CASE EntryDone(p)
  <2>1. Respects(p) /\ pc'[p] \in {"visit", "idle"} /\ UsedFrames(stack'[p], pages)
    BY <1>5, EntryDoneFacts
  <2> QED BY <1>1, <1>2, <1>3, <2>1, WandersStruct DEF Unmoved
<1>6. CASE PopTo(p) /\ xlock' = Released(p) /\ Proceed(p, "visit")
  <2>1. Respects(p) BY <1>6, ReleaseRespects
  <2>2. pc'[p] = "visit" /\ stack'[p] = SubSeq(stack[p], 1, Depth(p) - 1)
    BY <1>6 DEF PopTo, Proceed, IInv, TypeOK
  <2>3. UsedFrames(stack'[p], pages) BY <1>1, <1>4, <2>2, StacksUsed
  <2> QED BY <1>1, <1>2, <1>3, <2>1, <2>2, <2>3, WandersStruct DEF Unmoved
<1> QED BY <1>5, <1>6 DEF FinishReturn

\* A backend that gives up leaves its splits unfinished, the ways in as they are.
LEMMA AbandonStruct ==
  ASSUME IInv, StructInv, NEW p \in Inserters, IInv' /\ Grown /\ OthersSame(p), Abandon(p)
  PROVE  StructInv' /\ Logged
<1>1. /\ xlock' = Released(p) /\ UNCHANGED pages
      /\ stack'[p] = <<>> /\ fin'[p] = <<>> /\ bfs'[p] = {} /\ pc'[p] = "idle"
  BY DEF Abandon, Proceed, IInv, TypeOK
<1>2. Respects(p) BY <1>1, ReleaseRespects
<1>3. UsedFrames(stack'[p], pages) BY <1>1, RootUsed DEF IInv
<1> QED BY <1>1, <1>2, <1>3, WandersStruct DEF Unmoved

\* After a crash nobody holds anything, and the pages are what they were.
LEMMA CrashStruct == ASSUME IInv, StructInv, Crash PROVE StructInv' /\ Logged
<1>1. UNCHANGED pages /\ \A b \in Blocks : xlock'[b] = NoProc BY DEF Crash
<1>2. ASSUME NEW p \in Inserters PROVE ProcStruct(p)'
  <2>1. stack'[p] = <<>> /\ fin'[p] = <<>> /\ bfs'[p] = {} /\ pc'[p] = "idle" BY DEF Crash
  <2>2. UsedFrames(stack'[p], pages') BY <1>1, <2>1, RootUsed DEF IInv
  <2>3. SplitsOK(p, fin'[p], pc'[p] = "fixchain", stack'[p], pages', xlock') BY <2>1, NoSplits
  <2> QED BY <2>1, <2>2, <2>3 DEF ProcStruct, Unmoved
<1>3. Held(xlock', pages') BY <1>1 DEF Held
<1> QED BY <1>1, <1>2, <1>3 DEF StructInv, SplitAtomic, OneWrite, HandsOff, Logged

\* Scans change no page and no backend.
LEMMA IdleStruct ==
  ASSUME StructInv, UNCHANGED <<treeVars, procVars>> PROVE StructInv' /\ Logged
<1>1. UNCHANGED <<pages, xlock, stack, bfs, fin, pc>> BY DEF treeVars, procVars
<1>2. \A p \in Inserters : ProcStruct(p)' BY <1>1 DEF StructInv, ProcStruct
<1>3. OneWay(pages') /\ FreshLinks(pages') /\ Held(xlock', pages') BY <1>1 DEF StructInv
<1> QED BY <1>1, <1>2, <1>3 DEF StructInv, SplitAtomic, OneWrite, HandsOff, Logged
-----------------------------------------------------------------------------
(***************************************************************************)
(* The theorems.                                                           *)
(***************************************************************************)
\* The ways into the pages of an index as CREATE INDEX leaves it.
LEMMA TreeWays ==
  ASSUME NEW t \in InitTrees
  PROVE  LET D == DOMAIN t.items
             I == t.inner \cap D
         IN /\ \A a, b \in I : \A i \in t.items[a], j \in t.items[b] : i.ptr = j.ptr => a = b /\ i = j
            /\ \A a, b \in t.follow : t.right[a] = t.right[b] => a = b
            /\ \A a \in I, b \in t.follow : \A i \in t.items[a] : i.ptr # t.right[b]
            /\ \A a \in I : \A i \in t.items[a] : i.ptr \in D \ {Root}
            /\ \A b \in t.follow : t.right[b] \in D \ {Root}
            /\ \A c \in D \ {Root} : \/ \E a \in I : \E i \in t.items[a] : i.ptr = c
                                     \/ \E b \in t.follow : t.right[b] = c
<1> DEFINE D == DOMAIN t.items
           I == t.inner \cap D
           links(c) == UNION {{<<b, i>> : i \in {j \in t.items[b] : j.ptr = c}} : b \in I}
           lefts(c) == {<<b>> : b \in {x \in t.follow : t.right[x] = c}}
           ways(c) == links(c) \cup lefts(c)
<1>1. /\ D \subseteq Blocks /\ t.follow \subseteq D \ {Root}
      /\ \A b \in D : \A i \in t.items[b] : i.ptr \in IF b \in t.inner THEN Blocks ELSE Entries
      /\ t.right \in [D -> (D \ {Root}) \cup {NoBlock}]
  BY InitAssumption DEF InitTree
<1>2. /\ \A b \in t.follow : t.right[b] # NoBlock
      /\ \A c \in Blocks : IF c \in D \ {Root} THEN \E w \in ways(c) : ways(c) = {w}
                           ELSE ways(c) = {}
  BY OneWayAssumption DEF OneWayTree
<1>3. \A a \in I : \A i \in t.items[a] : i.ptr \in Blocks BY <1>1
<1>4. \A a \in I : \A i \in t.items[a] : <<a, i>> \in links(i.ptr) OBVIOUS
<1>5. \A b \in t.follow : <<b>> \in lefts(t.right[b]) OBVIOUS
<1>6. \A c : \A w \in links(c) : \E a \in I : \E i \in t.items[a] : i.ptr = c OBVIOUS
<1>7. \A c : \A w \in lefts(c) : \E b \in t.follow : t.right[b] = c OBVIOUS
<1>8. \A c : \A w : w \in ways(c) <=> w \in links(c) \/ w \in lefts(c) OBVIOUS
<1> HIDE DEF D, I, links, lefts, ways
<1>9. \A b \in t.follow : t.right[b] \in D \ {Root} BY <1>1, <1>2
<1>10. \A a \in I : \A i \in t.items[a] : i.ptr \in D \ {Root} BY <1>2, <1>3, <1>4, <1>8
<1>11. \A c \in D \ {Root} : \A v, w \in ways(c) : v = w BY <1>1, <1>2
<1>12. ASSUME NEW a \in I, NEW b \in I, NEW i \in t.items[a], NEW j \in t.items[b], i.ptr = j.ptr
       PROVE  a = b /\ i = j
  <2>1. <<a, i>> = <<b, j>> BY <1>4, <1>8, <1>10, <1>11, <1>12
  <2> QED BY <2>1
<1>13. ASSUME NEW a \in t.follow, NEW b \in t.follow, t.right[a] = t.right[b] PROVE a = b
  <2>1. <<a>> = <<b>> BY <1>5, <1>8, <1>9, <1>11, <1>13
  <2> QED BY <2>1
<1>14. ASSUME NEW a \in I, NEW b \in t.follow, NEW i \in t.items[a] PROVE i.ptr # t.right[b]
  <2> SUFFICES ASSUME i.ptr = t.right[b] PROVE FALSE OBVIOUS
  <2>1. <<a, i>> = <<b>> BY <1>4, <1>5, <1>8, <1>9, <1>11
  <2>2. Len(<<a, i>>) = 2 /\ Len(<<b>>) = 1 OBVIOUS
  <2> QED BY <2>1, <2>2
<1>15. ASSUME NEW c \in D \ {Root}
       PROVE  \/ \E a \in I : \E i \in t.items[a] : i.ptr = c
              \/ \E b \in t.follow : t.right[b] = c
  <2>1. PICK w \in ways(c) : TRUE BY <1>1, <1>2
  <2> QED BY <2>1, <1>6, <1>7, <1>8
<1> QED BY <1>9, <1>10, <1>12, <1>13, <1>14, <1>15 DEF D, I

\* An index as CREATE INDEX or a crash left it has that shape.
LEMMA InitStruct == Init => StructInv
<1> SUFFICES ASSUME Init PROVE StructInv OBVIOUS
<1>1. PICK t \in InitTrees : pages = InitPages(t) BY DEF Init
<1> DEFINE D == DOMAIN t.items
           I == t.inner \cap D
<1>2. /\ D \subseteq Blocks /\ t.follow \subseteq D \ {Root}
  BY InitAssumption DEF InitTree
<1>3. /\ \A a, b \in I : \A i \in t.items[a], j \in t.items[b] : i.ptr = j.ptr => a = b /\ i = j
      /\ \A a, b \in t.follow : t.right[a] = t.right[b] => a = b
      /\ \A a \in I, b \in t.follow : \A i \in t.items[a] : i.ptr # t.right[b]
      /\ \A a \in I : \A i \in t.items[a] : i.ptr \in D \ {Root}
      /\ \A b \in t.follow : t.right[b] \in D \ {Root}
      /\ \A c \in D \ {Root} : \/ \E a \in I : \E i \in t.items[a] : i.ptr = c
                               \/ \E b \in t.follow : t.right[b] = c
  BY TreeWays
<1> HIDE DEF D
<1> DEFINE used(b) == [type |-> IF b \in t.inner THEN "inner" ELSE "leaf", items |-> t.items[b],
                        right |-> t.right[b], nsn |-> 0, lsn |-> BuildLSN,
                        follow |-> b \in t.follow]
<1>4. \A b \in Blocks : /\ b \in D => pages[b] = used(b)
                        /\ b \notin D => pages[b] = EmptyPage
  BY <1>1 DEF InitPages, D
<1>14. \A b : /\ used(b).type = IF b \in t.inner THEN "inner" ELSE "leaf"
              /\ used(b).items = t.items[b] /\ used(b).right = t.right[b]
              /\ used(b).nsn = 0 /\ used(b).lsn = BuildLSN
              /\ used(b).follow = (b \in t.follow)
  OBVIOUS
<1>15. /\ EmptyPage.type = "new" /\ EmptyPage.items = {} /\ EmptyPage.nsn = 0
       /\ EmptyPage.follow = FALSE
  BY DEF EmptyPage
<1> HIDE DEF used
<1>16. \A b \in Blocks :
         /\ b \in D => /\ pages[b].type = IF b \in t.inner THEN "inner" ELSE "leaf"
                       /\ pages[b].items = t.items[b] /\ pages[b].right = t.right[b]
                       /\ pages[b].nsn = 0 /\ pages[b].lsn = BuildLSN
                       /\ pages[b].follow = (b \in t.follow)
         /\ b \notin D => /\ pages[b].type = "new" /\ pages[b].nsn = 0
                          /\ pages[b].follow = FALSE
  BY <1>4, <1>14, <1>15
<1>5. \A b \in Blocks : /\ pages[b].type \in InTree <=> b \in D
                        /\ pages[b].follow <=> b \in t.follow
                        /\ b \in D => pages[b].right = t.right[b]
                        /\ pages[b].nsn = 0
                        /\ b \in D => pages[b].lsn = BuildLSN
  <2> TAKE b \in Blocks
  <2>1. CASE b \in D BY <2>1, <1>16
  <2>2. CASE b \notin D BY <2>2, <1>2, <1>16
  <2> QED BY <2>1, <2>2
<1>6. \A b \in Blocks : LinksOn(pages[b]) = IF b \in I THEN t.items[b] ELSE {}
  <2> TAKE b \in Blocks
  <2>1. CASE b \in I
    <3>1. b \in D /\ b \in t.inner BY <2>1
    <3> QED BY <2>1, <3>1, <1>16 DEF LinksOn
  <2>2. CASE b \notin I
    <3>1. pages[b].type # "inner" BY <2>2, <1>16
    <3> QED BY <2>2, <3>1 DEF LinksOn
  <2> QED BY <2>1, <2>2
<1>7. \A c : InUse(c, pages) /\ c \in Blocks <=> c \in D \ {Root} BY <1>2, <1>5 DEF InUse
<1>8. OneWay(pages)
  <2>1. \A a \in Blocks : \A d \in LinksOn(pages[a]) : a \in I /\ d \in t.items[a] BY <1>6
  <2>2. \A b \in Blocks : pages[b].follow => b \in t.follow /\ pages[b].right = t.right[b]
    BY <1>2, <1>5
  <2>3. ASSUME NEW a \in Blocks, NEW b \in Blocks, NEW d \in LinksOn(pages[a])
        PROVE  /\ d.ptr \in Blocks /\ InUse(d.ptr, pages)
               /\ pages[b].follow => d.ptr # pages[b].right
    BY <2>1, <2>2, <1>2, <1>3, <1>7
  <2>4. ASSUME NEW c \in Blocks, InUse(c, pages) PROVE Linked(pages, c) \/ Awaited(pages, c)
    <3>1. c \in D \ {Root} BY <2>4, <1>7
    <3>2. CASE \E a \in I : \E i \in t.items[a] : i.ptr = c
      <4>1. PICK a \in I : \E i \in t.items[a] : i.ptr = c BY <3>2
      <4>2. a \in Blocks BY <1>2
      <4> QED BY <4>1, <4>2, <1>6 DEF Linked
    <3>3. CASE \E b \in t.follow : t.right[b] = c
      <4>1. PICK b \in t.follow : t.right[b] = c BY <3>3
      <4>2. b \in Blocks /\ b \in D BY <1>2
      <4> QED BY <4>1, <4>2, <1>5 DEF Awaited
    <3> QED BY <3>1, <3>2, <3>3, <1>3
  <2>5. \A a, b \in Blocks : \A d \in LinksOn(pages[a]), e \in LinksOn(pages[b]) :
          d.ptr = e.ptr => a = b /\ d = e
    BY <2>1, <1>3
  <2>6. /\ \A a, b \in Blocks :
             pages[a].follow /\ pages[b].follow /\ pages[a].right = pages[b].right => a = b
        /\ \A b \in Blocks : pages[b].follow => pages[b].right \in Blocks
    BY <2>2, <1>2, <1>3
  <2> QED BY <2>3, <2>4, <2>5, <2>6 DEF OneWay
<1>9. FreshLinks(pages)
  <2> SUFFICES ASSUME NEW b \in Blocks, NEW d \in LinksOn(pages[b])
               PROVE  pages[d.ptr].nsn <= pages[b].lsn
    BY DEF FreshLinks
  <2>1. b \in I /\ d.ptr \in Blocks BY <1>2, <1>3, <1>6
  <2> QED BY <2>1, <1>5 DEF BuildLSN
<1>10. Held(xlock, pages) BY DEF Init, Held
<1>11. ASSUME NEW p \in Inserters PROVE ProcStruct(p)
  <2>1. stack[p] = <<>> /\ fin[p] = <<>> /\ bfs[p] = {} /\ pc[p] = "idle" BY DEF Init
  <2>2. UsedFrames(stack[p], pages) BY <2>1 DEF UsedFrames
  <2>3. SplitsOK(p, fin[p], pc[p] = "fixchain", stack[p], pages, xlock) BY <2>1, NoSplits
  <2> QED BY <2>1, <2>2, <2>3 DEF ProcStruct, Unmoved
<1> QED BY <1>8, <1>9, <1>10, <1>11 DEF StructInv

\* Every step keeps the shape of the tree and finishes a split at once.
LEMMA StepStruct ==
  ASSUME IInv, StructInv, NEW p \in Inserters, Step(p) PROVE StructInv' /\ Logged
<1>1. CASE FindPathError(p) BY <1>1, FindPathErrorOK, AbandonStruct DEF FindPathError
<1>2. CASE InsertDownlinkError(p)
  BY <1>2, InsertDownlinkErrorOK, AbandonStruct DEF InsertDownlinkError
<1> QED BY <1>1, <1>2, PopRetryStruct, VisitStaleStruct, VisitInnerStruct,
           VisitAdjustStruct, VisitLeafStruct, VisitFollowStruct, LockInnerStruct,
           LockLeafStruct, LockFixStruct, FixChainStruct, FinishLockStruct,
           FinishMoveRightStruct, FindPathStepStruct, InsertDownlinkStruct,
           FinishReturnStruct DEF Step

LEMMA NextStruct == IInv /\ StructInv /\ [Next]_vars => StructInv' /\ Logged
<1> SUFFICES ASSUME IInv, StructInv, [Next]_vars PROVE StructInv' /\ Logged OBVIOUS
<1>1. CASE UNCHANGED vars BY <1>1, IdleStruct DEF vars
<1>2. ASSUME NEW p \in Inserters, NEW r \in Rows, BeginRow(p, r) PROVE StructInv' /\ Logged
  BY <1>2, BeginRowStruct
<1>3. ASSUME NEW p \in Inserters, Step(p) PROVE StructInv' /\ Logged BY <1>3, StepStruct
<1>4. ASSUME NEW p \in Inserters, Fail(p) PROVE StructInv' /\ Logged
  BY <1>4, FailOK, AbandonStruct DEF Fail
<1>5. CASE Crash BY <1>5, CrashStruct
<1>6. ASSUME NEW s \in Scanners, NEW k \in Keys, ScanStart(s, k) PROVE StructInv' /\ Logged
  BY <1>6, IdleStruct DEF ScanStart
<1>7. ASSUME NEW s \in Scanners, ScanStep(s) PROVE StructInv' /\ Logged
  BY <1>7, IdleStruct DEF ScanStep, ScanPage, ScanEnd
<1> QED BY <1>1, <1>2, <1>3, <1>4, <1>5, <1>6, <1>7 DEF Next

\* The shape of the tree is an invariant.
THEOREM StructInductive == Spec => []StructInv
<1>1. IInv /\ StructInv /\ [Next]_vars => StructInv' BY NextStruct
<1> QED BY <1>1, InitStruct, Inductive, PTL DEF Spec

\* A downlink in the sense of MGistTree.
LEMMA LinkedDownlinks ==
  /\ \A c : Linked(pages, c) <=> \E x \in AllDownlinks : x[2].ptr = c
  /\ \A c : Linked(pages', c) <=> \E x \in AllDownlinks' : x[2].ptr = c
<1>1. \A x : x \in AllDownlinks <=> \E b \in Blocks : \E d \in LinksOn(pages[b]) : x = <<b, d>>
  BY DEF AllDownlinks, Inner, LinksOn
<1>2. \A x : x \in AllDownlinks' <=> \E b \in Blocks : \E d \in LinksOn(pages'[b]) : x = <<b, d>>
  BY DEF AllDownlinks, Inner, LinksOn
<1>3. \A b, d : <<b, d>>[2] = d OBVIOUS
<1>4. ASSUME NEW c PROVE Linked(pages, c) <=> \E x \in AllDownlinks : x[2].ptr = c
  <2>1. ASSUME Linked(pages, c) PROVE \E x \in AllDownlinks : x[2].ptr = c
    <3>1. PICK b \in Blocks : \E d \in LinksOn(pages[b]) : d.ptr = c BY <2>1 DEF Linked
    <3>2. PICK d \in LinksOn(pages[b]) : d.ptr = c BY <3>1
    <3>3. <<b, d>> \in AllDownlinks BY <3>2, <1>1
    <3> QED BY <3>2, <3>3, <1>3
  <2>2. ASSUME NEW x \in AllDownlinks, x[2].ptr = c PROVE Linked(pages, c)
    BY <2>2, <1>1, <1>3 DEF Linked
  <2> QED BY <2>1, <2>2
<1>5. ASSUME NEW c PROVE Linked(pages', c) <=> \E x \in AllDownlinks' : x[2].ptr = c
  <2>1. ASSUME Linked(pages', c) PROVE \E x \in AllDownlinks' : x[2].ptr = c
    <3>1. PICK b \in Blocks : \E d \in LinksOn(pages'[b]) : d.ptr = c BY <2>1 DEF Linked
    <3>2. PICK d \in LinksOn(pages'[b]) : d.ptr = c BY <3>1
    <3>3. <<b, d>> \in AllDownlinks' BY <3>2, <1>2
    <3> QED BY <3>2, <3>3, <1>3
  <2>2. ASSUME NEW x \in AllDownlinks', x[2].ptr = c PROVE Linked(pages', c)
    BY <2>2, <1>2, <1>3 DEF Linked
  <2> QED BY <2>1, <2>2
<1> QED BY <1>4, <1>5

\* No child was split after its parent was written.
LEMMA FreshParents == StructInv => FreshParentSuffices
<1> SUFFICES ASSUME StructInv, NEW x \in AllDownlinks
             PROVE  pages[x[2].ptr].nsn <= pages[x[1]].lsn
  BY DEF FreshParentSuffices
<1>1. PICK b \in Inner : \E d \in pages[b].items : x = <<b, d>> BY DEF AllDownlinks
<1>2. PICK d \in pages[b].items : x = <<b, d>> BY <1>1
<1>3. b \in Blocks /\ d \in LinksOn(pages[b]) BY DEF Inner, LinksOn
<1> QED BY <1>2, <1>3 DEF StructInv, FreshLinks

\* Who reads a parent needs no right link for a split that is finished, so a backend
\* that mgistdoinsert sends back to the parent is not sent back for ever.
THEOREM ParentsFresh == Spec => []FreshParentSuffices
BY FreshParents, StructInductive, PTL

\* A split that is finished appears in one step: F_FOLLOW_RIGHT goes off, the first
\* downlink of the right sibling and the new NSN come with the same WAL record.
THEOREM SplitsFinishAtOnce == Spec => FinishAtomic
<1> DEFINE Atomic == \A b \in Blocks : pages[b].follow /\ ~pages'[b].follow =>
                       LET r == pages[b].right IN
                       /\ ~\E x \in AllDownlinks : x[2].ptr = r
                       /\ (\E x \in AllDownlinks : x[2].ptr = r)'
                       /\ pages'[b].right = r /\ pages'[b].nsn = lsn'
<1>1. IInv /\ StructInv /\ [Next]_vars => [Atomic]_vars
  <2> SUFFICES ASSUME IInv, StructInv, [Next]_vars PROVE Atomic OBVIOUS
  <2>1. SplitAtomic BY NextStruct DEF Logged
  <2> SUFFICES ASSUME NEW b \in Blocks, pages[b].follow, ~pages'[b].follow
               PROVE  LET r == pages[b].right IN
                      /\ ~\E x \in AllDownlinks : x[2].ptr = r
                      /\ \E x \in AllDownlinks' : x[2].ptr = pages'[b].right
                      /\ pages'[b].right = r /\ pages'[b].nsn = lsn'
    OBVIOUS
  <2>2. /\ ~Linked(pages, pages[b].right) /\ Linked(pages', pages[b].right)
        /\ pages'[b].right = pages[b].right /\ pages'[b].nsn = lsn'
    BY <2>1 DEF SplitAtomic
  <2> QED BY <2>2, LinkedDownlinks
<1> QED BY <1>1, StructInductive, Inductive, PTL DEF Spec, FinishAtomic

\* One way in, counted.
LEMMA CountWays == IInv /\ StructInv => OneWayIn
<1> SUFFICES ASSUME IInv, StructInv, NEW c \in Blocks \ {Root}
             PROVE  Cardinality({x \in AllDownlinks : x[2].ptr = c}) +
                    Cardinality({b \in {a \in Used : pages[a].follow} : pages[b].right = c})
                      = IF c \in Used THEN 1 ELSE 0
  BY DEF OneWayIn
<1> DEFINE S == {x \in AllDownlinks : x[2].ptr = c}
           T == {b \in {a \in Used : pages[a].follow} : pages[b].right = c}
<1>1. OneWay(pages) BY DEF StructInv
<1>2. \A x \in AllDownlinks : \E b \in Blocks : \E d \in LinksOn(pages[b]) : x = <<b, d>>
  BY DEF AllDownlinks, Inner, LinksOn
<1>3. \A b, d : <<b, d>>[1] = b /\ <<b, d>>[2] = d OBVIOUS
<1>4. \A x, y \in S : x = y
  <2> SUFFICES ASSUME NEW x \in S, NEW y \in S PROVE x = y OBVIOUS
  <2>1. PICK a \in Blocks : \E d \in LinksOn(pages[a]) : x = <<a, d>> BY <1>2
  <2>2. PICK d \in LinksOn(pages[a]) : x = <<a, d>> BY <2>1
  <2>3. PICK b \in Blocks : \E e \in LinksOn(pages[b]) : y = <<b, e>> BY <1>2
  <2>4. PICK e \in LinksOn(pages[b]) : y = <<b, e>> BY <2>3
  <2>5. d.ptr = e.ptr BY <2>2, <2>4, <1>3
  <2>6. a = b /\ d = e BY <2>5, <1>1 DEF OneWay
  <2> QED BY <2>2, <2>4, <2>6
<1>5. \A a, b \in T : a = b BY <1>1 DEF OneWay, Used
<1>6. (\E x \in S : TRUE) <=> Linked(pages, c) BY LinkedDownlinks
<1>7. ASSUME NEW x \in S, NEW b \in T PROVE FALSE
  <2>1. PICK a \in Blocks : \E d \in LinksOn(pages[a]) : d.ptr = c BY <1>6 DEF Linked
  <2>2. b \in Blocks /\ pages[b].follow /\ pages[b].right = c BY DEF Used
  <2> QED BY <2>1, <2>2, <1>1 DEF OneWay
<1>15. \A b \in Blocks :
          /\ b \in Used <=> pages[b].type \in InTree
          /\ pages[b].follow => pages[b].type \in InTree
          /\ pages[b].follow /\ pages[b].right # NoBlock => pages[pages[b].right].type \in InTree
  BY DEF IInv, GoodPages, GoodPage, Page, Used
<1>8. ASSUME NEW b \in Blocks, pages[b].follow PROVE b \in Used BY <1>8, <1>15
<1>9. (\E b \in T : TRUE) <=> Awaited(pages, c) BY <1>8 DEF Awaited, Used
<1>10. c \in Used <=> InUse(c, pages) BY <1>15 DEF InUse
<1>11. Linked(pages, c) => InUse(c, pages) BY <1>1 DEF OneWay, Linked
<1>12. Awaited(pages, c) => InUse(c, pages) BY <1>15, BlocksAssumption DEF Awaited, InUse
<1> HIDE DEF S, T
<1>13. CASE c \notin Used
  <2>1. S = {} /\ T = {} BY <1>13, <1>6, <1>9, <1>10, <1>11, <1>12
  <2>2. Cardinality(S) = 0 /\ Cardinality(T) = 0 BY <2>1, FS_EmptySet
  <2> QED BY <1>13, <2>2 DEF S, T
<1>14. CASE c \in Used
  <2>1. Linked(pages, c) \/ Awaited(pages, c) BY <1>14, <1>10, <1>1 DEF OneWay
  <2>2. CASE Linked(pages, c)
    <3>1. PICK x \in S : TRUE BY <2>2, <1>6
    <3>2. S = {x} /\ T = {} BY <3>1, <1>4, <1>7
    <3>3. Cardinality(S) = 1 /\ Cardinality(T) = 0 BY <3>2, FS_EmptySet, FS_Singleton
    <3> QED BY <1>14, <3>3 DEF S, T
  <2>3. CASE Awaited(pages, c)
    <3>1. PICK b \in T : TRUE BY <2>3, <1>9
    <3>2. T = {b} /\ S = {} BY <3>1, <1>5, <1>7
    <3>3. Cardinality(S) = 0 /\ Cardinality(T) = 1 BY <3>2, FS_EmptySet, FS_Singleton
    <3> QED BY <1>14, <3>3 DEF S, T
  <2> QED BY <2>1, <2>2, <2>3
<1> QED BY <1>13, <1>14 DEF S, T

\* Every page in use but the root has one way in, a downlink or the unfinished split
\* that made it, and no other block has any, whatever backends fail between a split
\* and its downlinks.
THEOREM OneWayInAlways == Spec => []OneWayIn
BY CountWays, StructInductive, Inductive, PTL
=============================================================================
