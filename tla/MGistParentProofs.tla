------------------------- MODULE MGistParentProofs -------------------------
(***************************************************************************)
(* Proofs about MGistTree: mgistfinishsplit always finds the parent of the *)
(* page it has split again, and without a failed backend nobody meets an   *)
(* unfinished split.  The search for the parent, gistFindPath, reads one   *)
(* page at a time while other backends split the pages it has read and     *)
(* those it is about to read.                                              *)
(***************************************************************************)
EXTENDS MGistStructureProofs, NaturalLemmas

(***************************************************************************)
(* The inductive invariant.                                                *)
(***************************************************************************)
USE DEF InTree

\* A set of blocks no way into a page leads out of.
Closed(T, pgs) ==
  \A x \in T : /\ \A d \in LinksOn(pgs[x]) : d.ptr \in T
               /\ pgs[x].follow => pgs[x].right \in T

\* Every page in use is reached from the root.
Rooted(pgs) ==
  \A T \in SUBSET Blocks : Root \in T /\ Closed(T, pgs) =>
    \A b \in Blocks : InUse(b, pgs) => b \in T

\* A set of blocks that who knows a page of it and the LSN l of its parent does not
\* leave to the right.
Rightward(C, l, pgs) ==
  \A x \in C : (pgs[x].follow \/ l < pgs[x].nsn) /\ pgs[x].right # NoBlock => pgs[x].right \in C

\* The page a path of gistFindPath leads to, and the LSN its parent had when it was read.
Last(w) == w[Len(w)].blk
LsnAbove(w) == IF Len(w) > 1 THEN w[Len(w) - 1].lsn ELSE 0

\* The pages a path stands for are all in T: its last one, and those split from it
\* since the parent was read.
CoveredBy(C, w, pgs) == Last(w) \in C /\ Rightward(C, LsnAbove(w), pgs)
Covers(T, ws, pgs) == \A w \in ws : \E C \in SUBSET T : CoveredBy(C, w, pgs)
LeadsTo(T, c, pgs) ==
  \E x \in T : (\E d \in LinksOn(pgs[x]) : d.ptr = c) \/ (pgs[x].follow /\ pgs[x].right = c)

\* The search has not passed the page that leads to c: whatever holds the pages the
\* queued paths stand for, and all that can be reached from them, holds that page.
Ahead(ws, c, pgs) ==
  \A T \in SUBSET Blocks : Closed(T, pgs) /\ Covers(T, ws, pgs) => LeadsTo(T, c, pgs)

\* The height of each page: all leaves are at the same depth.
Levels(lv, pgs) ==
  /\ lv \in [Blocks -> Nat]
  /\ \A b \in Blocks : /\ pgs[b].type = "leaf" => lv[b] = 0
                       /\ pgs[b].type = "inner" => lv[b] # 0
  /\ \A b \in Blocks : \A d \in LinksOn(pgs[b]) : lv[b] = lv[d.ptr] + 1
  /\ \A b \in Blocks : pgs[b].type \in InTree /\ pgs[b].right # NoBlock =>
       InUse(pgs[b].right, pgs) /\ lv[pgs[b].right] = lv[b]

\* The queued paths lead to pages in use, the longer the lower, and the root is
\* searched first.
Deep(lv, ws, pgs) ==
  /\ \A w \in ws : Last(w) \in Blocks /\ pgs[Last(w)].type \in InTree
  /\ \A w \in ws : Last(w) = Root => ws = {w}
  /\ \A v, w \in ws : lv[Last(v)] + Len(v) = lv[Last(w)] + Len(w)
PathOK(lv, p) ==
  pc[p] = "findpath" => Ahead(bfs[p], ChildBlk(p), pages) /\ Deep(lv, bfs[p], pages)

\* A backend comes to a leaf by its downlink.
LeafEntered(p) ==
  pc[p] # "idle" => Top(p).blk = Root \/ TopPage(p).type # "leaf" \/ Linked(pages, Top(p).blk)
ParentInv ==
  /\ Rooted(pages)
  /\ \A p \in Inserters : LeafEntered(p)
  /\ \E lv : Levels(lv, pages) /\ \A p \in Inserters : PathOK(lv, p)
-----------------------------------------------------------------------------
(***************************************************************************)
(* What a write does to what can be reached.                               *)
(***************************************************************************)
\* A set that holds the first page of a chain, and with each page the next one.
LEMMA ChainReached ==
  ASSUME NEW n \in Nat, NEW h, NEW S, h[1] \in S,
         \A i \in 1..n - 1 : h[i] \in S => h[i + 1] \in S
  PROVE  \A i \in 1..n : h[i] \in S
<1> DEFINE G == {i \in Nat : i + 1 \in 1..n => h[i + 1] \in S}
<1>1. 0 \in G OBVIOUS
<1>2. ASSUME NEW i \in Nat, i \in G PROVE i + 1 \in G
  <2> SUFFICES ASSUME i + 2 \in 1..n PROVE h[i + 2] \in S
    <3>1. (i + 1) + 1 = i + 2 OBVIOUS
    <3> QED BY <3>1
  <2>1. i + 1 \in 1..n - 1 /\ i + 1 \in 1..n /\ (i + 1) + 1 = i + 2 OBVIOUS
  <2>2. h[i + 1] \in S BY <1>2, <2>1
  <2>3. h[(i + 1) + 1] \in S BY <2>1, <2>2
  <2> QED BY <2>1, <2>3
<1> HIDE DEF G
<1>3. Nat \subseteq G BY <1>1, <1>2, SetInduction
<1>4. ASSUME NEW i \in 1..n PROVE h[i] \in S
  <2>1. i - 1 \in Nat /\ (i - 1) + 1 = i OBVIOUS
  <2>2. i - 1 \in G BY <1>3, <2>1
  <2>3. (i - 1) + 1 \in 1..n => h[(i - 1) + 1] \in S BY <2>2 DEF G
  <2> QED BY <2>1, <2>3
<1> QED BY <1>4

\* A page of the file that is free.
LEMMA FreePage ==
  ASSUME GoodPages(pages, lsn), NEW x \in Blocks, pages[x].type = "new"
  PROVE  LinksOn(pages[x]) = {} /\ pages[x].follow = FALSE /\ pages[x].nsn = 0
BY DEF GoodPages, GoodPage, LinksOn, Page

\* Who reaches the page that is written reaches its halves, and what the tuples
\* lead to.
LEMMA WriteReach ==
  ASSUME GoodPages(pages, lsn), NEW b, NEW N, NEW left, WriteOK(b, N, left),
         NEW new, Writes(new, b, N, left), NEW T \in SUBSET Blocks, Closed(T, new), b \in T
  PROVE  /\ pages[b].type = "inner" =>
              \A d \in N : d.ptr \in T /\ \E y \in T : \E e \in LinksOn(new[y]) : e.ptr = d.ptr
         /\ \A x \in Blocks : pages[x].type = "new" /\ new[x].type # "new" => x \in T
<1>1. b \in Blocks /\ pages[b].type \in InTree /\ (left # NoBlock => left \in Blocks /\ pages[left].follow)
  BY BlocksAssumption DEF WriteOK
<1>2. left # NoBlock => pages[left].type # "new" BY <1>1, FreePage
<1>3. ASSUME NEW x \in Blocks, pages[x].type = "new", Kept(pages[x], new[x], x = left)
      PROVE  new[x].type = "new"
  BY <1>1, <1>2, <1>3, BlocksAssumption DEF Kept
<1>4. CASE Fitted(new, b, N, left)
  <2>1. new[b].type = pages[b].type /\ new[b].items = N BY <1>4 DEF Fitted
  <2>2. pages[b].type = "inner" =>
          \A d \in N : d.ptr \in T /\ \E y \in T : \E e \in LinksOn(new[y]) : e.ptr = d.ptr
    BY <2>1 DEF Closed, LinksOn
  <2>3. \A x \in Blocks : pages[x].type = "new" => new[x].type = "new"
    <3> TAKE x \in Blocks
    <3> HAVE pages[x].type = "new"
    <3>1. x # b BY <1>1
    <3>2. Kept(pages[x], new[x], x = left) BY <3>1, <1>4 DEF Fitted
    <3> QED BY <3>2, <1>3
  <2> QED BY <2>2, <2>3
<1>5. ASSUME NEW P, NEW blks \in Seq(Blocks), NEW n, n = Len(blks),
             \A i \in 1..n : blks[i] \in T,
             \A i \in 1..n : new[blks[i]].type = pages[b].type /\ new[blks[i]].items = P[i],
             \A d \in N : \E i \in 1..n : d \in P[i],
             \A x \in Blocks : x # b /\ (\A i \in 1..n : blks[i] # x) => Kept(pages[x], new[x], x = left)
      PROVE  /\ pages[b].type = "inner" =>
                  \A d \in N : d.ptr \in T /\ \E y \in T : \E e \in LinksOn(new[y]) : e.ptr = d.ptr
             /\ \A x \in Blocks : pages[x].type = "new" /\ new[x].type # "new" => x \in T
  <2>1. ASSUME pages[b].type = "inner", NEW d \in N
        PROVE  d.ptr \in T /\ \E y \in T : \E e \in LinksOn(new[y]) : e.ptr = d.ptr
    <3>1. PICK i \in 1..n : d \in P[i] BY <1>5
    <3>2. blks[i] \in T /\ d \in LinksOn(new[blks[i]]) BY <3>1, <2>1, <1>5 DEF LinksOn
    <3> QED BY <3>2 DEF Closed
  <2>2. ASSUME NEW x \in Blocks, pages[x].type = "new", new[x].type # "new" PROVE x \in T
    <3>1. x # b BY <1>1, <2>2
    <3>2. ~Kept(pages[x], new[x], x = left) BY <2>2, <1>3
    <3>3. \E i \in 1..n : blks[i] = x BY <3>1, <3>2, <1>5
    <3> QED BY <3>3, <1>5
  <2> QED BY <2>1, <2>2
<1>6. CASE b # Root /\ \E P \in Partitions(b, N), blks \in Seq(Blocks) :
                          Divided(new, b, N, left, P, blks)
  <2>1. PICK P \in Partitions(b, N), blks \in Seq(Blocks) : Divided(new, b, N, left, P, blks)
    BY <1>6
  <2> DEFINE n == Len(blks)
  <2>2. n \in Nat /\ blks[1] = b BY <2>1 DEF Divided
  <2>3. \A i \in 1..n : new[blks[i]].follow = (i < n)
                        /\ new[blks[i]].right = IF i < n THEN blks[i + 1] ELSE pages[b].right
    BY <2>1 DEF Divided
  <2>4. /\ \A i \in 1..n : new[blks[i]].type = pages[b].type /\ new[blks[i]].items = P[i]
        /\ \A d \in N : \E i \in 1..n : d \in P[i]
        /\ \A x \in Blocks : (\A i \in 1..n : blks[i] # x) => Kept(pages[x], new[x], x = left)
    BY <2>1 DEF Divided
  <2> HIDE DEF n
  <2>5. ASSUME NEW i \in 1..n - 1, blks[i] \in T PROVE blks[i + 1] \in T
    <3>1. i \in 1..n /\ i < n BY <2>2
    <3>2. new[blks[i]].follow /\ new[blks[i]].right = blks[i + 1] BY <3>1, <2>3
    <3> QED BY <3>2, <2>5 DEF Closed
  <2>6. \A i \in 1..n : blks[i] \in T BY <2>2, <2>5, ChainReached
  <2> QED BY <2>4, <2>6, <1>5 DEF n
<1>7. CASE b = Root /\ \E P \in Partitions(b, N), blks \in Seq(Blocks) :
                          RootDivided(new, N, left, P, blks)
  <2>1. PICK P \in Partitions(b, N), blks \in Seq(Blocks) : RootDivided(new, N, left, P, blks)
    BY <1>7
  <2> DEFINE n == Len(blks)
  <2>2. /\ \A i \in 1..n : new[blks[i]].type = pages[b].type /\ new[blks[i]].items = P[i]
        /\ \A d \in N : \E i \in 1..n : d \in P[i]
        /\ \A x \in Blocks : x # b /\ (\A i \in 1..n : blks[i] # x) => Kept(pages[x], new[x], x = left)
        /\ new[b].type = "inner" /\ new[b].items = {Downlink(blks[i], P[i]) : i \in 1..n}
    BY <2>1, <1>7 DEF RootDivided
  <2> HIDE DEF n
  <2>3. ASSUME NEW i \in 1..n PROVE blks[i] \in T
    <3>1. Downlink(blks[i], P[i]) \in LinksOn(new[b]) BY <2>2 DEF LinksOn
    <3>2. Downlink(blks[i], P[i]).ptr = blks[i] BY DEF Downlink
    <3> QED BY <3>1, <3>2 DEF Closed
  <2> QED BY <2>2, <2>3, <1>5 DEF n
<1> QED BY <1>4, <1>6, <1>7 DEF Writes

\* Who knows the LSN of a parent and a page below it finds by the right links all
\* that was split from the page, and did so before the write.
LEMMA WriteRight ==
  ASSUME GoodPages(pages, lsn), NEW b, NEW N, NEW left, WriteOK(b, N, left),
         NEW new, Writes(new, b, N, left), NEW C \in SUBSET Blocks, NEW l \in Nat, l <= lsn,
         Rightward(C, l, new)
  PROVE  Rightward(C, l, pages)
<1>1. /\ b \in Blocks /\ pages[b].type # "new" /\ ~pages[b].follow /\ lsn \in Nat
      /\ pages[Root].right = NoBlock /\ NoBlock \notin Blocks
  BY BlocksAssumption DEF WriteOK, GoodPages
<1> SUFFICES ASSUME NEW x \in C, pages[x].follow \/ l < pages[x].nsn, pages[x].right # NoBlock
             PROVE  pages[x].right \in C
  BY DEF Rightward
<1>2. pages[x].type # "new"
  <2> SUFFICES ASSUME pages[x].type = "new" PROVE FALSE OBVIOUS
  <2>1. pages[x].follow = FALSE /\ pages[x].nsn = 0 BY FreePage
  <2> QED BY <2>1
<1>3. CASE x = left
  <2>1. new[x].right = pages[x].right /\ new[x].nsn = lsn + 1
    BY <1>3, <1>1, WriteFacts
  <2> QED BY <2>1, <1>1 DEF Rightward
<1>4. CASE x # left /\ x # b
  <2>1. new[x] = pages[x] BY <1>2, <1>4, WriteFacts
  <2> QED BY <2>1 DEF Rightward
<1>5. CASE x = b
  <2>1. CASE Fitted(new, b, N, left)
    <3>1. new[x].right = pages[x].right /\ new[x].nsn = pages[x].nsn BY <2>1, <1>5 DEF Fitted
    <3> QED BY <3>1, <1>1, <1>5 DEF Rightward
  <2>2. CASE b # Root /\ \E P \in Partitions(b, N), blks \in Seq(Blocks) :
                            Divided(new, b, N, left, P, blks)
    <3>1. PICK P \in Partitions(b, N), blks \in Seq(Blocks) : Divided(new, b, N, left, P, blks)
      BY <2>2
    <3> DEFINE n == Len(blks)
    <3>2. n \in Nat /\ n >= 2 /\ blks[1] = b /\ \A i \in 1..n : blks[i] \in Blocks
      BY <3>1 DEF Divided
    <3>3. \A i \in 1..n : /\ new[blks[i]].follow = (i < n)
                          /\ new[blks[i]].right = IF i < n THEN blks[i + 1] ELSE pages[b].right
                          /\ new[blks[i]].nsn = pages[b].nsn
      BY <3>1 DEF Divided
    <3> HIDE DEF n
    <3>4. ASSUME NEW i \in 1..n - 1, blks[i] \in C PROVE blks[i + 1] \in C
      <4>1. i \in 1..n /\ i < n /\ i + 1 \in 1..n BY <3>2
      <4>2. new[blks[i]].follow /\ new[blks[i]].right = blks[i + 1] BY <4>1, <3>3
      <4>3. blks[i + 1] # NoBlock BY <4>1, <3>2, <1>1
      <4> QED BY <4>2, <4>3, <3>4 DEF Rightward
    <3>5. \A i \in 1..n : blks[i] \in C BY <3>2, <3>4, <1>5, ChainReached
    <3>6. n \in 1..n /\ ~(n < n) BY <3>2
    <3>7. blks[n] \in C /\ new[blks[n]].right = pages[b].right /\ new[blks[n]].nsn = pages[b].nsn
      BY <3>3, <3>5, <3>6
    <3> QED BY <3>7, <1>1, <1>5 DEF Rightward
  <2>3. CASE b = Root BY <2>3, <1>1, <1>5
  <2> QED BY <2>1, <2>2, <2>3 DEF Writes
<1> QED BY <1>3, <1>4, <1>5

\* A set that no way leads out of after the write holds one that no way led out of
\* before, and which still holds a given part of it that is closed to the right.
LEMMA WriteBack ==
  ASSUME GoodPages(pages, lsn), OneWay(pages), NEW b, NEW N, NEW left, WriteOK(b, N, left),
         NEW new, Writes(new, b, N, left), NEW T \in SUBSET Blocks, Closed(T, new),
         NEW U \in SUBSET T, \A x \in U : pages[x].follow => pages[x].right \in U
  PROVE  \E V \in SUBSET T : U \subseteq V /\ (Root \in T => Root \in V) /\ Closed(V, pages)
<1>1. /\ b \in Blocks /\ ~pages[b].follow /\ ~pages[Root].follow /\ NoBlock \notin Blocks
      /\ left # NoBlock => left \in Blocks /\ left # b /\ pages[b].type = "inner"
  BY BlocksAssumption DEF WriteOK, GoodPages
<1>2. ASSUME NEW x \in T, x # b PROVE \A d \in LinksOn(pages[x]) : d.ptr \in T
  <2>1. CASE pages[x].type = "new" BY <2>1, FreePage
  <2>2. CASE pages[x].type # "new" /\ x # left
    <3>1. new[x] = pages[x] BY <1>2, <2>2, WriteFacts
    <3> QED BY <3>1 DEF Closed
  <2>3. CASE x = left
    <3>1. new[x].type = pages[x].type /\ new[x].items = pages[x].items
      BY <2>3, <1>1, WriteFacts
    <3>2. LinksOn(new[x]) = LinksOn(pages[x]) BY <3>1 DEF LinksOn
    <3> QED BY <3>2 DEF Closed
  <2> QED BY <2>1, <2>2, <2>3
<1>3. ASSUME NEW x \in T, x # left, pages[x].follow PROVE pages[x].right \in T
  <2>1. pages[x].type # "new" BY <1>3, FreePage
  <2>2. x # b BY <1>1, <1>3
  <2>3. new[x] = pages[x] BY <2>1, <2>2, <1>3, WriteFacts
  <2> QED BY <2>3, <1>3 DEF Closed
<1>4. CASE b \in T
  <2>1. \A d \in LinksOn(pages[b]) : d.ptr \in T
    <3>1. CASE pages[b].type = "inner"
      <4>1. \A e \in pages[b].items : \E d \in N : d.ptr = e.ptr BY <3>1 DEF WriteOK
      <4>2. \A d \in N : d.ptr \in T BY <3>1, <1>4, WriteReach
      <4> QED BY <4>1, <4>2 DEF LinksOn
    <3>2. CASE pages[b].type # "inner" BY <3>2 DEF LinksOn
    <3> QED BY <3>1, <3>2
  <2>2. left # NoBlock => pages[left].right \in T
    <3> SUFFICES ASSUME left # NoBlock PROVE pages[left].right \in T OBVIOUS
    <3>1. pages[b].type = "inner" BY <1>1
    <3>2. \A d \in N : d.ptr \in T BY <3>1, <1>4, WriteReach
    <3>3. \E d \in N : d.ptr = pages[left].right BY <3>1 DEF WriteOK
    <3> QED BY <3>2, <3>3
  <2>3. Closed(T, pages)
    <3>1. ASSUME NEW x \in T PROVE \A d \in LinksOn(pages[x]) : d.ptr \in T BY <2>1, <1>2
    <3>2. ASSUME NEW x \in T, pages[x].follow PROVE pages[x].right \in T
      BY <2>2, <3>2, <1>1, <1>3
    <3> QED BY <3>1, <3>2 DEF Closed
  <2> QED BY <2>3
<1>5. CASE b \notin T /\ left = NoBlock
  <2>1. Closed(T, pages) BY <1>2, <1>3, <1>5, <1>1 DEF Closed
  <2> QED BY <2>1
<1>6. CASE b \notin T /\ left # NoBlock
  <2>1. Led(left, b) BY <1>6 DEF WriteOK
  <2>2. PICK S \in SUBSET Blocks : left \in S /\ LedFrom(S, b) BY <2>1 DEF Led
  <2> DEFINE V == T \ (S \ U)
  <2>3. V \in SUBSET T /\ U \subseteq V OBVIOUS
  <2>4. Root \in T => Root \in V BY <2>2, <1>1 DEF LedFrom
  <2>5. ASSUME NEW x \in V, NEW d \in LinksOn(pages[x]) PROVE d.ptr \in V
    <3>1. x \in T /\ x # b /\ x \in Blocks BY <1>6
    <3>2. d.ptr \in T BY <3>1, <1>2
    <3>3. d.ptr \notin S BY <3>1, <2>2 DEF LedFrom
    <3> QED BY <3>2, <3>3
  <2>6. ASSUME NEW x \in V, pages[x].follow PROVE pages[x].right \in V
    <3>1. CASE x \in U BY <3>1, <2>6
    <3>2. CASE x \notin U
      <4>1. x \in T /\ x \notin S /\ x \in Blocks /\ x # left BY <3>2, <2>2
      <4>2. pages[x].right \in T BY <4>1, <2>6, <1>3
      <4>3. pages[x].right \notin S BY <4>1, <2>2, <2>6 DEF LedFrom
      <4> QED BY <4>2, <4>3
    <3> QED BY <3>1, <3>2
  <2>7. Closed(V, pages) BY <2>5, <2>6 DEF Closed
  <2> QED BY <2>3, <2>4, <2>7
<1> QED BY <1>4, <1>5, <1>6

\* Every page in use is still reached from the root.
LEMMA WriteRooted ==
  ASSUME GoodPages(pages, lsn), OneWay(pages), Rooted(pages), NEW b, NEW N, NEW left,
         WriteOK(b, N, left), NEW new, Writes(new, b, N, left)
  PROVE  Rooted(new)
<1> SUFFICES ASSUME NEW T \in SUBSET Blocks, Root \in T, Closed(T, new),
                    NEW x \in Blocks, InUse(x, new)
             PROVE  x \in T
  BY DEF Rooted
<1>1. \A y \in {Root} : pages[y].follow => pages[y].right \in {Root} BY DEF GoodPages
<1>2. PICK V \in SUBSET T : {Root} \subseteq V /\ Closed(V, pages)
  <2>1. {Root} \in SUBSET T OBVIOUS
  <2> QED BY <2>1, <1>1, WriteBack
<1>3. \A y \in Blocks : InUse(y, pages) => y \in T BY <1>2 DEF Rooted
<1>4. b \in Blocks /\ pages[b].type \in InTree BY DEF WriteOK
<1>5. b \in T BY <1>3, <1>4 DEF InUse
<1>6. CASE pages[x].type = "new" BY <1>5, <1>6, WriteReach DEF InUse
<1>7. CASE pages[x].type # "new"
  <2>1. CASE x = b BY <2>1, <1>5
  <2>2. CASE x # b
    <3>1. new[x].type = pages[x].type
      <4>1. CASE x = left BY <4>1, <1>7, BlocksAssumption, WriteFacts
      <4>2. CASE x # left BY <4>2, <2>2, <1>7, WriteFacts
      <4> QED BY <4>1, <4>2
    <3> QED BY <3>1, <1>3 DEF InUse
  <2> QED BY <2>1, <2>2
<1> QED BY <1>6, <1>7

\* A search that has not passed the parent of c has not after the write either, unless
\* that gives c itself its first downlink.
LEMMA WriteAhead ==
  ASSUME GoodPages(pages, lsn), OneWay(pages), NEW b, NEW N, NEW left, WriteOK(b, N, left),
         NEW new, Writes(new, b, N, left), NEW ws, NEW c, Ahead(ws, c, pages),
         \A w \in ws : LsnAbove(w) \in Nat /\ LsnAbove(w) <= lsn,
         left # NoBlock => c # pages[left].right
  PROVE  Ahead(ws, c, new)
<1> SUFFICES ASSUME NEW T \in SUBSET Blocks, Closed(T, new), Covers(T, ws, new)
             PROVE  LeadsTo(T, c, new)
  BY DEF Ahead
<1> DEFINE U == {x \in T : \E w \in ws : \E C \in SUBSET T : CoveredBy(C, w, new) /\ x \in C}
<1>1. ASSUME NEW w \in ws, NEW C \in SUBSET T, CoveredBy(C, w, new) PROVE CoveredBy(C, w, pages)
  <2>1. Rightward(C, LsnAbove(w), pages) BY <1>1, WriteRight DEF CoveredBy
  <2> QED BY <2>1, <1>1 DEF CoveredBy
<1>2. ASSUME NEW x \in U, pages[x].follow PROVE pages[x].right \in U
  <2>1. PICK w \in ws, C \in SUBSET T : CoveredBy(C, w, new) /\ x \in C OBVIOUS
  <2>2. pages[x].right \in Blocks BY <1>2 DEF OneWay
  <2>3. pages[x].right \in C BY <2>1, <2>2, <1>1, <1>2, BlocksAssumption DEF CoveredBy, Rightward
  <2> QED BY <2>1, <2>3
<1>3. ASSUME NEW w \in ws, NEW C \in SUBSET T, CoveredBy(C, w, new) PROVE C \subseteq U
  BY <1>3
<1>4. U \in SUBSET T OBVIOUS
<1> HIDE DEF U
<1>5. PICK V \in SUBSET T : U \subseteq V /\ Closed(V, pages) BY <1>2, <1>4, WriteBack
<1>6. Covers(V, ws, pages)
  <2> SUFFICES ASSUME NEW w \in ws PROVE \E C \in SUBSET V : CoveredBy(C, w, pages)
    BY DEF Covers
  <2>1. PICK C \in SUBSET T : CoveredBy(C, w, new) BY DEF Covers
  <2> QED BY <2>1, <1>1, <1>3, <1>5
<1>7. LeadsTo(V, c, pages) BY <1>5, <1>6 DEF Ahead
<1>8. PICK x \in V : (\E d \in LinksOn(pages[x]) : d.ptr = c) \/ (pages[x].follow /\ pages[x].right = c)
  BY <1>7 DEF LeadsTo
<1>9. x \in T /\ pages[x].type # "new" BY <1>8, FreePage
<1>10. b \in Blocks /\ ~pages[b].follow BY DEF WriteOK
<1>11. CASE \E d \in LinksOn(pages[x]) : d.ptr = c
  <2>1. CASE x = b
    <3>1. pages[b].type = "inner" /\ \E e \in pages[b].items : e.ptr = c
      BY <1>11, <2>1 DEF LinksOn
    <3>2. PICK d \in N : d.ptr = c BY <3>1 DEF WriteOK
    <3>3. \E y \in T : \E e \in LinksOn(new[y]) : e.ptr = c
      BY <3>1, <3>2, <2>1, <1>9, WriteReach
    <3> QED BY <3>3 DEF LeadsTo
  <2>2. CASE x # b
    <3>1. new[x].type = pages[x].type /\ new[x].items = pages[x].items
      <4>1. CASE x = left BY <4>1, <1>9, BlocksAssumption, WriteFacts
      <4>2. CASE x # left BY <4>2, <2>2, <1>9, WriteFacts
      <4> QED BY <4>1, <4>2
    <3>2. LinksOn(new[x]) = LinksOn(pages[x]) BY <3>1 DEF LinksOn
    <3> QED BY <3>2, <1>9, <1>11 DEF LeadsTo
  <2> QED BY <2>1, <2>2
<1>12. CASE pages[x].follow /\ pages[x].right = c
  <2>1. x # left BY <1>12, <1>9, BlocksAssumption
  <2>2. x # b BY <1>10, <1>12
  <2>3. new[x] = pages[x] BY <2>1, <2>2, <1>9, WriteFacts
  <2> QED BY <2>3, <1>9, <1>12 DEF LeadsTo
<1> QED BY <1>8, <1>11, <1>12
-----------------------------------------------------------------------------
(***************************************************************************)
(* What a write does to the heights.                                       *)
(***************************************************************************)
\* The child whose right sibling gets its downlink is one level below the parent.
LEMMA LeftLevel ==
  ASSUME GoodPages(pages, lsn), OneWay(pages), Rooted(pages), NEW lv, Levels(lv, pages),
         NEW b, NEW N, NEW left, WriteOK(b, N, left), left # NoBlock
  PROVE  lv[b] = lv[left] + 1
<1>1. /\ left \in Blocks /\ pages[left].follow /\ left # Root /\ pages[left].type \in InTree
      /\ ~pages[Root].follow /\ Root \in Blocks /\ Led(left, b)
  BY BlocksAssumption DEF WriteOK, GoodPages, GoodPage, Page
<1>2. PICK S \in SUBSET Blocks : left \in S /\ LedFrom(S, b) BY <1>1 DEF Led
<1> DEFINE T == Blocks \ {x \in S : lv[b] # lv[x] + 1}
<1>3. T \in SUBSET Blocks /\ \A x \in Blocks : x \in T <=> (x \in S => lv[b] = lv[x] + 1) OBVIOUS
<1> HIDE DEF T
<1>4. Root \in T BY <1>1, <1>2, <1>3 DEF LedFrom
<1>5. ASSUME NEW x \in T, NEW d \in LinksOn(pages[x]) PROVE d.ptr \in T
  <2>1. x \in Blocks /\ d.ptr \in Blocks BY <1>3 DEF OneWay
  <2>2. d.ptr \in S => x = b BY <1>2, <2>1 DEF LedFrom
  <2>3. lv[x] = lv[d.ptr] + 1 BY <2>1 DEF Levels
  <2> QED BY <1>3, <2>1, <2>2, <2>3
<1>6. ASSUME NEW x \in T, pages[x].follow PROVE pages[x].right \in T
  <2>1. x \in Blocks /\ pages[x].right \in Blocks BY <1>3, <1>6 DEF OneWay
  <2>2. pages[x].right \in S => x \in S BY <1>2, <1>6, <2>1 DEF LedFrom
  <2>3. pages[x].type \in InTree BY <2>1, <1>6 DEF GoodPages, GoodPage, Page
  <2>4. lv[pages[x].right] = lv[x] BY <2>1, <2>3, BlocksAssumption DEF Levels
  <2> QED BY <1>3, <2>1, <2>2, <2>4
<1>7. Closed(T, pages) BY <1>5, <1>6 DEF Closed
<1>8. left \in T BY <1>1, <1>3, <1>4, <1>7 DEF Rooted, InUse
<1> QED BY <1>2, <1>3, <1>8, <1>1

\* What the tuples written to an inner page lead to is in use and one level below.
LEMMA TuplesLevel ==
  ASSUME GoodPages(pages, lsn), OneWay(pages), Rooted(pages), NEW lv, Levels(lv, pages),
         NEW b, NEW N, NEW left, WriteOK(b, N, left), pages[b].type = "inner", NEW d \in N
  PROVE  InUse(d.ptr, pages) /\ d.ptr \in Blocks /\ lv[b] = lv[d.ptr] + 1
<1>1. b \in Blocks BY DEF WriteOK
<1>2. (\E e \in pages[b].items : e.ptr = d.ptr) \/ (left # NoBlock /\ d.ptr = pages[left].right)
  BY DEF WriteOK
<1>3. CASE \E e \in pages[b].items : e.ptr = d.ptr
  <2>1. PICK e \in LinksOn(pages[b]) : e.ptr = d.ptr BY <1>3 DEF LinksOn
  <2> QED BY <1>1, <2>1 DEF OneWay, Levels
<1>4. CASE left # NoBlock /\ d.ptr = pages[left].right
  <2>1. left \in Blocks /\ pages[left].follow /\ pages[left].right \in Blocks
    BY <1>4 DEF WriteOK, OneWay
  <2>2. pages[left].type \in InTree BY <2>1 DEF GoodPages, GoodPage, Page
  <2>3. InUse(pages[left].right, pages) /\ lv[pages[left].right] = lv[left]
    BY <2>1, <2>2, BlocksAssumption DEF Levels
  <2>4. lv[b] = lv[left] + 1 BY <1>4, LeftLevel
  <2> QED BY <1>4, <2>1, <2>3, <2>4
<1> QED BY <1>2, <1>3, <1>4

\* The heights of the pages that were in use stay, but for the root's.
LevelsKept(lw, lv) == \A x \in Blocks : pages[x].type # "new" /\ x # Root => lw[x] = lv[x]

\* Pages of one kind on a level, written or not: when their heights are right.
LEMMA WriteLevels ==
  ASSUME GoodPages(pages, lsn), OneWay(pages), Rooted(pages), NEW lv, Levels(lv, pages),
         NEW b, NEW N, NEW left, WriteOK(b, N, left), NEW new, Writes(new, b, N, left)
  PROVE  \E lw : Levels(lw, new) /\ LevelsKept(lw, lv)
<1> DEFINE lf == [x \in Blocks |-> IF pages[x].type = "new" THEN lv[b] ELSE lv[x]]
           lr == [lf EXCEPT ![Root] = lv[Root] + 1]
<1>1. /\ b \in Blocks /\ pages[b].type \in InTree /\ ~pages[b].follow
      /\ left # NoBlock => left \in Blocks /\ left # b /\ pages[left].type # "new" /\ left # Root
      /\ Root \in Blocks /\ NoBlock \notin Blocks /\ pages[Root].right = NoBlock
  BY BlocksAssumption, WriteFacts DEF WriteOK, GoodPages
<1>2. lv \in [Blocks -> Nat] BY DEF Levels
<1>3. lf \in [Blocks -> Nat] /\ lf[b] = lv[b] BY <1>1, <1>2
<1>4. \A x \in Blocks : pages[x].type # "new" => lf[x] = lv[x] OBVIOUS
<1>5. \A x \in Blocks : pages[x].type = "new" => lf[x] = lv[b] OBVIOUS
<1>6. \A x \in Blocks : x # Root => lr[x] = lf[x] BY <1>3
<1>7. lr \in [Blocks -> Nat] /\ lr[Root] = lv[Root] + 1 BY <1>1, <1>2, <1>3
<1> HIDE DEF lf, lr
<1>8. pages[b].type = "inner" =>
        \A d \in N : InUse(d.ptr, pages) /\ d.ptr \in Blocks /\ lv[b] = lv[d.ptr] + 1
  BY TuplesLevel
<1>9. \A x \in Blocks : pages[x].type # "new" /\ x # b =>
        new[x].type = pages[x].type /\ new[x].items = pages[x].items /\ new[x].right = pages[x].right
  <2> TAKE x \in Blocks
  <2> HAVE pages[x].type # "new" /\ x # b
  <2>1. CASE x = left BY <2>1, <1>1, WriteFacts
  <2>2. CASE x # left BY <2>2, WriteFacts
  <2> QED BY <2>1, <2>2
\* The pages that are not written.
<1>10. ASSUME NEW x \in Blocks, pages[x].type # "new", x # b
       PROVE  /\ new[x].type = "leaf" => lf[x] = 0
              /\ new[x].type = "inner" => lf[x] # 0
              /\ \A d \in LinksOn(new[x]) : InUse(d.ptr, pages) /\ d.ptr \in Blocks /\ lf[x] = lf[d.ptr] + 1
              /\ new[x].type \in InTree /\ new[x].right # NoBlock =>
                   InUse(new[x].right, pages) /\ new[x].right \in Blocks /\ lf[new[x].right] = lf[x]
  <2>1. /\ new[x].type = pages[x].type /\ new[x].items = pages[x].items
        /\ new[x].right = pages[x].right
    BY <1>9, <1>10
  <2>2. LinksOn(new[x]) = LinksOn(pages[x]) BY <2>1 DEF LinksOn
  <2>3. ASSUME NEW d \in LinksOn(new[x])
        PROVE  InUse(d.ptr, pages) /\ d.ptr \in Blocks /\ lf[x] = lf[d.ptr] + 1
    <3>1. InUse(d.ptr, pages) /\ d.ptr \in Blocks /\ lv[x] = lv[d.ptr] + 1
      BY <2>2 DEF OneWay, Levels
    <3> QED BY <3>1, <1>4, <1>10 DEF InUse
  <2>4. ASSUME new[x].type \in InTree, new[x].right # NoBlock
        PROVE  InUse(new[x].right, pages) /\ new[x].right \in Blocks /\ lf[new[x].right] = lf[x]
    <3>1. InUse(pages[x].right, pages) /\ lv[pages[x].right] = lv[x]
      BY <2>1, <2>4 DEF Levels
    <3>2. pages[x].right \in Blocks BY <2>1, <2>4 DEF GoodPages, Page
    <3> QED BY <3>1, <3>2, <2>1, <1>4, <1>10 DEF InUse
  <2> QED BY <2>1, <2>3, <2>4, <1>4, <1>10 DEF Levels
<1>11. \A x \in Blocks : pages[x].type = "leaf" => lv[x] = 0 BY DEF Levels
<1>12. \A x \in Blocks : pages[x].type = "inner" => lv[x] # 0 BY DEF Levels
<1>13. \A c \in Blocks : InUse(c, pages) => InUse(c, new) /\ lf[c] = lv[c]
  <2> TAKE c \in Blocks
  <2> HAVE InUse(c, pages)
  <2>1. CASE c # b BY <2>1, <1>4, <1>9 DEF InUse
  <2>2. CASE c = b
    <3>1. new[b].type = pages[b].type BY <2>2, WriteFacts DEF InUse
    <3> QED BY <3>1, <2>2, <1>4 DEF InUse
  <2> QED BY <2>1, <2>2
\* The tuples of the page that is written.
<1>14. ASSUME pages[b].type = "inner", NEW d \in N
       PROVE  InUse(d.ptr, pages) /\ d.ptr \in Blocks /\ lv[b] = lf[d.ptr] + 1
  BY <1>8, <1>14, <1>4 DEF InUse
<1>15. ASSUME NEW x \in Blocks, NEW P, P \subseteq N, new[x].type = pages[b].type, new[x].items = P
       PROVE  \A d \in LinksOn(new[x]) : InUse(d.ptr, pages) /\ d.ptr \in Blocks /\ lv[b] = lf[d.ptr] + 1
  BY <1>14, <1>15 DEF LinksOn
<1>16. pages[b].right # NoBlock =>
         InUse(pages[b].right, pages) /\ pages[b].right \in Blocks /\ lf[pages[b].right] = lv[b]
  <2> SUFFICES ASSUME pages[b].right # NoBlock
               PROVE  InUse(pages[b].right, pages) /\ pages[b].right \in Blocks /\ lf[pages[b].right] = lv[b]
    OBVIOUS
  <2>1. InUse(pages[b].right, pages) /\ lv[pages[b].right] = lv[b] BY <1>1 DEF Levels
  <2>2. pages[b].right \in Blocks BY <1>1 DEF GoodPages, Page
  <2> QED BY <2>1, <2>2, <1>4 DEF InUse
<1> DEFINE Fine(x, l) ==
             /\ new[x].type = "leaf" => l[x] = 0
             /\ new[x].type = "inner" => l[x] # 0
             /\ \A d \in LinksOn(new[x]) : l[x] = l[d.ptr] + 1
             /\ new[x].type \in InTree /\ new[x].right # NoBlock =>
                  InUse(new[x].right, new) /\ l[new[x].right] = l[x]
<1>17. ASSUME NEW x \in Blocks, pages[x].type # "new", x # b
       PROVE  Fine(x, lf) /\ (x # Root => Fine(x, lr))
  <2>1. /\ \A d \in LinksOn(new[x]) : d.ptr \in Blocks /\ d.ptr # Root /\ lf[x] = lf[d.ptr] + 1
        /\ new[x].type = "leaf" => lf[x] = 0
        /\ new[x].type = "inner" => lf[x] # 0
    BY <1>10, <1>17 DEF InUse
  <2>2. new[x].type \in InTree /\ new[x].right # NoBlock =>
          /\ new[x].right \in Blocks /\ new[x].right # Root /\ lf[new[x].right] = lf[x]
          /\ InUse(new[x].right, new)
    BY <1>10, <1>13, <1>17 DEF InUse
  <2>3. Fine(x, lf) BY <2>1, <2>2
  <2>4. ASSUME x # Root PROVE Fine(x, lr) BY <2>1, <2>2, <2>4, <1>6
  <2> QED BY <2>3, <2>4
<1>18. ASSUME NEW x \in Blocks, pages[x].type = "new", Kept(pages[x], new[x], x = left)
       PROVE  Fine(x, lf) /\ Fine(x, lr)
  <2>1. new[x].type = "new" BY <1>1, <1>18, BlocksAssumption DEF Kept
  <2> QED BY <2>1 DEF LinksOn
<1>19. ASSUME NEW l \in [Blocks -> Nat], \A x \in Blocks : Fine(x, l) PROVE Levels(l, new)
  BY <1>19 DEF Levels
<1>20. LevelsKept(lf, lv) /\ LevelsKept(lr, lv) BY <1>4, <1>6 DEF LevelsKept
<1> HIDE DEF Fine
<1>21. CASE Fitted(new, b, N, left)
  <2>1. /\ new[b].type = pages[b].type /\ new[b].items = N /\ new[b].right = pages[b].right
        /\ \A x \in Blocks \ {b} : Kept(pages[x], new[x], x = left)
    BY <1>21 DEF Fitted
  <2>2. \A d \in LinksOn(new[b]) : lf[b] = lf[d.ptr] + 1 BY <2>1, <1>1, <1>3, <1>15
  <2>3. new[b].right # NoBlock => InUse(new[b].right, new) /\ lf[new[b].right] = lf[b]
    BY <2>1, <1>3, <1>13, <1>16
  <2>4. Fine(b, lf) BY <2>1, <2>2, <2>3, <1>1, <1>3, <1>11, <1>12 DEF Fine
  <2>5. ASSUME NEW x \in Blocks PROVE Fine(x, lf)
    <3>1. CASE x = b BY <3>1, <2>4
    <3>2. CASE x # b /\ pages[x].type = "new" BY <3>2, <2>1, <1>18
    <3>3. CASE x # b /\ pages[x].type # "new" BY <3>3, <1>17
    <3> QED BY <3>1, <3>2, <3>3
  <2> QED BY <2>5, <1>3, <1>19, <1>20
<1>22. CASE b # Root /\ \E P \in Partitions(b, N), blks \in Seq(Blocks) :
                           Divided(new, b, N, left, P, blks)
  <2>1. PICK P \in Partitions(b, N), blks \in Seq(Blocks) : Divided(new, b, N, left, P, blks)
    BY <1>22
  <2> DEFINE n == Len(blks)
  <2>2. /\ n \in Nat /\ blks[1] = b /\ \A i \in 1..n : blks[i] \in Blocks
        /\ \A i \in 2..n : pages[blks[i]].type = "new" /\ blks[i] # Root
        /\ \A i \in 1..n :
             /\ new[blks[i]].type = pages[b].type /\ new[blks[i]].items = P[i] /\ P[i] \subseteq N
             /\ new[blks[i]].right = IF i < n THEN blks[i + 1] ELSE pages[b].right
        /\ \A x \in Blocks : (\A i \in 1..n : blks[i] # x) => Kept(pages[x], new[x], x = left)
    BY <2>1 DEF Divided
  <2> HIDE DEF n
  <2>3. \A i \in 1..n : lf[blks[i]] = lv[b] /\ blks[i] # Root
    <3> TAKE i \in 1..n
    <3>1. i = 1 \/ i \in 2..n BY <2>2
    <3> QED BY <3>1, <2>2, <1>3, <1>5, <1>22
  <2>4. ASSUME NEW i \in 1..n PROVE Fine(blks[i], lf)
    <3>1. \A d \in LinksOn(new[blks[i]]) : lf[blks[i]] = lf[d.ptr] + 1 BY <2>2, <2>3, <1>15
    <3>2. new[blks[i]].right # NoBlock =>
            InUse(new[blks[i]].right, new) /\ lf[new[blks[i]].right] = lf[blks[i]]
      <4>1. CASE i < n
        <5>1. i + 1 \in 1..n BY <4>1, <2>2
        <5>2. InUse(blks[i + 1], new) /\ lf[blks[i + 1]] = lv[b] BY <5>1, <2>2, <2>3, <1>1 DEF InUse
        <5> QED BY <4>1, <5>2, <2>2, <2>3
      <4>2. CASE ~(i < n) BY <4>2, <2>2, <2>3, <1>13, <1>16
      <4> QED BY <4>1, <4>2
    <3>3. /\ new[blks[i]].type = "leaf" => lf[blks[i]] = 0
          /\ new[blks[i]].type = "inner" => lf[blks[i]] # 0
      BY <2>2, <2>3, <1>1, <1>11, <1>12
    <3> QED BY <3>1, <3>2, <3>3 DEF Fine
  <2>5. ASSUME NEW x \in Blocks PROVE Fine(x, lf)
    <3>1. CASE \E i \in 1..n : blks[i] = x BY <3>1, <2>4
    <3>2. CASE \A i \in 1..n : blks[i] # x
      <4>1. Kept(pages[x], new[x], x = left) BY <3>2, <2>2
      <4>2. x # b
        <5>1. 1 \in 1..n BY <2>1 DEF Divided, n
        <5> QED BY <5>1, <3>2, <2>2
      <4> QED BY <4>1, <4>2, <1>17, <1>18
    <3> QED BY <3>1, <3>2
  <2> QED BY <2>5, <1>3, <1>19, <1>20
<1>23. CASE b = Root /\ \E P \in Partitions(b, N), blks \in Seq(Blocks) :
                           RootDivided(new, N, left, P, blks)
  <2>1. PICK P \in Partitions(b, N), blks \in Seq(Blocks) : RootDivided(new, N, left, P, blks)
    BY <1>23
  <2> DEFINE n == Len(blks)
  <2>2. /\ n \in Nat /\ \A i \in 1..n : blks[i] \in Blocks
        /\ \A i \in 1..n : pages[blks[i]].type = "new" /\ blks[i] # Root
        /\ \A i \in 1..n :
             /\ new[blks[i]].type = pages[b].type /\ new[blks[i]].items = P[i] /\ P[i] \subseteq N
             /\ new[blks[i]].right = IF i < n THEN blks[i + 1] ELSE NoBlock
        /\ new[Root].type = "inner" /\ new[Root].right = NoBlock
        /\ new[Root].items = {Downlink(blks[i], P[i]) : i \in 1..n}
        /\ \A x \in Blocks \ {Root} : (\A i \in 1..n : blks[i] # x) => Kept(pages[x], new[x], x = left)
    BY <2>1, <1>23 DEF RootDivided
  <2> HIDE DEF n
  <2>3. \A i \in 1..n : lr[blks[i]] = lv[b] BY <2>2, <1>5, <1>6
  <2>4. ASSUME NEW i \in 1..n PROVE Fine(blks[i], lr)
    <3>1. \A d \in LinksOn(new[blks[i]]) : InUse(d.ptr, pages) /\ d.ptr \in Blocks /\ lv[b] = lf[d.ptr] + 1
      BY <2>2, <1>15
    <3>2. \A d \in LinksOn(new[blks[i]]) : lr[blks[i]] = lr[d.ptr] + 1
      BY <3>1, <2>3, <1>6 DEF InUse
    <3>3. new[blks[i]].right # NoBlock =>
            InUse(new[blks[i]].right, new) /\ lr[new[blks[i]].right] = lr[blks[i]]
      <4>1. CASE i < n
        <5>1. i + 1 \in 1..n BY <4>1, <2>2
        <5>2. InUse(blks[i + 1], new) /\ lr[blks[i + 1]] = lv[b] BY <5>1, <2>2, <2>3, <1>1 DEF InUse
        <5> QED BY <4>1, <5>2, <2>2, <2>3
      <4>2. CASE ~(i < n) BY <4>2, <2>2
      <4> QED BY <4>1, <4>2
    <3>4. /\ new[blks[i]].type = "leaf" => lr[blks[i]] = 0
          /\ new[blks[i]].type = "inner" => lr[blks[i]] # 0
      BY <2>2, <2>3, <1>1, <1>11, <1>12
    <3> QED BY <3>2, <3>3, <3>4 DEF Fine
  <2>5. Fine(Root, lr)
    <3>1. ASSUME NEW d \in LinksOn(new[Root]) PROVE lr[Root] = lr[d.ptr] + 1
      <4>1. PICK i \in 1..n : d = Downlink(blks[i], P[i]) BY <2>2 DEF LinksOn
      <4>2. d.ptr = blks[i] BY <4>1 DEF Downlink
      <4> QED BY <4>2, <2>3, <1>7, <1>23
    <3>2. lr[Root] # 0 BY <1>1, <1>2, <1>7
    <3> QED BY <3>1, <3>2, <2>2 DEF Fine
  <2>6. ASSUME NEW x \in Blocks PROVE Fine(x, lr)
    <3>1. CASE \E i \in 1..n : blks[i] = x BY <3>1, <2>4
    <3>2. CASE x = Root BY <3>2, <2>5
    <3>3. CASE x # Root /\ \A i \in 1..n : blks[i] # x
      <4>1. Kept(pages[x], new[x], x = left) BY <3>3, <2>2
      <4> QED BY <4>1, <3>3, <1>17, <1>18, <1>23
    <3> QED BY <3>1, <3>2, <3>3
  <2> QED BY <2>6, <1>7, <1>19, <1>20
<1> QED BY <1>21, <1>22, <1>23 DEF Writes
-----------------------------------------------------------------------------
(***************************************************************************)
(* The search of gistFindPath.                                             *)
(***************************************************************************)
\* The page whose parent is searched is in use, and locked by who searches.
LEMMA ChildHeld ==
  ASSUME IInv, StructInv, NEW p \in Inserters, pc[p] \in Splitting
  PROVE  ChildBlk(p) \in Blocks /\ InUse(ChildBlk(p), pages) /\ xlock[ChildBlk(p)] = p
<1> DEFINE f == fin[p][1]
<1>1. /\ Len(fin[p]) \in Nat /\ Len(fin[p]) >= 1 /\ Len(f.halves) \in Nat /\ Len(f.halves) >= 1
      /\ \A h \in 1..Len(f.halves) : f.halves[h].blk \in Blocks /\ InUse(f.halves[h].blk, pages)
  BY CallFacts
<1>2. CallLocks(f, p, stack[p], xlock)
  <2>1. 1 \in 1..Len(fin[p]) BY <1>1
  <2> QED BY <2>1 DEF StructInv, ProcStruct, SplitsOK
<1>3. ChildBlk(p) = stack[p][Len(stack[p]) - f.up].blk BY DEF ChildBlk, ChildIx, Depth
<1> HIDE DEF f
<1>4. 1 \in 1..Len(f.halves) BY <1>1
<1> QED BY <1>1, <1>2, <1>3, <1>4 DEF CallLocks

\* Pages stay reachable from the root and keep their heights.
LEMMA PagesStep ==
  ASSUME IInv, StructInv, OneWrite, Rooted(pages), NEW lv, Levels(lv, pages)
  PROVE  Rooted(pages') /\ \E lw : Levels(lw, pages') /\ LevelsKept(lw, lv)
<1>1. GoodPages(pages, lsn) /\ OneWay(pages) BY DEF IInv, StructInv
<1>2. CASE UNCHANGED pages BY <1>2 DEF LevelsKept
<1>3. ASSUME NEW b, NEW N, NEW left, WriteOK(b, N, left), Writes(pages', b, N, left)
      PROVE  Rooted(pages') /\ \E lw : Levels(lw, pages') /\ LevelsKept(lw, lv)
  <2>1. Rooted(pages') BY <1>1, <1>3, WriteRooted
  <2>2. \E lw : Levels(lw, pages') /\ LevelsKept(lw, lv) BY <1>1, <1>3, WriteLevels
  <2> QED BY <2>1, <2>2
<1> QED BY <1>2, <1>3 DEF OneWrite

\* What others write does not send a search past the parent: only who finishes the
\* split of the page could take the way into it away, and that is who searches.
LEMMA AheadKept ==
  ASSUME IInv, StructInv, OneWrite, NEW p \in Inserters, pc[p] = "findpath",
         Ahead(bfs[p], ChildBlk(p), pages)
  PROVE  Ahead(bfs[p], ChildBlk(p), pages')
<1>1. GoodPages(pages, lsn) /\ OneWay(pages) BY DEF IInv, StructInv
<1>2. xlock[ChildBlk(p)] = p BY ChildHeld DEF Splitting
<1>3. \A w \in bfs[p] : LsnAbove(w) \in Nat /\ LsnAbove(w) <= lsn
  <2> TAKE w \in bfs[p]
  <2>1. w \in Seq(Frame) /\ SeenUpTo(w, lsn) /\ lsn \in Nat
    BY DEF IInv, ProcOK, GoodStack, Anchored, GoodPages
  <2>2. CASE Len(w) > 1
    <3>1. Len(w) - 1 \in 1..Len(w) BY <2>1, <2>2
    <3>2. w[Len(w) - 1] \in Frame BY <2>1, <3>1
    <3> QED BY <2>1, <2>2, <3>1, <3>2 DEF LsnAbove, SeenUpTo, Frame
  <2>3. CASE ~(Len(w) > 1) BY <2>1, <2>3 DEF LsnAbove
  <2> QED BY <2>2, <2>3
<1>4. CASE UNCHANGED pages BY <1>4
<1>5. ASSUME NEW b, NEW N, NEW left, WriteOK(b, N, left), Finishes(left), Writes(pages', b, N, left)
      PROVE  Ahead(bfs[p], ChildBlk(p), pages')
  <2>1. left # NoBlock => ChildBlk(p) # pages[left].right
    BY <1>2, <1>5 DEF Finishes
  <2> QED BY <2>1, <1>1, <1>3, <1>5, WriteAhead
<1> QED BY <1>4, <1>5 DEF OneWrite

\* Nor does it change the heights of the pages that are queued, but for the root's,
\* which is then queued alone.
LEMMA DeepKept ==
  ASSUME IInv, Grown, NEW ws, NEW lv, NEW lw, LevelsKept(lw, lv), Deep(lv, ws, pages)
  PROVE  Deep(lw, ws, pages')
<1>1. SameKinds(pages, pages') BY GrownFacts DEF IInv
<1>2. ASSUME NEW w \in ws PROVE Last(w) \in Blocks /\ pages'[Last(w)].type \in InTree
  <2>1. Last(w) \in Blocks /\ pages[Last(w)].type \in InTree BY DEF Deep
  <2> QED BY <2>1, <1>1 DEF SameKinds
<1>3. ASSUME NEW v \in ws, NEW w \in ws PROVE lw[Last(v)] + Len(v) = lw[Last(w)] + Len(w)
  <2>1. CASE Last(v) = Root \/ Last(w) = Root
    <3>1. v = w BY <2>1 DEF Deep
    <3> QED BY <3>1
  <2>2. CASE Last(v) # Root /\ Last(w) # Root
    <3>1. lw[Last(v)] = lv[Last(v)] /\ lw[Last(w)] = lv[Last(w)]
      BY <2>2 DEF Deep, LevelsKept
    <3> QED BY <3>1 DEF Deep
  <2> QED BY <2>1, <2>2
<1> QED BY <1>2, <1>3 DEF Deep

\* A search that somebody else interrupts.
LEMMA PathKept ==
  ASSUME IInv, StructInv, OneWrite, Grown, NEW p \in Inserters, pc[p] = "findpath",
         bfs'[p] = bfs[p], stack'[p] = stack[p], fin'[p] = fin[p],
         NEW lv, NEW lw, LevelsKept(lw, lv), PathOK(lv, p)
  PROVE  PathOK(lw, p)'
<1>1. Ahead(bfs[p], ChildBlk(p), pages') BY AheadKept DEF PathOK
<1>2. Deep(lw, bfs[p], pages') BY DeepKept DEF PathOK
<1>3. ChildBlk(p)' = ChildBlk(p) BY DEF ChildBlk, ChildIx, Depth
<1> QED BY <1>1, <1>2, <1>3 DEF PathOK

\* A search starts at the root, and everything is reached from there.
LEMMA FindStart ==
  ASSUME IInv, StructInv, Rooted(pages), NEW p \in Inserters, FinishMoveRight(p),
         pc'[p] = "findpath", NEW lv
  PROVE  PathOK(lv, p)'
<1> DEFINE c == ChildBlk(p)
           w == <<NewFrame(Root)>>
<1>1. /\ pc[p] = "finish" /\ UNCHANGED pages /\ fin' = [fin EXCEPT ![p][1].locked = FALSE]
      /\ \/ UNCHANGED pc
         \/ bfs' = [bfs EXCEPT ![p] = {<<NewFrame(Root)>>}] /\ UNCHANGED stack
  BY DEF FinishMoveRight, Finishing
<1>2. bfs'[p] = {w} /\ stack'[p] = stack[p] BY <1>1 DEF IInv, TypeOK
<1>3. c \in Blocks /\ InUse(c, pages) BY <1>1, ChildHeld DEF Splitting
<1>4. ChildBlk(p)' = c
  <2>1. fin[p] \in Seq(Call) /\ Len(fin[p]) >= 1 /\ Len(fin[p]) \in Nat /\ fin[p][1] \in Call
    BY <1>1, CallFacts DEF Splitting
  <2>2. fin'[p] = [fin[p] EXCEPT ![1] = [fin[p][1] EXCEPT !.locked = FALSE]]
    BY <1>1 DEF IInv, TypeOK
  <2>3. fin'[p][1].up = fin[p][1].up BY <2>1, <2>2 DEF Call
  <2> QED BY <1>2, <2>3 DEF ChildBlk, ChildIx, Depth
<1>5. Last(w) = Root /\ Root \in Blocks /\ pages[Root].type \in InTree
  BY BlocksAssumption, NewFrameType DEF Last, IInv, GoodPages
<1> HIDE DEF w, c
<1>6. Ahead({w}, c, pages)
  <2> SUFFICES ASSUME NEW T \in SUBSET Blocks, Closed(T, pages), Covers(T, {w}, pages)
               PROVE  LeadsTo(T, c, pages)
    BY DEF Ahead
  <2>1. Root \in T BY <1>5 DEF Covers, CoveredBy
  <2>2. \A x \in Blocks : pages[x].type \in InTree => x \in T BY <2>1 DEF Rooted, InUse
  <2>3. Linked(pages, c) \/ Awaited(pages, c) BY <1>3 DEF StructInv, OneWay
  <2>4. CASE Linked(pages, c)
    <3>1. PICK x \in Blocks : \E d \in LinksOn(pages[x]) : d.ptr = c BY <2>4 DEF Linked
    <3>2. pages[x].type = "inner" BY <3>1 DEF LinksOn
    <3> QED BY <3>1, <3>2, <2>2 DEF LeadsTo
  <2>5. CASE Awaited(pages, c)
    <3>1. PICK x \in Blocks : pages[x].follow /\ pages[x].right = c BY <2>5 DEF Awaited
    <3>2. pages[x].type \in InTree BY <3>1 DEF IInv, GoodPages, GoodPage, Page
    <3> QED BY <3>1, <3>2, <2>2 DEF LeadsTo
  <2> QED BY <2>3, <2>4, <2>5
<1>7. Deep(lv, {w}, pages) BY <1>5 DEF Deep
<1> QED BY <1>1, <1>2, <1>4, <1>6, <1>7 DEF PathOK

\* The queue after a page without the downlink was read.
Queued(ws, w) ==
  (ws \ {w}) \cup MissedRight(w)
    \cup {Append(Seen(w), NewFrame(d.ptr)) : d \in pages[w[Len(w)].blk].items}

\* The paths that take the place of w, and where they lead.
LEMMA QueuedFacts ==
  ASSUME GoodPages(pages, lsn), NEW w, GoodStack(w, lsn), pages[Last(w)].type = "inner"
  PROVE  /\ Last(w) \in Blocks /\ Len(w) \in Nat /\ Len(w) >= 1 /\ (Len(w) = 1 => Last(w) = Root)
         /\ \A d \in pages[Last(w)].items :
              LET v == Append(Seen(w), NewFrame(d.ptr)) IN
              Last(v) = d.ptr /\ d.ptr \in Blocks /\ Len(v) = Len(w) + 1
         /\ \A v \in MissedRight(w) :
              /\ Last(v) = pages[Last(w)].right /\ Len(v) = Len(w) /\ LsnAbove(v) = LsnAbove(w)
              /\ pages[Last(w)].right \in Blocks
         /\ MissedRight(w) = {} =>
              Len(w) = 1 \/ ~(LsnAbove(w) < pages[Last(w)].nsn) \/ pages[Last(w)].right = NoBlock
<1> DEFINE n == Len(w)
<1>1. w \in Seq(Frame) /\ n \in Nat /\ n >= 1 /\ w[1].blk = Root BY DEF GoodStack, Anchored
<1>2. n \in Nat /\ n >= 1 BY <1>1
<1>3. n = 1 \/ n > 1
  <2> HIDE DEF n
  <2> QED BY <1>2
<1>4. n \in 1..n /\ w[n] \in Frame BY <1>1
<1>5. Last(w) = w[n].blk /\ Last(w) \in Blocks BY <1>4 DEF Last, Frame
<1>6. Seen(w) \in Seq(Frame) /\ Len(Seen(w)) = n BY SeenPath DEF GoodStack, Anchored
<1>7. GoodPage(pages[Last(w)]) /\ pages[Last(w)] \in Page BY <1>5 DEF GoodPages
<1>8. \A f : LET v == Append(Seen(w), f) IN f \in Frame => Len(v) = n + 1 /\ v[n + 1] = f
  BY <1>6, AppendProperties
<1>9. ASSUME NEW d \in pages[Last(w)].items
      PROVE  LET v == Append(Seen(w), NewFrame(d.ptr)) IN
             Last(v) = d.ptr /\ d.ptr \in Blocks /\ Len(v) = n + 1
  <2>1. d.ptr \in Blocks BY <1>7, <1>9 DEF GoodPage
  <2>2. NewFrame(d.ptr) \in Frame /\ NewFrame(d.ptr).blk = d.ptr BY <2>1, NewFrameType
  <2> QED BY <2>1, <2>2, <1>8 DEF Last
<1>10. ASSUME NEW v \in MissedRight(w)
      PROVE  /\ Last(v) = pages[Last(w)].right /\ Len(v) = n /\ LsnAbove(v) = LsnAbove(w)
             /\ pages[Last(w)].right \in Blocks
  <2> DEFINE r == pages[Last(w)].right
             u == SubSeq(w, 1, n - 1)
  <2>1. v = Append(u, NewFrame(r)) /\ r # NoBlock /\ n > 1 BY <1>5, <1>10 DEF MissedRight
  <2>2. r \in Blocks BY <2>1, <1>7 DEF Page
  <2>3. NewFrame(r) \in Frame /\ NewFrame(r).blk = r BY <2>2, NewFrameType
  <2>4. u \in Seq(Frame) /\ Len(u) = n - 1 /\ \A i \in 1..n - 1 : u[i] = w[i]
    BY <1>1, <2>1, SubSeqProperties
  <2> HIDE DEF u, r
  <2>5. /\ Len(v) = Len(u) + 1 /\ v[Len(u) + 1] = NewFrame(r)
        /\ \A i \in 1..Len(u) : v[i] = u[i]
    BY <2>1, <2>3, <2>4, AppendProperties
  <2>6. Len(v) = n /\ v[n] = NewFrame(r) /\ n - 1 \in 1..n - 1 BY <2>4, <2>5, <2>1, <1>1
  <2>7. v[n - 1] = w[n - 1] BY <2>4, <2>5, <2>6
  <2> QED BY <2>2, <2>3, <2>6, <2>7 DEF Last, LsnAbove, r
<1>11. ASSUME MissedRight(w) = {}, n # 1, LsnAbove(w) < pages[Last(w)].nsn,
             pages[Last(w)].right # NoBlock
      PROVE  FALSE
  <2>1. n > 1 BY <1>11, <1>3
  <2>2. LsnAbove(w) = w[n - 1].lsn BY <2>1 DEF LsnAbove
  <2>3. MissedRight(w) = {Append(SubSeq(w, 1, n - 1), NewFrame(pages[Last(w)].right))}
    BY <2>1, <2>2, <1>5, <1>11 DEF MissedRight
  <2> QED BY <2>3, <1>11
<1> QED BY <1>1, <1>5, <1>9, <1>10, <1>11

\* A page that has not the downlink to c is replaced by what it leads to: its
\* children, and the right sibling if that was split from it since the parent was
\* read.
LEMMA AheadGoes ==
  ASSUME GoodPages(pages, lsn), NEW ws, NEW w \in ws, GoodStack(w, lsn), NEW c,
         pages[Last(w)].type = "inner", ~pages[Last(w)].follow,
         \A d \in pages[Last(w)].items : d.ptr # c, Ahead(ws, c, pages)
  PROVE  Ahead(Queued(ws, w), c, pages)
<1> DEFINE b == Last(w)
           qs == Queued(ws, w)
<1>1. /\ b \in Blocks /\ Len(w) \in Nat /\ Len(w) >= 1 /\ (Len(w) = 1 => b = Root)
      /\ \A d \in pages[b].items : Last(Append(Seen(w), NewFrame(d.ptr))) = d.ptr
      /\ \A v \in MissedRight(w) : Last(v) = pages[b].right /\ LsnAbove(v) = LsnAbove(w)
      /\ MissedRight(w) = {} =>
           Len(w) = 1 \/ ~(LsnAbove(w) < pages[b].nsn) \/ pages[b].right = NoBlock
  BY QueuedFacts
<1>2. /\ \A d \in pages[b].items : Append(Seen(w), NewFrame(d.ptr)) \in qs
      /\ \A v \in MissedRight(w) : v \in qs
      /\ \A u \in ws : u # w => u \in qs
  BY DEF Queued, Last
<1>3. LinksOn(pages[b]) = pages[b].items /\ ~pages[b].follow BY DEF LinksOn
<1>4. \A d \in pages[b].items : d.ptr # c OBVIOUS
<1> HIDE DEF b, qs
<1> SUFFICES ASSUME NEW T \in SUBSET Blocks, Closed(T, pages), Covers(T, qs, pages)
             PROVE  LeadsTo(T, c, pages)
  BY DEF Ahead, qs
<1> DEFINE V == T \cup {b}
<1>5. V \in SUBSET Blocks /\ T \subseteq V /\ b \in V BY <1>1
<1>6. \A x \in V : x \in T \/ x = b OBVIOUS
<1> HIDE DEF V
<1>7. Closed(V, pages)
  <2>1. ASSUME NEW d \in pages[b].items PROVE d.ptr \in T
    <3>1. PICK C \in SUBSET T : CoveredBy(C, Append(Seen(w), NewFrame(d.ptr)), pages)
      BY <1>2 DEF Covers
    <3>2. Last(Append(Seen(w), NewFrame(d.ptr))) = d.ptr BY <1>1
    <3> QED BY <3>1, <3>2 DEF CoveredBy
  <2> QED BY <2>1, <1>3, <1>5, <1>6 DEF Closed
<1>8. Covers(V, ws, pages)
  <2> SUFFICES ASSUME NEW u \in ws PROVE \E C \in SUBSET V : CoveredBy(C, u, pages)
    BY DEF Covers
  <2>1. CASE u # w
    <3>1. PICK C \in SUBSET T : CoveredBy(C, u, pages) BY <2>1, <1>2 DEF Covers
    <3> QED BY <3>1, <1>5
  <2>2. CASE u = w /\ MissedRight(w) = {}
    <3>1. Len(w) = 1 => LsnAbove(w) = 0 /\ pages[b].nsn = 0 /\ ~(0 < pages[b].nsn)
      BY <1>1 DEF LsnAbove, GoodPages
    <3>2. Rightward({b}, LsnAbove(w), pages) BY <3>1, <2>2, <1>1, <1>3 DEF Rightward
    <3>3. CoveredBy({b}, w, pages) BY <3>2 DEF CoveredBy, b
    <3>4. {b} \in SUBSET V BY <1>5
    <3> QED BY <3>3, <3>4, <2>2
  <2>3. CASE u = w /\ MissedRight(w) # {}
    <3>1. PICK v \in MissedRight(w) : TRUE BY <2>3
    <3>2. PICK C \in SUBSET T : CoveredBy(C, v, pages) BY <1>2 DEF Covers
    <3>3. pages[b].right \in C /\ Rightward(C, LsnAbove(w), pages) BY <3>2, <1>1 DEF CoveredBy
    <3>4. Rightward({b} \cup C, LsnAbove(w), pages) BY <3>3 DEF Rightward
    <3>5. CoveredBy({b} \cup C, w, pages) BY <3>4 DEF CoveredBy, b
    <3>6. {b} \cup C \in SUBSET V BY <1>5
    <3> QED BY <3>5, <3>6, <2>3
  <2> QED BY <2>1, <2>2, <2>3
<1>9. LeadsTo(V, c, pages) BY <1>5, <1>7, <1>8 DEF Ahead
<1> QED BY <1>3, <1>4, <1>6, <1>9 DEF LeadsTo

\* The children are one level below, and the right sibling is on the same.
LEMMA DeepGoes ==
  ASSUME GoodPages(pages, lsn), OneWay(pages), NEW lv, Levels(lv, pages), NEW ws, NEW w \in ws,
         GoodStack(w, lsn), pages[Last(w)].type = "inner", Deep(lv, ws, pages)
  PROVE  Deep(lv, Queued(ws, w), pages)
<1> DEFINE b == Last(w)
<1>1. /\ b \in Blocks /\ Len(w) \in Nat
      /\ \A d \in pages[b].items : LET v == Append(Seen(w), NewFrame(d.ptr)) IN
           Last(v) = d.ptr /\ Len(v) = Len(w) + 1
      /\ \A v \in MissedRight(w) :
           Last(v) = pages[b].right /\ Len(v) = Len(w) /\ pages[b].right \in Blocks
  BY QueuedFacts
<1>2. pages[b].type = "inner" /\ lv \in [Blocks -> Nat] BY DEF Levels
<1>3. ASSUME NEW v \in Queued(ws, w)
      PROVE  /\ Last(v) \in Blocks /\ pages[Last(v)].type \in InTree /\ Last(v) # Root
             /\ lv[Last(v)] + Len(v) = lv[b] + Len(w)
  <2>1. CASE v \in ws /\ v # w BY <2>1 DEF Deep
  <2>2. CASE v \in MissedRight(w)
    <3>1. Last(v) = pages[b].right /\ Len(v) = Len(w) /\ pages[b].right \in Blocks BY <2>2, <1>1
    <3>2. pages[b].right # NoBlock BY <3>1, BlocksAssumption
    <3>3. InUse(pages[b].right, pages) /\ lv[pages[b].right] = lv[b]
      BY <3>2, <1>1, <1>2 DEF Levels
    <3> QED BY <3>1, <3>3 DEF InUse
  <2>3. ASSUME NEW d \in pages[b].items, v = Append(Seen(w), NewFrame(d.ptr))
        PROVE  /\ Last(v) \in Blocks /\ pages[Last(v)].type \in InTree /\ Last(v) # Root
               /\ lv[Last(v)] + Len(v) = lv[b] + Len(w)
    <3>1. Last(v) = d.ptr /\ Len(v) = Len(w) + 1 BY <2>3, <1>1
    <3>2. d \in LinksOn(pages[b]) BY <1>2 DEF LinksOn
    <3>3. d.ptr \in Blocks /\ InUse(d.ptr, pages) /\ lv[b] = lv[d.ptr] + 1
      BY <3>2, <1>1 DEF OneWay, Levels
    <3>4. lv[d.ptr] \in Nat BY <3>3, <1>2
    <3> QED BY <3>1, <3>3, <3>4, <1>1 DEF InUse
  <2> QED BY <2>1, <2>2, <2>3, <1>3 DEF Queued, Last
<1> QED BY <1>3 DEF Deep

\* A step of the search.
LEMMA FindGoes ==
  ASSUME IInv, StructInv, NEW p \in Inserters, FindPathStep(p), pc'[p] = "findpath",
         NEW lv, Levels(lv, pages), PathOK(lv, p)
  PROVE  PathOK(lv, p)'
<1>1. PICK w \in bfs[p] :
        /\ pages[Last(w)].type = "inner" /\ ~pages[Last(w)].follow
        /\ \/ Proceed(p, "finish")
           \/ /\ DownlinksOn(Last(w), ChildBlk(p)) = {}
              /\ bfs' = [bfs EXCEPT ![p] = Queued(@, w)]
              /\ UNCHANGED stack
  BY DEF FindPathStep, NextPaths, Queued, Last
<1>2. pc[p] = "findpath" /\ UNCHANGED <<treeVars, fin>> BY DEF FindPathStep
<1>3. ~Proceed(p, "finish") BY DEF Proceed, IInv, TypeOK
<1>4. bfs'[p] = Queued(bfs[p], w) /\ UNCHANGED <<stack, fin, pages>>
  BY <1>1, <1>2, <1>3 DEF IInv, TypeOK, treeVars
<1>5. \A d \in pages[Last(w)].items : d.ptr # ChildBlk(p) BY <1>1, <1>3 DEF DownlinksOn
<1>6. GoodPages(pages, lsn) /\ OneWay(pages) /\ GoodStack(w, lsn)
  BY DEF IInv, ProcOK, StructInv
<1>7. Ahead(bfs[p], ChildBlk(p), pages) /\ Deep(lv, bfs[p], pages) BY <1>2 DEF PathOK
<1>8. Ahead(bfs'[p], ChildBlk(p), pages) BY <1>1, <1>4, <1>5, <1>6, <1>7, AheadGoes
<1>9. Deep(lv, bfs'[p], pages) BY <1>1, <1>4, <1>6, <1>7, DeepGoes
<1>10. ChildBlk(p)' = ChildBlk(p) BY <1>4 DEF ChildBlk, ChildIx, Depth
<1> QED BY <1>4, <1>8, <1>9, <1>10 DEF PathOK
-----------------------------------------------------------------------------
(***************************************************************************)
(* How a backend comes to the page it visits.                              *)
(***************************************************************************)
\* It is the root, an internal page, one with a downlink, or where it was before.
Arrives(p) ==
  pc'[p] # "idle" =>
    LET c == stack'[p][Len(stack'[p])].blk IN
    \/ c = Root \/ pages[c].type = "inner" \/ Linked(pages, c)
    \/ pc[p] # "idle" /\ c = Top(p).blk

\* The stack stays as it is, or remembers the LSN of the page.
LEMMA ArriveHere ==
  ASSUME IInv, NEW p \in Inserters, pc[p] # "idle", stack'[p] \in {stack[p], SeenStack(p)}
  PROVE  Arrives(p)
<1>1. CASE stack'[p] = stack[p] BY <1>1 DEF Arrives, Top, Depth
<1>2. CASE stack'[p] = SeenStack(p) BY <1>2, SeenKind DEF Arrives
<1> QED BY <1>1, <1>2

\* A descent starts at the root.
LEMMA ArriveRoot ==
  ASSUME NEW p, stack'[p] = <<NewFrame(Root)>>
  PROVE  Arrives(p)
<1>1. NewFrame(Root).blk = Root BY NewFrameType, BlocksAssumption
<1> QED BY <1>1 DEF Arrives

\* Pages above another one are internal.
LEMMA ArriveUp ==
  ASSUME IInv, StructInv, NEW p \in Inserters, pc[p] # "idle", Depth(p) >= 2, PopTo(p)
  PROVE  Arrives(p)
<1> DEFINE n == Depth(p) - 1
           st == SubSeq(stack[p], 1, n)
<1>1. stack[p] \in Seq(Frame) /\ Depth(p) = Len(stack[p]) /\ n \in Nat /\ n >= 1
  BY TopFacts DEF Depth
<1>2. stack'[p] = st BY DEF PopTo, IInv, TypeOK
<1>3. Len(st) = n /\ \A i \in 1..n : st[i] = stack[p][i] BY <1>1, SubSeqProperties
<1>4. UsedFrames(stack[p], pages) BY DEF StructInv, ProcStruct
<1>5. n \in 1..n /\ n \in 1..Len(stack[p]) - 1 BY <1>1
<1> HIDE DEF n, st
<1>6. pages[stack[p][n].blk].type = "inner" BY <1>4, <1>5 DEF UsedFrames
<1> QED BY <1>2, <1>3, <1>5, <1>6 DEF Arrives

\* A descent follows downlinks.
LEMMA ArriveDown ==
  ASSUME IInv, StructInv, NEW p \in Inserters, pc[p] # "idle", TopPage(p).type = "inner",
         NEW d \in TopPage(p).items, stack'[p] = Append(SeenStack(p), NewFrame(d.ptr))
  PROVE  Arrives(p)
<1>1. Top(p).blk \in Blocks BY TopFacts
<1>2. d.ptr \in Blocks /\ Linked(pages, d.ptr)
  <2>1. d \in LinksOn(pages[Top(p).blk]) BY DEF LinksOn, TopPage
  <2> QED BY <1>1, <2>1 DEF Linked, StructInv, OneWay
<1>3. NewFrame(d.ptr) \in Frame /\ NewFrame(d.ptr).blk = d.ptr BY <1>2, NewFrameType
<1>4. SeenStack(p) \in Seq(Frame) BY SeenFacts
<1>5. LET st == Append(SeenStack(p), NewFrame(d.ptr)) IN st[Len(st)] = NewFrame(d.ptr)
  BY <1>3, <1>4, AppendProperties
<1> QED BY <1>2, <1>3, <1>5 DEF Arrives

\* The entry is in, and the next one begins at the root.
LEMMA EntryDoneArrives ==
  ASSUME IInv, NEW p \in Inserters, EntryDone(p) PROVE Arrives(p)
<1>1. stack'[p] = <<NewFrame(Root)>> \/ pc'[p] = "idle"
  BY DEF EntryDone, Proceed, IInv, TypeOK
<1> QED BY <1>1, ArriveRoot DEF Arrives

LEMMA PlaceDownlinkArrives ==
  ASSUME IInv, StructInv, NEW p \in Inserters, pc[p] # "idle", TopPage(p).type = "inner",
         NEW d \in TopPage(p).items, PlaceDownlink(p, d)
  PROVE  Arrives(p)
<1>1. \/ stack' = [stack EXCEPT ![p] = Append(SeenStack(p), NewFrame(d.ptr))]
      \/ stack' = [stack EXCEPT ![p] = SeenStack(p)]
  BY DEF PlaceDownlink
<1>2. stack'[p] = Append(SeenStack(p), NewFrame(d.ptr)) \/ stack'[p] = SeenStack(p)
  BY <1>1 DEF IInv, TypeOK
<1> QED BY <1>2, ArriveDown, ArriveHere

LEMMA PlaceEntryArrives ==
  ASSUME IInv, NEW p \in Inserters, pc[p] # "idle", PlaceEntry(p) PROVE Arrives(p)
<1>1. EntryDone(p) \/ stack' = [stack EXCEPT ![p] = SeenStack(p)] BY DEF PlaceEntry
<1>2. EntryDone(p) \/ stack'[p] = SeenStack(p) BY <1>1 DEF IInv, TypeOK
<1> QED BY <1>2, EntryDoneArrives, ArriveHere

\* Steps of mgistfinishsplit change the stack above its top only.
LEMMA MoveRightArrives ==
  ASSUME IInv, NEW p \in Inserters, FinishMoveRight(p) PROVE Arrives(p)
<1> DEFINE i == ParentIx(p)
           n == Depth(p)
<1>1. pc[p] # "idle" /\ pc[p] \in Splitting BY DEF FinishMoveRight, Finishing, Splitting
<1>2. /\ stack[p] \in Seq(Frame) /\ n = Len(stack[p]) /\ n \in Nat /\ i \in 1..n /\ i # n /\ n >= 1
  BY <1>1, CallFacts DEF Depth
<1>3. UNCHANGED stack \/ \E b : stack' = [stack EXCEPT ![p][i].blk = b]
  BY DEF FinishMoveRight
<1> HIDE DEF i, n
<1>4. stack'[p] = stack[p] \/ \E f : stack'[p] = [stack[p] EXCEPT ![i] = f]
  <2>1. p \in DOMAIN stack BY DEF IInv, TypeOK
  <2>2. ASSUME NEW b, stack' = [stack EXCEPT ![p][i].blk = b]
        PROVE  \E f : stack'[p] = [stack[p] EXCEPT ![i] = f]
    <3>1. stack'[p] = [stack[p] EXCEPT ![i] = [stack[p][i] EXCEPT !.blk = b]] BY <2>1, <2>2
    <3> QED BY <3>1
  <2> QED BY <1>3, <2>2
<1>5. CASE stack'[p] = stack[p] BY <1>1, <1>5, ArriveHere
<1>6. ASSUME NEW f, stack'[p] = [stack[p] EXCEPT ![i] = f] PROVE Arrives(p)
  <2>1. Len(stack'[p]) = n /\ stack'[p][n] = stack[p][n] BY <1>2, <1>6
  <2> QED BY <1>1, <2>1 DEF Arrives, Top, n
<1> QED BY <1>4, <1>5, <1>6

LEMMA InsertDownlinkArrives ==
  ASSUME IInv, NEW p \in Inserters, InsertDownlink(p) PROVE Arrives(p)
<1>1. pc[p] # "idle" BY DEF InsertDownlink, Finishing
<1>2. Depth(p) \in 1..Depth(p) BY <1>1, TopFacts
<1>3. Len(stack'[p]) = Depth(p) /\ stack'[p][Depth(p)].blk = Top(p).blk
  BY <1>2, DownlinkStack DEF Top
<1> QED BY <1>1, <1>3 DEF Arrives

\* A path that was found replaces what is above the page that was split.
LEMMA FindPathArrives ==
  ASSUME IInv, NEW p \in Inserters, FindPathStep(p) PROVE Arrives(p)
<1>1. pc[p] = "findpath" /\ pc[p] # "idle" /\ pc[p] \in Splitting BY DEF FindPathStep, Splitting
<1>2. PICK w \in bfs[p] :
        \/ stack' = [stack EXCEPT ![p] = Seen(w) \o SubSeq(stack[p], ChildIx(p), Depth(p))]
        \/ UNCHANGED stack
  BY DEF FindPathStep, NextPaths
<1> DEFINE n == Depth(p)
           c == ChildIx(p)
           s == SubSeq(stack[p], c, n)
           v == Seen(w)
<1>3. /\ stack[p] \in Seq(Frame) /\ n = Len(stack[p]) /\ n \in Nat /\ c \in 2..n
      /\ GoodPages(pages, lsn) /\ GoodStack(w, lsn)
  BY <1>1, CallFacts DEF Depth, IInv, ProcOK
<1>4. v \in Seq(Frame) /\ Len(v) \in Nat BY <1>3, SeenPath DEF GoodStack, Anchored
<1>5. stack'[p] = v \o s \/ stack'[p] = stack[p] BY <1>2 DEF IInv, TypeOK
<1> HIDE DEF v, c, n
<1>6. CASE stack'[p] = stack[p] BY <1>1, <1>6, ArriveHere
<1>7. CASE stack'[p] = v \o s
  <2>1. \A i \in c..n : stack[p][i] \in Frame BY <1>3
  <2>2. s \in Seq(Frame) /\ Len(s) = n - c + 1 /\ \A i \in 1..n - c + 1 : s[i] = stack[p][c + i - 1]
    BY <1>3, <2>1, SubSeqProperties
  <2> HIDE DEF s
  <2>3. /\ Len(v \o s) = Len(v) + Len(s)
        /\ \A i \in 1..Len(v) + Len(s) : (v \o s)[i] = IF i <= Len(v) THEN v[i] ELSE s[i - Len(v)]
    BY <1>4, <2>2, ConcatProperties
  <2>4. Len(s) \in 1..n - c + 1 /\ c + Len(s) - 1 = n BY <1>3, <2>2
  <2>5. s[Len(s)] = stack[p][n] BY <2>2, <2>4
  <2> DEFINE k == Len(v) + Len(s)
  <2>6. k \in 1..k /\ ~(k <= Len(v)) /\ k - Len(v) = Len(s) BY <1>4, <2>4, <1>3
  <2>7. (v \o s)[k] = s[k - Len(v)] BY <2>3, <2>6
  <2>8. Len(stack'[p]) = k /\ stack'[p][k] = stack[p][n] BY <1>7, <2>3, <2>5, <2>6, <2>7
  <2> HIDE DEF k
  <2> QED BY <1>1, <2>8 DEF Arrives, Top, n
<1> QED BY <1>5, <1>6, <1>7

LEMMA StepArrives ==
  ASSUME IInv, StructInv, NEW p \in Inserters, Step(p) PROVE Arrives(p)
<1>1. CASE PopRetry(p)
  <2>1. pc[p] # "idle" /\ Depth(p) >= 2 /\ PopTo(p) BY <1>1, TopFacts DEF PopRetry
  <2> QED BY <2>1, ArriveUp
<1>2. CASE VisitStale(p)
  <2>1. pc[p] # "idle" /\ Depth(p) >= 2 /\ PopTo(p)
    BY <1>2, TopFacts DEF VisitStale, Visiting, Stale
  <2> QED BY <2>1, ArriveUp
<1>3. CASE VisitInner(p)
  <2>1. pc[p] # "idle" /\ TopPage(p).type = "inner" BY <1>3 DEF VisitInner, Visiting
  <2>2. PICK d \in TopPage(p).items :
          stack' = [stack EXCEPT ![p] = Append(SeenStack(p), NewFrame(d.ptr))]
    BY <1>3 DEF VisitInner
  <2>3. stack'[p] = Append(SeenStack(p), NewFrame(d.ptr)) BY <2>2 DEF IInv, TypeOK
  <2> QED BY <2>1, <2>3, ArriveDown
<1>4. CASE VisitAdjust(p)
  <2>1. pc[p] # "idle" /\ TopPage(p).type = "inner" BY <1>4 DEF VisitAdjust, Visiting
  <2>2. \/ \E d \in TopPage(p).items : PlaceDownlink(p, d)
        \/ stack' = [stack EXCEPT ![p] = SeenStack(p)]
    BY <1>4 DEF VisitAdjust
  <2>3. CASE \E d \in TopPage(p).items : PlaceDownlink(p, d)
    BY <2>1, <2>3, PlaceDownlinkArrives
  <2>4. CASE stack' = [stack EXCEPT ![p] = SeenStack(p)]
    <3>1. stack'[p] = SeenStack(p) BY <2>4 DEF IInv, TypeOK
    <3> QED BY <2>1, <3>1, ArriveHere
  <2> QED BY <2>2, <2>3, <2>4
<1>5. CASE VisitLeaf(p)
  <2>1. pc[p] # "idle" BY <1>5 DEF VisitLeaf, Visiting
  <2>2. PlaceEntry(p) \/ stack' = [stack EXCEPT ![p] = SeenStack(p)] BY <1>5 DEF VisitLeaf
  <2>3. PlaceEntry(p) \/ stack'[p] = SeenStack(p) BY <2>2 DEF IInv, TypeOK
  <2> QED BY <2>1, <2>3, PlaceEntryArrives, ArriveHere
<1>6. CASE VisitFollow(p)
  <2>1. pc[p] # "idle" /\ stack'[p] = SeenStack(p)
    BY <1>6 DEF VisitFollow, Visiting, IInv, TypeOK
  <2> QED BY <2>1, ArriveHere
<1>7. CASE LockInner(p)
  <2>1. pc[p] = "lockinner" BY <1>7 DEF LockInner
  <2>2. TopPage(p).type = "inner" BY <2>1 DEF IInv, ProcOK, KindOK, TopPage, Top, Depth
  <2>3. UNCHANGED stack \/ \E d \in TopPage(p).items : PlaceDownlink(p, d)
    BY <1>7 DEF LockInner
  <2>4. CASE \E d \in TopPage(p).items : PlaceDownlink(p, d)
    BY <2>1, <2>2, <2>4, PlaceDownlinkArrives
  <2>5. CASE UNCHANGED stack BY <2>1, <2>5, ArriveHere
  <2> QED BY <2>3, <2>4, <2>5
<1>8. CASE LockLeaf(p)
  <2>1. pc[p] # "idle" BY <1>8 DEF LockLeaf
  <2>2. \/ stack' = [stack EXCEPT ![p] = SeenStack(p)]
        \/ Top(p).blk # Root /\ PopTo(p)
        \/ PlaceEntry(p)
    BY <1>8 DEF LockLeaf
  <2>3. CASE stack' = [stack EXCEPT ![p] = SeenStack(p)]
    <3>1. stack'[p] = SeenStack(p) BY <2>3 DEF IInv, TypeOK
    <3> QED BY <2>1, <3>1, ArriveHere
  <2>4. CASE Top(p).blk # Root /\ PopTo(p)
    <3>1. Depth(p) >= 2 BY <2>1, <2>4, TopFacts
    <3> QED BY <2>1, <2>4, <3>1, ArriveUp
  <2>5. CASE PlaceEntry(p) BY <2>1, <2>5, PlaceEntryArrives
  <2> QED BY <2>2, <2>3, <2>4, <2>5
<1>9. CASE LockFix(p) \/ FixChain(p) \/ FinishLock(p)
  <2>1. pc[p] # "idle" /\ UNCHANGED stack
    BY <1>9 DEF LockFix, FixChain, FinishLock, Finishing
  <2> QED BY <2>1, ArriveHere
<1>10. CASE FindPathError(p) \/ InsertDownlinkError(p)
  <2>1. pc'[p] = "idle"
    BY <1>10 DEF FindPathError, InsertDownlinkError, Abandon, Proceed, IInv, TypeOK
  <2> QED BY <2>1 DEF Arrives
<1>11. CASE FinishReturn(p)
  <2>1. pc[p] = "return" BY <1>11 DEF FinishReturn
  <2>2. Depth(p) >= 2 BY <2>1 DEF IInv, ProcOK, Depth
  <2>3. EntryDone(p) \/ PopTo(p) BY <1>11 DEF FinishReturn
  <2> QED BY <2>1, <2>2, <2>3, EntryDoneArrives, ArriveUp
<1> QED BY <1>1, <1>2, <1>3, <1>4, <1>5, <1>6, <1>7, <1>8, <1>9, <1>10, <1>11,
           MoveRightArrives, InsertDownlinkArrives, FindPathArrives DEF Step

\* A page keeps its downlink.
LEMMA WriteKeepsLinks ==
  ASSUME GoodPages(pages, lsn), NEW b, NEW N, NEW left, WriteOK(b, N, left),
         NEW new, Writes(new, b, N, left), NEW c, Linked(pages, c)
  PROVE  Linked(new, c)
<1>1. PICK x \in Blocks : \E d \in LinksOn(pages[x]) : d.ptr = c BY DEF Linked
<1>2. pages[x].type = "inner" /\ \E d \in pages[x].items : d.ptr = c BY <1>1 DEF LinksOn
<1>3. b \in Blocks BY DEF WriteOK
<1>4. CASE x # b
  <2>1. pages[x].type # "new" BY <1>2
  <2>2. x # left => new[x] = pages[x] BY <2>1, <1>4, WriteFacts
  <2>3. x = left => new[x].type = pages[x].type /\ new[x].items = pages[x].items
    BY <1>1, WriteFacts, BlocksAssumption
  <2> QED BY <2>2, <2>3, <1>1, <1>2 DEF Linked, LinksOn
<1>5. CASE x = b
  <2>1. PICK d \in N : d.ptr = c BY <1>2, <1>5 DEF WriteOK
  <2>2. pages[b].type = "inner" BY <1>2, <1>5
  <2>3. CASE Fitted(new, b, N, left) BY <1>3, <2>1, <2>2, <2>3 DEF Fitted, Linked, LinksOn
  <2>4. CASE \E P \in Partitions(b, N), blks \in Seq(Blocks) : Divided(new, b, N, left, P, blks)
    <3>1. PICK P \in Partitions(b, N), blks \in Seq(Blocks) : Divided(new, b, N, left, P, blks)
      BY <2>4
    <3>2. PICK i \in 1..Len(blks) : d \in P[i] BY <3>1 DEF Divided
    <3>3. blks[i] \in Blocks /\ new[blks[i]].type = "inner" /\ new[blks[i]].items = P[i]
      BY <3>1, <2>2 DEF Divided
    <3> QED BY <2>1, <3>2, <3>3 DEF Linked, LinksOn
  <2>5. CASE /\ b = Root
             /\ \E P \in Partitions(b, N), blks \in Seq(Blocks) : RootDivided(new, N, left, P, blks)
    <3>1. PICK P \in Partitions(b, N), blks \in Seq(Blocks) : RootDivided(new, N, left, P, blks)
      BY <2>5
    <3>2. PICK i \in 1..Len(blks) : d \in P[i] BY <3>1 DEF RootDivided
    <3>3. blks[i] \in Blocks /\ new[blks[i]].type = "inner" /\ new[blks[i]].items = P[i]
      BY <3>1, <2>2, <2>5 DEF RootDivided
    <3> QED BY <2>1, <3>2, <3>3 DEF Linked, LinksOn
  <2> QED BY <2>3, <2>4, <2>5 DEF Writes
<1> QED BY <1>4, <1>5

LEMMA LinkedLater ==
  ASSUME IInv, OneWrite, NEW c, Linked(pages, c) PROVE Linked(pages', c)
<1>1. GoodPages(pages, lsn) BY DEF IInv
<1>2. CASE UNCHANGED pages BY <1>2
<1>3. ASSUME NEW b, NEW N, NEW left, WriteOK(b, N, left), Writes(pages', b, N, left)
      PROVE  Linked(pages', c)
  BY <1>1, <1>3, WriteKeepsLinks
<1> QED BY <1>2, <1>3 DEF OneWrite

\* So nobody comes to a leaf otherwise than by its downlink.
LEMMA EnteredKept ==
  ASSUME IInv, StructInv, IInv', OneWrite, Grown, NEW p \in Inserters, LeafEntered(p), Arrives(p)
  PROVE  LeafEntered(p)'
<1> SUFFICES ASSUME pc'[p] # "idle"
             PROVE  LET c == stack'[p][Len(stack'[p])].blk IN
                    c = Root \/ pages'[c].type # "leaf" \/ Linked(pages', c)
  BY DEF LeafEntered, TopPage, Top, Depth
<1> DEFINE c == stack'[p][Len(stack'[p])].blk
<1> SUFFICES c = Root \/ pages'[c].type # "leaf" \/ Linked(pages', c) OBVIOUS
<1>1. c \in Blocks
  <2>1. stack'[p] \in Seq(Frame) /\ Len(stack'[p]) >= 1 BY DEF IInv, ProcOK, Anchored
  <2>2. Len(stack'[p]) \in 1..Len(stack'[p]) BY <2>1
  <2>3. stack'[p][Len(stack'[p])] \in Frame BY <2>1, <2>2
  <2> QED BY <2>3 DEF Frame
<1>2. \/ c = Root \/ pages[c].type = "inner" \/ Linked(pages, c)
      \/ pc[p] # "idle" /\ c = Top(p).blk
  BY DEF Arrives
<1> HIDE DEF c
<1>3. SameKinds(pages, pages') BY GrownFacts DEF IInv
<1>4. CASE Linked(pages, c) BY <1>4, LinkedLater
<1>5. CASE c # Root /\ pages[c].type = "inner"
  <2>1. pages'[c].type = "inner" BY <1>1, <1>3, <1>5 DEF SameKinds
  <2> QED BY <2>1
<1>6. CASE c # Root /\ pc[p] # "idle" /\ c = Top(p).blk
  <2>1. pages[c].type # "new" BY <1>6, StacksUsed DEF TopPage
  <2>2. pages[c].type # "leaf" \/ Linked(pages, c) BY <1>6 DEF LeafEntered, TopPage
  <2>3. pages'[c].type = pages[c].type BY <1>1, <1>3, <1>6, <2>1 DEF SameKinds
  <2> QED BY <2>2, <2>3, <1>4
<1> QED BY <1>2, <1>4, <1>5, <1>6

\* Who searches for a parent has begun to in mgistfinishsplit, and goes on with it.
Searches(p) ==
  pc'[p] = "findpath" =>
    \/ FinishMoveRight(p) \/ FindPathStep(p)
    \/ pc[p] = "findpath" /\ bfs'[p] = bfs[p] /\ stack'[p] = stack[p] /\ fin'[p] = fin[p]

LEMMA StepSearches ==
  ASSUME IInv, NEW p \in Inserters, Step(p) PROVE Searches(p)
<1> SUFFICES ASSUME pc'[p] = "findpath", ~FinishMoveRight(p), ~FindPathStep(p) PROVE FALSE
  BY DEF Searches
<1>1. pc \in [Inserters -> PCs] BY DEF IInv, TypeOK
<1>2. ASSUME EntryDone(p) PROVE FALSE BY <1>1, <1>2 DEF EntryDone, Proceed
<1>3. ASSUME NEW d, PlaceDownlink(p, d) PROVE FALSE
  BY <1>1, <1>3 DEF PlaceDownlink, StartFinish, Proceed
<1>4. ASSUME PlaceEntry(p) PROVE FALSE
  BY <1>1, <1>2, <1>4 DEF PlaceEntry, StartFinish, Proceed
<1>5. CASE PopRetry(p) \/ VisitStale(p) \/ VisitInner(p)
  BY <1>1, <1>5 DEF PopRetry, VisitStale, VisitInner, Visiting
<1>6. CASE VisitAdjust(p) \/ VisitLeaf(p)
  BY <1>1, <1>3, <1>4, <1>6 DEF VisitAdjust, VisitLeaf, Proceed
<1>7. CASE LockInner(p) \/ LockLeaf(p)
  BY <1>1, <1>3, <1>4, <1>7 DEF LockInner, LockLeaf, Proceed
<1>8. CASE VisitFollow(p) \/ LockFix(p)
  BY <1>1, <1>8 DEF VisitFollow, LockFix, StartFix, Proceed
<1>9. CASE FixChain(p) \/ FinishLock(p)
  BY <1>1, <1>9 DEF FixChain, FinishLock, Finishing, Proceed
<1>10. CASE FindPathError(p) \/ InsertDownlinkError(p)
  BY <1>1, <1>10 DEF FindPathError, InsertDownlinkError, Abandon, Proceed
<1>11. CASE InsertDownlink(p)
  BY <1>1, <1>11 DEF InsertDownlink, Finishing, Proceed
<1>12. CASE FinishReturn(p)
  BY <1>1, <1>2, <1>12 DEF FinishReturn, Proceed
<1> QED BY <1>5, <1>6, <1>7, <1>8, <1>9, <1>10, <1>11, <1>12 DEF Step

\* All backends, in every step.
LEMMA NextMoves ==
  ASSUME IInv, StructInv, [Next]_vars, NEW p \in Inserters PROVE Arrives(p) /\ Searches(p)
<1>1. ASSUME pc'[p] = pc[p], stack'[p] = stack[p], bfs'[p] = bfs[p], fin'[p] = fin[p]
      PROVE  Arrives(p) /\ Searches(p)
  <2>1. pc[p] # "idle" => Arrives(p) BY <1>1, ArriveHere
  <2> QED BY <1>1, <2>1 DEF Arrives, Searches
<1>2. ASSUME pc'[p] = "idle" PROVE Arrives(p) /\ Searches(p) BY <1>2 DEF Arrives, Searches
<1>3. ASSUME NEW q \in Inserters, OthersSame(q), q # p PROVE Arrives(p) /\ Searches(p)
  BY <1>1, <1>3 DEF OthersSame
<1>4. ASSUME UNCHANGED procVars PROVE Arrives(p) /\ Searches(p) BY <1>1, <1>4 DEF procVars
<1>5. ASSUME NEW q \in Inserters, NEW r \in Rows, BeginRow(q, r) PROVE Arrives(p) /\ Searches(p)
  <2>1. CASE q = p
    <3>1. stack'[p] = <<NewFrame(Root)>> /\ pc'[p] = "visit"
      BY <1>5, <2>1 DEF BeginRow, Proceed, IInv, TypeOK
    <3> QED BY <3>1, ArriveRoot DEF Searches
  <2>2. CASE q # p BY <1>3, <1>5, <2>2, BeginRowOK
  <2> QED BY <2>1, <2>2
<1>6. ASSUME NEW q \in Inserters, Step(q) PROVE Arrives(p) /\ Searches(p)
  <2>1. CASE q = p BY <1>6, <2>1, StepArrives, StepSearches
  <2>2. CASE q # p BY <1>3, <1>6, <2>2, TreeStepOK
  <2> QED BY <2>1, <2>2
<1>7. ASSUME NEW q \in Inserters, Fail(q) PROVE Arrives(p) /\ Searches(p)
  <2>1. CASE q = p
    <3>1. pc'[p] = "idle" BY <1>7, <2>1 DEF Fail, Abandon, Proceed, IInv, TypeOK
    <3> QED BY <3>1, <1>2
  <2>2. CASE q # p BY <1>3, <1>7, <2>2, FailOK
  <2> QED BY <2>1, <2>2
<1>8. CASE Crash
  <2>1. pc'[p] = "idle" BY <1>8 DEF Crash
  <2> QED BY <2>1, <1>2
<1>9. ASSUME NEW s \in Scanners, NEW k \in Keys, ScanStart(s, k) PROVE Arrives(p) /\ Searches(p)
  BY <1>4, <1>9 DEF ScanStart
<1>10. ASSUME NEW s \in Scanners, ScanStep(s) PROVE Arrives(p) /\ Searches(p)
  BY <1>4, <1>10 DEF ScanStep, ScanPage, ScanEnd
<1>11. CASE UNCHANGED vars BY <1>4, <1>11 DEF vars
<1> QED BY <1>5, <1>6, <1>7, <1>8, <1>9, <1>10, <1>11 DEF Next
-----------------------------------------------------------------------------
(***************************************************************************)
(* The invariant holds.                                                    *)
(***************************************************************************)
LEMMA NextParent == IInv /\ StructInv /\ ParentInv /\ [Next]_vars => ParentInv'
<1> SUFFICES ASSUME IInv, StructInv, ParentInv, [Next]_vars PROVE ParentInv' OBVIOUS
<1>1. IInv' /\ Grown /\ StructInv' /\ OneWrite BY NextOK, NextStruct DEF Logged
<1>2. PICK lv : Levels(lv, pages) /\ \A p \in Inserters : PathOK(lv, p) BY DEF ParentInv
<1>3. Rooted(pages) BY DEF ParentInv
<1>4. Rooted(pages') /\ \E lw : Levels(lw, pages') /\ LevelsKept(lw, lv)
  BY <1>1, <1>2, <1>3, PagesStep
<1>5. PICK lw : Levels(lw, pages') /\ LevelsKept(lw, lv) BY <1>4
<1>6. \A p \in Inserters : LeafEntered(p)' BY <1>1, NextMoves, EnteredKept DEF ParentInv
<1>7. ASSUME UNCHANGED pages PROVE ParentInv'
  <2>1. LevelsKept(lv, lv) BY DEF LevelsKept
  <2>2. ASSUME NEW p \in Inserters PROVE PathOK(lv, p)'
    <3>1. CASE pc'[p] # "findpath" BY <3>1 DEF PathOK
    <3>2. CASE pc'[p] = "findpath" /\ FinishMoveRight(p) BY <1>3, <3>2, FindStart
    <3>3. CASE pc'[p] = "findpath" /\ FindPathStep(p) BY <1>2, <3>3, FindGoes
    <3>4. CASE /\ pc[p] = "findpath" /\ bfs'[p] = bfs[p] /\ stack'[p] = stack[p]
               /\ fin'[p] = fin[p]
      BY <1>1, <1>2, <2>1, <3>4, PathKept
    <3> QED BY <3>1, <3>2, <3>3, <3>4, NextMoves DEF Searches
  <2> QED BY <1>2, <1>4, <1>6, <1>7, <2>2 DEF ParentInv
<1>8. ASSUME ~UNCHANGED pages PROVE ParentInv'
  <2>1. ASSUME NEW p \in Inserters PROVE PathOK(lw, p)'
    <3>1. CASE pc'[p] # "findpath" BY <3>1 DEF PathOK
    <3>2. ~FinishMoveRight(p) /\ ~FindPathStep(p)
      BY <1>8 DEF FinishMoveRight, FindPathStep, treeVars
    <3>3. CASE /\ pc[p] = "findpath" /\ bfs'[p] = bfs[p] /\ stack'[p] = stack[p]
               /\ fin'[p] = fin[p]
      BY <1>1, <1>2, <1>5, <3>3, PathKept
    <3> QED BY <3>1, <3>2, <3>3, NextMoves DEF Searches
  <2> QED BY <1>4, <1>5, <1>6, <2>1 DEF ParentInv
<1> QED BY <1>7, <1>8

\* What CREATE INDEX, or a crash after it, left.
LEMMA InitParent == Init => ParentInv
<1> SUFFICES ASSUME Init PROVE ParentInv OBVIOUS
<1>1. PICK t \in InitTrees : pages = InitPages(t) BY DEF Init
<1> DEFINE D == DOMAIN t.items
           I == t.inner \cap D
<1>2. /\ D \subseteq Blocks /\ Root \in D /\ t.follow \subseteq D \ {Root}
      /\ \A b \in D : t.right[b] \in (D \ {Root}) \cup {NoBlock}
  BY InitAssumption DEF InitTree
<1>3. /\ \A a \in I : \A i \in t.items[a] : i.ptr \in D \ {Root}
      /\ \A b \in t.follow : t.right[b] \in D \ {Root}
  BY TreeWays
<1>4. BalancedTree(t) BY BalanceAssumption
<1>5. \A T \in SUBSET D :
        /\ Root \in T
        /\ \A b \in T \cap I : \A i \in t.items[b] : i.ptr \in T
        /\ \A b \in T \cap t.follow : t.right[b] \in T
        => T = D
  BY <1>4 DEF BalancedTree
<1>6. PICK h \in [D -> 0..Cardinality(I)] :
        /\ \A b \in D : h[b] = 0 <=> b \notin t.inner
        /\ \A b \in I : \A i \in t.items[b] : h[b] = h[i.ptr] + 1
        /\ \A b \in D : t.right[b] # NoBlock => h[t.right[b]] = h[b]
  BY <1>4 DEF BalancedTree
<1>7. \A b \in D : h[b] \in Nat BY <1>6
<1> HIDE DEF D
<1>8. \A b \in Blocks :
        /\ b \in D => /\ pages[b].type = IF b \in t.inner THEN "inner" ELSE "leaf"
                      /\ pages[b].items = t.items[b] /\ pages[b].right = t.right[b]
                      /\ pages[b].follow = (b \in t.follow)
        /\ b \notin D => pages[b].type = "new" /\ pages[b].follow = FALSE
  <2> TAKE b \in Blocks
  <2>1. pages[b] = IF b \in D
                   THEN [type |-> IF b \in t.inner THEN "inner" ELSE "leaf", items |-> t.items[b],
                         right |-> t.right[b], nsn |-> 0, lsn |-> BuildLSN,
                         follow |-> b \in t.follow]
                   ELSE EmptyPage
    BY <1>1 DEF InitPages, D
  <2>2. CASE b \in D BY <2>1, <2>2
  <2>3. CASE b \notin D BY <2>1, <2>3 DEF EmptyPage
  <2> QED BY <2>2, <2>3
<1>9. \A b \in Blocks : /\ b \in D <=> pages[b].type \in InTree
                        /\ b \in I <=> pages[b].type = "inner"
                        /\ pages[b].follow <=> b \in t.follow
                        /\ b \in D => pages[b].right = t.right[b]
                        /\ LinksOn(pages[b]) = IF b \in I THEN t.items[b] ELSE {}
  <2> TAKE b \in Blocks
  <2>1. CASE b \in D
    <3>1. pages[b].type = (IF b \in t.inner THEN "inner" ELSE "leaf") /\ pages[b].items = t.items[b]
      BY <2>1, <1>8
    <3>2. pages[b].right = t.right[b] /\ pages[b].follow = (b \in t.follow) BY <2>1, <1>8
    <3>3. b \in I <=> b \in t.inner BY <2>1
    <3> QED BY <2>1, <3>1, <3>2, <3>3 DEF LinksOn
  <2>2. CASE b \notin D
    <3>1. pages[b].type = "new" /\ pages[b].follow = FALSE BY <2>2, <1>8
    <3>2. b \notin I /\ b \notin t.follow BY <2>2, <1>2
    <3> QED BY <2>2, <3>1, <3>2 DEF LinksOn
  <2> QED BY <2>1, <2>2
<1> HIDE DEF I
<1>10. Rooted(pages)
  <2> SUFFICES ASSUME NEW T \in SUBSET Blocks, Root \in T, Closed(T, pages)
               PROVE  \A b \in Blocks : InUse(b, pages) => b \in T
    BY DEF Rooted
  <2>1. \A b \in (T \cap D) \cap I : \A i \in t.items[b] : i.ptr \in T \cap D
    BY <1>3, <1>9 DEF Closed
  <2>2. \A b \in (T \cap D) \cap t.follow : t.right[b] \in T \cap D
    <3> TAKE b \in (T \cap D) \cap t.follow
    <3>1. b \in Blocks /\ pages[b].follow /\ pages[b].right = t.right[b] BY <1>9
    <3>2. t.right[b] \in T BY <3>1 DEF Closed
    <3> QED BY <3>2, <1>3
  <2>3. T \cap D = D BY <2>1, <2>2, <1>2, <1>5
  <2> QED BY <2>3, <1>9 DEF InUse
<1>11. \A p \in Inserters : LeafEntered(p) /\ pc[p] = "idle" BY DEF Init, LeafEntered
<1>12. \E lv : Levels(lv, pages)
  <2> DEFINE lv == [b \in Blocks |-> IF b \in D THEN h[b] ELSE 0]
  <2>1. lv \in [Blocks -> Nat] /\ \A b \in D : lv[b] = h[b] BY <1>2, <1>7
  <2> HIDE DEF lv
  <2>2. ASSUME NEW b \in Blocks
        PROVE  /\ pages[b].type = "leaf" => lv[b] = 0
               /\ pages[b].type = "inner" => lv[b] # 0
    <3>1. pages[b].type = "leaf" => b \in D /\ b \notin t.inner BY <1>8, <1>9
    <3>2. pages[b].type = "inner" => b \in D /\ b \in t.inner BY <1>8, <1>9
    <3> QED BY <3>1, <3>2, <2>1, <1>6
  <2>3. ASSUME NEW b \in Blocks, NEW d \in LinksOn(pages[b]) PROVE lv[b] = lv[d.ptr] + 1
    <3>1. b \in I /\ d \in t.items[b] BY <1>9
    <3>2. b \in D BY <1>9, <3>1
    <3>3. h[b] = h[d.ptr] + 1 /\ d.ptr \in D BY <3>1, <1>3, <1>6
    <3> QED BY <3>2, <3>3, <2>1
  <2>4. ASSUME NEW b \in Blocks, pages[b].type \in InTree, pages[b].right # NoBlock
        PROVE  InUse(pages[b].right, pages) /\ lv[pages[b].right] = lv[b]
    <3>1. b \in D /\ pages[b].right = t.right[b] BY <2>4, <1>9
    <3>2. t.right[b] \in D \ {Root} /\ h[t.right[b]] = h[b] BY <3>1, <2>4, <1>2, <1>6
    <3>3. pages[t.right[b]].type \in InTree BY <3>2, <1>2, <1>9
    <3> QED BY <3>1, <3>2, <3>3, <2>1 DEF InUse
  <2>5. Levels(lv, pages) BY <2>1, <2>2, <2>3, <2>4 DEF Levels
  <2> QED BY <2>5
<1> QED BY <1>10, <1>11, <1>12 DEF ParentInv, PathOK

\* The search for a parent (gistFindPath) has its goal ahead of it, in a tree that is
\* reached from the root and has all leaves at the same depth.
THEOREM ParentInductive == Spec => []ParentInv
<1>1. IInv /\ StructInv /\ ParentInv /\ [Next]_vars => ParentInv' BY NextParent
<1> QED BY <1>1, InitParent, Inductive, StructInductive, PTL DEF Spec
-----------------------------------------------------------------------------
(***************************************************************************)
(* The parent is found again.                                              *)
(***************************************************************************)
\* The search visits internal pages only.  Were it down to the leaves, it would have
\* passed the parent; but then the page whose parent is searched is a leaf that only
\* another leaf leads to, and no backend comes to a leaf that way.
LEMMA ParentAbove ==
  ASSUME IInv, StructInv, ParentInv, NEW p \in Inserters, pc[p] = "findpath",
         NEW w \in NextPaths(p)
  PROVE  pages[Last(w)].type = "inner"
<1> DEFINE c == ChildBlk(p)
<1> SUFFICES ASSUME pages[Last(w)].type # "inner" PROVE FALSE OBVIOUS
<1>1. PICK lv : Levels(lv, pages) /\ PathOK(lv, p) BY DEF ParentInv
<1>2. w \in bfs[p] /\ \A v \in bfs[p] : Len(w) <= Len(v) BY DEF NextPaths
<1>3. /\ \A v \in bfs[p] : Last(v) \in Blocks /\ pages[Last(v)].type \in InTree
      /\ \A v \in bfs[p] : lv[Last(v)] + Len(v) = lv[Last(w)] + Len(w)
      /\ Ahead(bfs[p], c, pages)
  BY <1>1, <1>2 DEF PathOK, Deep
<1>4. /\ lv \in [Blocks -> Nat]
      /\ \A b \in Blocks : (pages[b].type = "leaf" => lv[b] = 0) /\ (pages[b].type = "inner" => lv[b] # 0)
      /\ \A b \in Blocks : pages[b].type \in InTree /\ pages[b].right # NoBlock =>
           InUse(pages[b].right, pages) /\ lv[pages[b].right] = lv[b]
  BY <1>1 DEF Levels
<1>5. \A v \in bfs[p] : v \in Seq(Frame) /\ Len(v) \in Nat BY DEF IInv, TypeOK
<1>6. ASSUME NEW v \in bfs[p] PROVE pages[Last(v)].type = "leaf"
  <2>1. lv[Last(w)] = 0 BY <1>2, <1>3, <1>4
  <2>2. Last(v) \in Blocks /\ lv[Last(v)] \in Nat BY <1>3, <1>4
  <2>3. lv[Last(v)] + Len(v) = Len(w) /\ Len(w) <= Len(v) /\ Len(v) \in Nat /\ Len(w) \in Nat
    BY <1>2, <1>3, <1>5, <2>1
  <2>4. lv[Last(v)] = 0 BY <2>2, <2>3
  <2> QED BY <2>2, <2>4, <1>3, <1>4
<1> DEFINE T == {b \in Blocks : pages[b].type = "leaf"}
<1>7. T \in SUBSET Blocks /\ \A b : b \in T <=> b \in Blocks /\ pages[b].type = "leaf" OBVIOUS
<1>8. \A b \in T : pages[b].right # NoBlock => pages[b].right \in Blocks
  BY DEF IInv, GoodPages, GoodPage, Page
<1> HIDE DEF T, c
<1>9. \A b \in T : LinksOn(pages[b]) = {} BY <1>7 DEF LinksOn
<1>10. ASSUME NEW b \in T, pages[b].right # NoBlock PROVE pages[b].right \in T
  <2>1. lv[b] = 0 /\ pages[b].type \in InTree /\ pages[b].right \in Blocks BY <1>4, <1>7, <1>8, <1>10
  <2>2. lv[pages[b].right] = 0 /\ pages[pages[b].right].type \in InTree
    BY <1>4, <1>7, <1>10, <2>1 DEF InUse
  <2> QED BY <2>1, <2>2, <1>4, <1>7
<1>11. Closed(T, pages)
  <2>1. ASSUME NEW b \in T, pages[b].follow PROVE pages[b].right \in T
    <3>1. pages[b].right \in Blocks BY <2>1, <1>7 DEF StructInv, OneWay
    <3>2. pages[b].right # NoBlock BY <3>1, BlocksAssumption
    <3> QED BY <3>2, <1>10
  <2> QED BY <2>1, <1>9 DEF Closed
<1>12. Covers(T, bfs[p], pages)
  <2>1. ASSUME NEW v \in bfs[p] PROVE CoveredBy(T, v, pages)
    BY <1>3, <1>6, <1>7, <1>10 DEF CoveredBy, Rightward
  <2>2. T \in SUBSET T OBVIOUS
  <2> QED BY <2>1, <2>2 DEF Covers
<1>13. LeadsTo(T, c, pages) BY <1>3, <1>7, <1>11, <1>12 DEF Ahead
<1>14. PICK x \in T : pages[x].follow /\ pages[x].right = c BY <1>13, <1>9 DEF LeadsTo
<1>15. c \in Blocks /\ InUse(c, pages) BY ChildHeld DEF Splitting, c
<1>16. c \in T BY <1>10, <1>14, <1>15, BlocksAssumption
<1>17. Top(p).blk = c
  <2>1. ChildIx(p) \in 2..Depth(p) /\ Depth(p) \in Nat BY CallFacts DEF Splitting
  <2>2. UsedFrames(stack[p], pages) BY DEF StructInv, ProcStruct
  <2>3. ChildIx(p) \in 1..Len(stack[p]) - 1 => pages[c].type = "inner"
    BY <2>2 DEF UsedFrames, ChildBlk, c
  <2>4. ~(ChildIx(p) \in 1..Len(stack[p]) - 1) BY <2>3, <1>16, <1>7
  <2>5. ChildIx(p) = Depth(p) BY <2>1, <2>4 DEF Depth
  <2> QED BY <2>5 DEF Top, ChildBlk, c
<1>18. Linked(pages, c)
  <2>1. LeafEntered(p) BY DEF ParentInv
  <2>2. c # Root BY <1>15 DEF InUse
  <2> QED BY <2>1, <2>2, <1>7, <1>16, <1>17 DEF LeafEntered, TopPage
<1>19. x \in Blocks BY <1>7
<1> QED BY <1>14, <1>18, <1>19 DEF StructInv, OneWay, Linked

\* Its queue never runs out: the empty set of blocks leads nowhere.
LEMMA QueueNotEmpty ==
  ASSUME ParentInv, NEW p \in Inserters, pc[p] = "findpath"
  PROVE  bfs[p] # {}
<1>1. Ahead(bfs[p], ChildBlk(p), pages) BY DEF ParentInv, PathOK
<1>2. Closed({}, pages) /\ ~LeadsTo({}, ChildBlk(p), pages) BY DEF Closed, LeadsTo
<1>3. ~Covers({}, bfs[p], pages) BY <1>1, <1>2 DEF Ahead
<1> QED BY <1>3 DEF Covers

\* gistFindPath never fails for want of an internal page.
LEMMA ParentFound ==
  ASSUME IInv, StructInv, ParentInv, NEW p \in Inserters, FindPathError(p)
  PROVE  /\ errs' = errs \cup {"incomplete"}
         /\ \E b \in Blocks : Free(b) /\ pages[b].follow
<1>1. pc[p] = "findpath" BY DEF FindPathError
<1>5. bfs[p] # {} BY <1>1, QueueNotEmpty
<1>2. PICK w \in NextPaths(p) :
        /\ Free(Last(w)) /\ (pages[Last(w)].type = "inner" => pages[Last(w)].follow)
        /\ errs' = errs \cup {IF pages[Last(w)].type = "inner" THEN "incomplete" ELSE "refind"}
  BY <1>5 DEF FindPathError, Last
<1>3. pages[Last(w)].type = "inner" BY <1>1, ParentAbove
<1>4. Last(w) \in Blocks
  <2>1. w \in bfs[p] /\ \E lv : PathOK(lv, p) BY DEF NextPaths, ParentInv
  <2> QED BY <2>1, <1>1 DEF PathOK, Deep
<1> QED BY <1>2, <1>3, <1>4
-----------------------------------------------------------------------------
(***************************************************************************)
(* Who splits a page attends to its halves until they have downlinks.      *)
(***************************************************************************)
\* Block x is a half of one of the calls fs, and the next half has no downlink yet.
AttendedBy(x, fs) ==
  \E k \in 1..Len(fs) : \E i \in 1..Len(fs[k].halves) - 1 : fs[k].halves[i].blk = x

\* A step of p leaves no split behind that p does not attend to, if p does not fail.
Minds(p) ==
  \A x \in Blocks : pages'[x].follow =>
    (pages[x].follow /\ ~AttendedBy(x, fin[p])) \/ AttendedBy(x, fin'[p])

\* A write clears F_FOLLOW_RIGHT of the left child; only the halves of a split get it.
LEMMA InPlaceFollows ==
  ASSUME NEW b, NEW N, NEW left, WriteOK(b, N, left), NEW new,
         \/ Fitted(new, b, N, left)
         \/ b = Root /\ \E P \in Partitions(b, N), blks \in Seq(Blocks) :
                          RootDivided(new, N, left, P, blks)
  PROVE  \A x \in Blocks : new[x].follow => pages[x].follow /\ x # left
<1> SUFFICES ASSUME NEW x \in Blocks, new[x].follow PROVE pages[x].follow /\ x # left OBVIOUS
<1>1. ~pages[b].follow BY DEF WriteOK
<1>2. ASSUME Kept(pages[x], new[x], x = left) PROVE pages[x].follow /\ x # left
  BY <1>2 DEF Kept
<1>3. CASE Fitted(new, b, N, left)
  <2>1. x # b BY <1>1, <1>3 DEF Fitted
  <2> QED BY <2>1, <1>2, <1>3 DEF Fitted
<1>4. ASSUME b = Root, NEW P, NEW blks, RootDivided(new, N, left, P, blks)
      PROVE  pages[x].follow /\ x # left
  <2>1. x # Root BY <1>4 DEF RootDivided
  <2>2. \A i \in 1..Len(blks) : blks[i] # x BY <1>4 DEF RootDivided
  <2> QED BY <2>1, <2>2, <1>2, <1>4 DEF RootDivided
<1> QED BY <1>3, <1>4

LEMMA SplitFollows ==
  ASSUME NEW b, NEW N, NEW left, NEW new, NEW P, NEW blks, Divided(new, b, N, left, P, blks),
         NEW x \in Blocks, new[x].follow
  PROVE  (pages[x].follow /\ x # left) \/ \E i \in 1..Len(blks) - 1 : blks[i] = x
<1>1. CASE \A i \in 1..Len(blks) : blks[i] # x
  <2>1. Kept(pages[x], new[x], x = left) BY <1>1 DEF Divided
  <2> QED BY <2>1 DEF Kept
<1>2. ASSUME NEW i \in 1..Len(blks), blks[i] = x PROVE \E j \in 1..Len(blks) - 1 : blks[j] = x
  <2>1. Len(blks) \in Nat /\ new[blks[i]].follow = (i < Len(blks)) BY DEF Divided
  <2>2. i < Len(blks) BY <2>1, <1>2
  <2>3. i \in 1..Len(blks) - 1 BY <2>1, <2>2
  <2> QED BY <2>3, <1>2
<1> QED BY <1>1, <1>2

\* Nothing is written and nothing forgotten.
LEMMA MindsSame ==
  ASSUME NEW p, UNCHANGED pages, \A x \in Blocks : AttendedBy(x, fin[p]) => AttendedBy(x, fin'[p])
  PROVE  Minds(p)
BY DEF Minds

\* Where there was no call, nothing can be forgotten.
LEMMA NoneAttended == \A x : ~AttendedBy(x, <<>>)
BY DEF AttendedBy

\* A write in place by a backend that has no split to finish.
LEMMA InPlaceMinds ==
  ASSUME NEW p, fin[p] = <<>>, NEW b, NEW N, WriteOK(b, N, NoBlock),
         \/ Fitted(pages', b, N, NoBlock)
         \/ b = Root /\ \E P \in Partitions(b, N), blks \in Seq(Blocks) :
                          RootDivided(pages', N, NoBlock, P, blks)
  PROVE  Minds(p)
<1>1. \A x \in Blocks : pages'[x].follow => pages[x].follow BY InPlaceFollows
<1>2. \A x : ~AttendedBy(x, fin[p]) BY NoneAttended
<1> QED BY <1>1, <1>2 DEF Minds

\* A split by such a backend: it attends to the halves from here on.
LEMMA SplitMinds ==
  ASSUME NEW p, fin[p] = <<>>, NEW b, NEW N, NEW P, NEW blks,
         Divided(pages', b, N, NoBlock, P, blks), NEW f, f.halves = HalvesOf(P, blks),
         fin'[p] = <<f>>
  PROVE  Minds(p)
<1>1. Len(f.halves) = Len(blks) /\ \A i \in 1..Len(blks) : f.halves[i].blk = blks[i]
      /\ Len(blks) \in Nat
  BY DividedChain
<1>2. ASSUME NEW x, NEW i \in 1..Len(blks) - 1, blks[i] = x PROVE AttendedBy(x, fin'[p])
  <2>1. Len(fin'[p]) = 1 /\ fin'[p][1] = f /\ 1 \in 1..1 OBVIOUS
  <2>2. i \in 1..Len(blks) BY <1>1
  <2>3. i \in 1..Len(f.halves) - 1 /\ f.halves[i].blk = x BY <1>1, <1>2, <2>2
  <2> QED BY <2>1, <2>3 DEF AttendedBy
<1>3. \A x : ~AttendedBy(x, fin[p]) BY NoneAttended
<1>4. ASSUME NEW x \in Blocks, pages'[x].follow
      PROVE  pages[x].follow \/ \E i \in 1..Len(blks) - 1 : blks[i] = x
  BY <1>4, SplitFollows
<1> QED BY <1>2, <1>3, <1>4 DEF Minds

LEMMA PlaceDownlinkMinds ==
  ASSUME IInv, StructInv, NEW p \in Inserters, pc[p] \in {"visit", "lockinner"},
         TopPage(p).type = "inner", ~TopPage(p).follow,
         NEW d \in TopPage(p).items, PlaceDownlink(p, d)
  PROVE  Minds(p)
<1> DEFINE b == Top(p).blk
           N == (TopPage(p).items \ {d}) \cup {[d EXCEPT !.pred = @ \cup {Key(p)}]}
<1>1. WriteOK(b, N, NoBlock) BY EnlargeOK
<1>2. GoodPages(pages, lsn) /\ fin[p] = <<>> BY NoCalls DEF IInv, Splitting
<1>3. CASE pages' = FitPages(b, N, NoBlock)
  <2> HIDE DEF N
  <2>1. Fitted(pages', b, N, NoBlock) BY <1>1, <1>2, <1>3, FittedFacts
  <2> QED BY <2>1, <1>1, <1>2, InPlaceMinds
<1>4. CASE /\ b = Root
           /\ \E P \in Partitions(b, N) : \E blks \in FreshBlocks(Len(P)) :
                pages' = RootSplitPages(P, blks, NoBlock)
  <2> HIDE DEF N
  <2>1. PICK P \in Partitions(b, N) : \E blks \in FreshBlocks(Len(P)) :
               pages' = RootSplitPages(P, blks, NoBlock)
    BY <1>4
  <2>2. PICK blks \in FreshBlocks(Len(P)) : pages' = RootSplitPages(P, blks, NoBlock) BY <2>1
  <2>3. RootDivided(pages', N, NoBlock, P, blks) BY <1>1, <1>2, <1>4, <2>2, RootDividedFacts
  <2>4. blks \in Seq(Blocks) BY <2>3 DEF RootDivided
  <2> QED BY <2>3, <2>4, <1>1, <1>2, <1>4, InPlaceMinds
<1>5. CASE /\ b # Root
           /\ \E P \in Partitions(b, N) : \E new \in FreshBlocks(Len(P) - 1) :
                LET blks == <<b>> \o new IN
                /\ pages' = SplitPages(b, P, blks, NoBlock)
                /\ StartFinish(p, P, blks, "inner")
  <2> HIDE DEF N
  <2>1. PICK P \in Partitions(b, N) : \E new \in FreshBlocks(Len(P) - 1) :
                LET blks == <<b>> \o new IN
                /\ pages' = SplitPages(b, P, blks, NoBlock)
                /\ StartFinish(p, P, blks, "inner")
    BY <1>5
  <2>2. PICK new \in FreshBlocks(Len(P) - 1) :
                LET blks == <<b>> \o new IN
                /\ pages' = SplitPages(b, P, blks, NoBlock)
                /\ StartFinish(p, P, blks, "inner")
    BY <2>1
  <2> DEFINE blks == <<b>> \o new
             f == [up |-> 0, halves |-> HalvesOf(P, blks), unlock |-> FALSE, locked |-> FALSE]
  <2>3. Divided(pages', b, N, NoBlock, P, blks) BY <1>1, <1>2, <1>5, <2>2, DividedFacts
  <2>4. StartFinish(p, P, blks, "inner") BY <2>2
  <2> HIDE DEF blks
  <2>5. fin'[p] = <<f>> /\ f.halves = HalvesOf(P, blks) BY <2>4 DEF IInv, TypeOK, StartFinish
  <2> HIDE DEF f
  <2> QED BY <2>3, <2>5, <1>2, SplitMinds
<1> QED BY <1>3, <1>4, <1>5 DEF PlaceDownlink

LEMMA PlaceEntryMinds ==
  ASSUME IInv, StructInv, NEW p \in Inserters, pc[p] \in {"visit", "lockleaf"},
         TopPage(p).type = "leaf", ~TopPage(p).follow, PlaceEntry(p)
  PROVE  Minds(p)
<1> DEFINE b == Top(p).blk
           N == TopPage(p).items \cup {LeafItem(EntriesOf[row[p]][pos[p]])}
<1>1. GoodPages(pages, lsn) /\ pc[p] # "idle" /\ fin[p] = <<>> BY NoCalls DEF IInv, Splitting
<1>2. WriteOK(b, N, NoBlock) BY <1>1, EntryOK
<1>3. CASE pages' = FitPages(b, N, NoBlock)
  <2> HIDE DEF N
  <2>1. Fitted(pages', b, N, NoBlock) BY <1>1, <1>2, <1>3, FittedFacts
  <2> QED BY <2>1, <1>1, <1>2, InPlaceMinds
<1>4. CASE /\ b = Root
           /\ \E P \in Partitions(b, N) : \E blks \in FreshBlocks(Len(P)) :
                pages' = RootSplitPages(P, blks, NoBlock)
  <2> HIDE DEF N
  <2>1. PICK P \in Partitions(b, N) : \E blks \in FreshBlocks(Len(P)) :
               pages' = RootSplitPages(P, blks, NoBlock)
    BY <1>4
  <2>2. PICK blks \in FreshBlocks(Len(P)) : pages' = RootSplitPages(P, blks, NoBlock) BY <2>1
  <2>3. RootDivided(pages', N, NoBlock, P, blks) BY <1>1, <1>2, <1>4, <2>2, RootDividedFacts
  <2>4. blks \in Seq(Blocks) BY <2>3 DEF RootDivided
  <2> QED BY <2>3, <2>4, <1>1, <1>2, <1>4, InPlaceMinds
<1>5. CASE /\ b # Root
           /\ \E P \in Partitions(b, N) : \E new \in FreshBlocks(Len(P) - 1) :
                LET blks == <<b>> \o new IN
                /\ pages' = SplitPages(b, P, blks, NoBlock)
                /\ StartFinish(p, P, blks, "leaf")
  <2> HIDE DEF N
  <2>1. PICK P \in Partitions(b, N) : \E new \in FreshBlocks(Len(P) - 1) :
                LET blks == <<b>> \o new IN
                /\ pages' = SplitPages(b, P, blks, NoBlock)
                /\ StartFinish(p, P, blks, "leaf")
    BY <1>5
  <2>2. PICK new \in FreshBlocks(Len(P) - 1) :
                LET blks == <<b>> \o new IN
                /\ pages' = SplitPages(b, P, blks, NoBlock)
                /\ StartFinish(p, P, blks, "leaf")
    BY <2>1
  <2> DEFINE blks == <<b>> \o new
             f == [up |-> 0, halves |-> HalvesOf(P, blks), unlock |-> FALSE, locked |-> FALSE]
  <2>3. Divided(pages', b, N, NoBlock, P, blks) BY <1>1, <1>2, <1>5, <2>2, DividedFacts
  <2>4. StartFinish(p, P, blks, "leaf") BY <2>2
  <2> HIDE DEF blks
  <2>5. fin'[p] = <<f>> /\ f.halves = HalvesOf(P, blks) BY <2>4 DEF IInv, TypeOK, StartFinish
  <2> HIDE DEF f
  <2> QED BY <2>3, <2>5, <1>1, SplitMinds
<1> QED BY <1>3, <1>4, <1>5 DEF PlaceEntry

\* The lock of the parent changes hands.
LEMMA SameHalvesMinds ==
  ASSUME IInv, NEW p \in Inserters, pc[p] = "finish", UNCHANGED pages,
         NEW v, fin' = [fin EXCEPT ![p][1].locked = v]
  PROVE  Minds(p)
<1> DEFINE f == fin[p][1]
           g == [f EXCEPT !.locked = v]
<1>1. f \in Call /\ Len(fin[p]) \in Nat /\ fin[p] \in Seq(Call) /\ Len(fin[p]) >= 1
  BY CallFacts DEF Splitting
<1>2. fin'[p] = [fin[p] EXCEPT ![1] = g] BY DEF IInv, TypeOK
<1>3. g.halves = f.halves BY <1>1 DEF Call
<1> HIDE DEF g
<1>4. Len(fin'[p]) = Len(fin[p]) /\ \A k \in 1..Len(fin[p]) : fin'[p][k].halves = fin[p][k].halves
  BY <1>1, <1>2, <1>3
<1> QED BY <1>4, MindsSame DEF AttendedBy

\* mgistfixsplit has one more half.
LEMMA FixChainMinds == ASSUME IInv, NEW p \in Inserters, FixChain(p) PROVE Minds(p)
<1> DEFINE f == fin[p][1]
           hs == f.halves
           n == Len(hs)
           h == HalfAt(pages[hs[n].blk].right)
           g == [f EXCEPT !.halves = Append(@, h)]
<1>1. pc[p] = "fixchain" /\ UNCHANGED pages /\ fin' = [fin EXCEPT ![p][1].halves = Append(@, h)]
  BY DEF FixChain
<1>2. f \in Call /\ hs \in Seq(Half) /\ n \in Nat /\ fin[p] \in Seq(Call) /\ Len(fin[p]) = 1
  BY <1>1, CallFacts DEF Splitting, IInv, ProcOK
<1> HIDE DEF h
<1>3. fin'[p] = [fin[p] EXCEPT ![1] = g] BY <1>1 DEF IInv, TypeOK
<1>4. g.halves = Append(hs, h) BY <1>2 DEF Call
<1> HIDE DEF g
<1>5. Len(fin'[p]) = 1 /\ fin'[p][1] = g BY <1>2, <1>3
<1> HIDE DEF hs, n
<1>6. Len(g.halves) = n + 1 /\ \A i \in 1..n : g.halves[i] = hs[i]
  <2>1. n = Len(hs) BY DEF n
  <2> QED BY <1>2, <1>4, <2>1
<1>7. ASSUME NEW x, AttendedBy(x, fin[p]) PROVE AttendedBy(x, fin'[p])
  <2>1. PICK i \in 1..n - 1 : hs[i].blk = x BY <1>2, <1>7 DEF AttendedBy, hs, n
  <2>2. i \in 1..n /\ i \in 1..Len(g.halves) - 1 BY <1>2, <1>6
  <2>3. g.halves[i].blk = x BY <2>1, <2>2, <1>6
  <2> QED BY <2>2, <2>3, <1>5 DEF AttendedBy
<1> QED BY <1>1, <1>7, MindsSame

\* The calls that are left attend to all halves but the one that is finished.
LEMMA RemainingMinds ==
  ASSUME IInv, NEW p \in Inserters, pc[p] = "finish", NEW x, AttendedBy(x, fin[p]),
         x # LeftOf(fin[p][1])
  PROVE  AttendedBy(x, Remaining(p))
<1> DEFINE f == fin[p][1]
           n == Len(f.halves)
           m == Len(fin[p])
           fs == Remaining(p)
<1>1. /\ m \in Nat /\ m >= 1 /\ n \in Nat /\ n >= 2
      /\ n > 2 => /\ Len(fs) = m /\ Len(fs[1].halves) = n - 1
                  /\ \A i \in 1..n - 1 : fs[1].halves[i] = f.halves[i]
                  /\ \A k \in 2..m : fs[k] = fin[p][k]
      /\ n = 2 => Len(fs) = m - 1 /\ \A k \in 1..m - 1 : fs[k] = fin[p][k + 1]
  BY RemainingFacts
<1>2. PICK k \in 1..m : \E i \in 1..Len(fin[p][k].halves) - 1 : fin[p][k].halves[i].blk = x
  BY DEF AttendedBy
<1>3. PICK i \in 1..Len(fin[p][k].halves) - 1 : fin[p][k].halves[i].blk = x BY <1>2
<1>4. f.halves[n - 1].blk # x BY DEF LeftOf
<1> HIDE DEF n, m, fs
<1>5. n > 2 \/ n = 2 BY <1>1
<1>6. CASE k = 1
  <2>1. i \in 1..n - 1 /\ f.halves[i].blk = x BY <1>3, <1>6 DEF n
  <2> HIDE DEF f
  <2>2. i # n - 1 BY <2>1, <1>4
  <2>3. n > 2 /\ i \in 1..(n - 1) - 1 BY <2>1, <2>2, <1>1
  <2>4. Len(fs[1].halves) = n - 1 /\ fs[1].halves[i].blk = x /\ 1 \in 1..Len(fs)
    BY <2>1, <2>3, <1>1
  <2> QED BY <2>3, <2>4 DEF AttendedBy, fs
<1>7. CASE k # 1 /\ n > 2
  <2>1. k \in 2..m BY <1>7, <1>1
  <2>2. k \in 1..Len(fs) /\ fs[k] = fin[p][k] BY <2>1, <1>1, <1>7
  <2> QED BY <2>2, <1>3 DEF AttendedBy, fs
<1>8. CASE k # 1 /\ n = 2
  <2>1. k - 1 \in 1..m - 1 /\ (k - 1) + 1 = k BY <1>8, <1>1
  <2>2. k - 1 \in 1..Len(fs) /\ fs[k - 1] = fin[p][k] BY <2>1, <1>1, <1>8
  <2> QED BY <2>2, <1>3 DEF AttendedBy, fs
<1> QED BY <1>5, <1>6, <1>7, <1>8

\* A call on top of others.
LEMMA PushedCall ==
  ASSUME NEW c, NEW fs \in Seq(Call)
  PROVE  /\ Len(<<c>> \o fs) = Len(fs) + 1 /\ Len(fs) \in Nat /\ (<<c>> \o fs)[1] = c
         /\ \A k \in 1..Len(fs) : (<<c>> \o fs)[k + 1] = fs[k]
<1> DEFINE S == Call \cup {c}
           u == <<c>>
<1>1. u \in Seq(S) /\ Len(u) = 1 /\ u[1] = c /\ c \in S OBVIOUS
<1>2. Len(fs) \in Nat /\ fs \in [1..Len(fs) -> Call] OBVIOUS
<1>3. fs \in Seq(S)
  <2>1. fs \in [1..Len(fs) -> S] BY <1>2
  <2> HIDE DEF S
  <2> QED BY <1>2, <2>1
<1> HIDE DEF S, u
<1>4. /\ Len(u \o fs) = 1 + Len(fs)
      /\ \A i \in 1..1 + Len(fs) : (u \o fs)[i] = IF i <= 1 THEN u[i] ELSE fs[i - 1]
  <2>1. /\ Len(u \o fs) = Len(u) + Len(fs)
        /\ \A i \in 1..Len(u) + Len(fs) : (u \o fs)[i] = IF i <= Len(u) THEN u[i] ELSE fs[i - Len(u)]
    BY <1>1, <1>3, ConcatProperties, Zenon
  <2> QED BY <1>1, <2>1
<1>5. (u \o fs)[1] = c BY <1>1, <1>2, <1>4
<1>6. \A k \in 1..Len(fs) : (u \o fs)[k + 1] = fs[k]
  <2> TAKE k \in 1..Len(fs)
  <2>1. k + 1 \in 1..1 + Len(fs) /\ ~(k + 1 <= 1) /\ (k + 1) - 1 = k BY <1>2
  <2> QED BY <2>1, <1>4
<1> QED BY <1>2, <1>4, <1>5, <1>6 DEF u

LEMMA InsertDownlinkMinds ==
  ASSUME IInv, StructInv, NEW p \in Inserters, InsertDownlink(p) PROVE Minds(p)
<1> DEFINE f == fin[p][1]
           n == Len(f.halves)
           par == ParentBlk(p)
           left == f.halves[n - 1].blk
           N == ParentItems(p)
           fs == Remaining(p)
<1>1. /\ pc[p] = "finish" /\ f.locked
      /\ DownlinksOn(par, ChildBlk(p)) # {} /\ ~pages[par].follow
  BY DEF InsertDownlink, Finishing
<1>2. left = LeftOf(f) BY DEF LeftOf
<1>3. WriteOK(par, N, left) BY <1>1, DownlinkOK
<1>4. GoodPages(pages, lsn) /\ fin \in [Inserters -> Seq(Call)] BY DEF IInv, TypeOK
<1>5. \/ pages' = FitPages(par, N, left) /\ fin' = [fin EXCEPT ![p] = fs]
      \/ /\ par = Root
         /\ \E P \in Partitions(par, N) : \E blks \in FreshBlocks(Len(P)) :
              pages' = RootSplitPages(P, blks, left)
         /\ fin' = [fin EXCEPT ![p] = fs]
      \/ /\ par # Root
         /\ \E P \in Partitions(par, N) : \E new \in FreshBlocks(Len(P) - 1) :
              /\ pages' = SplitPages(par, P, <<par>> \o new, left)
              /\ fin' = [fin EXCEPT ![p] =
                   <<[up |-> f.up + 1, halves |-> HalvesOf(P, <<par>> \o new),
                      unlock |-> n = 2, locked |-> FALSE]>> \o fs]
  BY DEF InsertDownlink
<1>6. ASSUME NEW x, AttendedBy(x, fin[p]), x # left PROVE AttendedBy(x, fs)
  BY <1>1, <1>2, <1>6, RemainingMinds
<1>13. fs \in Seq(Call) BY <1>1, RemainingOK DEF GoodCalls
<1> HIDE DEF f, par, left, N, fs
<1>7. ASSUME \/ Fitted(pages', par, N, left)
             \/ par = Root /\ \E P \in Partitions(par, N), blks \in Seq(Blocks) :
                                RootDivided(pages', N, left, P, blks),
             fin' = [fin EXCEPT ![p] = fs]
      PROVE  Minds(p)
  <2>1. fin'[p] = fs BY <1>4, <1>7
  <2>2. \A x \in Blocks : pages'[x].follow => pages[x].follow /\ x # left
    BY <1>3, <1>7, InPlaceFollows
  <2> QED BY <2>1, <2>2, <1>6 DEF Minds
<1>8. CASE pages' = FitPages(par, N, left) /\ fin' = [fin EXCEPT ![p] = fs]
  <2>1. Fitted(pages', par, N, left) BY <1>3, <1>4, <1>8, FittedFacts
  <2> QED BY <1>7, <1>8, <2>1
<1>9. CASE /\ par = Root
           /\ \E P \in Partitions(par, N) : \E blks \in FreshBlocks(Len(P)) :
                pages' = RootSplitPages(P, blks, left)
           /\ fin' = [fin EXCEPT ![p] = fs]
  <2>1. PICK P \in Partitions(par, N) : \E blks \in FreshBlocks(Len(P)) :
          pages' = RootSplitPages(P, blks, left)
    BY <1>9
  <2>2. PICK blks \in FreshBlocks(Len(P)) : pages' = RootSplitPages(P, blks, left) BY <2>1
  <2>3. RootDivided(pages', N, left, P, blks) BY <1>3, <1>4, <1>9, <2>2, RootDividedFacts
  <2>4. blks \in Seq(Blocks) BY <2>3 DEF RootDivided
  <2> QED BY <1>7, <1>9, <2>3, <2>4
<1>10. CASE /\ par # Root
            /\ \E P \in Partitions(par, N) : \E new \in FreshBlocks(Len(P) - 1) :
                 /\ pages' = SplitPages(par, P, <<par>> \o new, left)
                 /\ fin' = [fin EXCEPT ![p] =
                      <<[up |-> f.up + 1, halves |-> HalvesOf(P, <<par>> \o new),
                         unlock |-> n = 2, locked |-> FALSE]>> \o fs]
  <2>1. PICK P \in Partitions(par, N) : \E new \in FreshBlocks(Len(P) - 1) :
          /\ pages' = SplitPages(par, P, <<par>> \o new, left)
          /\ fin' = [fin EXCEPT ![p] =
               <<[up |-> f.up + 1, halves |-> HalvesOf(P, <<par>> \o new),
                  unlock |-> n = 2, locked |-> FALSE]>> \o fs]
    BY <1>10
  <2>2. PICK new \in FreshBlocks(Len(P) - 1) :
          /\ pages' = SplitPages(par, P, <<par>> \o new, left)
          /\ fin' = [fin EXCEPT ![p] =
               <<[up |-> f.up + 1, halves |-> HalvesOf(P, <<par>> \o new),
                  unlock |-> n = 2, locked |-> FALSE]>> \o fs]
    BY <2>1
  <2> DEFINE blks == <<par>> \o new
             c == [up |-> f.up + 1, halves |-> HalvesOf(P, blks), unlock |-> n = 2,
                   locked |-> FALSE]
  <2>3. Divided(pages', par, N, left, P, blks) BY <1>3, <1>4, <1>10, <2>2, DividedFacts
  <2>4. fin'[p] = <<c>> \o fs BY <2>2, <1>4
  <2>5. c.halves = HalvesOf(P, blks) OBVIOUS
  <2> HIDE DEF blks, c, n
  <2>6. /\ Len(c.halves) = Len(blks) /\ Len(blks) \in Nat
        /\ \A i \in 1..Len(blks) : c.halves[i].blk = blks[i]
    BY <2>3, <2>5, DividedChain
  <2>7. /\ Len(fin'[p]) = Len(fs) + 1 /\ Len(fs) \in Nat /\ fin'[p][1] = c
        /\ \A k \in 1..Len(fs) : fin'[p][k + 1] = fs[k]
    BY <2>4, <1>13, PushedCall
  <2>8. ASSUME NEW x, AttendedBy(x, fs) PROVE AttendedBy(x, fin'[p])
    <3>1. PICK k \in 1..Len(fs) : \E i \in 1..Len(fs[k].halves) - 1 : fs[k].halves[i].blk = x
      BY <2>8 DEF AttendedBy
    <3>2. k + 1 \in 1..Len(fin'[p]) /\ fin'[p][k + 1] = fs[k] BY <2>7
    <3> QED BY <3>1, <3>2 DEF AttendedBy
  <2>9. ASSUME NEW x, NEW i \in 1..Len(blks) - 1, blks[i] = x PROVE AttendedBy(x, fin'[p])
    <3>1. i \in 1..Len(blks) /\ i \in 1..Len(c.halves) - 1 /\ 1 \in 1..Len(fin'[p])
      BY <2>6, <2>7
    <3>2. c.halves[i].blk = x BY <3>1, <2>6, <2>9
    <3> QED BY <3>1, <3>2, <2>7 DEF AttendedBy
  <2>10. ASSUME NEW x \in Blocks, pages'[x].follow
         PROVE  (pages[x].follow /\ x # left) \/ \E i \in 1..Len(blks) - 1 : blks[i] = x
    BY <2>3, <2>10, SplitFollows
  <2> QED BY <2>8, <2>9, <2>10, <1>6 DEF Minds
<1> QED BY <1>5, <1>8, <1>9, <1>10

\* mgistfixsplit starts where no other call is active.
LEMMA StartFixMinds ==
  ASSUME IInv, NEW p \in Inserters, pc[p] \notin Splitting, UNCHANGED pages
  PROVE  Minds(p)
<1>1. fin[p] = <<>> BY NoCalls
<1> QED BY <1>1, NoneAttended, MindsSame

LEMMA StepMinds ==
  ASSUME IInv, StructInv, NEW p \in Inserters, Step(p), ~FindPathError(p), ~InsertDownlinkError(p)
  PROVE  Minds(p)
<1>1. ASSUME UNCHANGED <<pages, fin>> PROVE Minds(p) BY <1>1, MindsSame
<1>2. CASE PopRetry(p) \/ VisitStale(p) \/ VisitInner(p) \/ FinishReturn(p)
  BY <1>1, <1>2 DEF PopRetry, VisitStale, VisitInner, FinishReturn
<1>3. CASE VisitAdjust(p)
  <2>1. pc[p] = "visit" /\ TopPage(p).type = "inner" /\ ~TopPage(p).follow
    BY <1>3 DEF VisitAdjust, Visiting
  <2>2. UNCHANGED <<pages, fin>> \/ \E d \in TopPage(p).items : PlaceDownlink(p, d)
    BY <1>3 DEF VisitAdjust, treeVars
  <2> QED BY <2>1, <2>2, <1>1, PlaceDownlinkMinds
<1>4. CASE LockInner(p)
  <2>1. pc[p] = "lockinner" BY <1>4 DEF LockInner
  <2>2. CASE UNCHANGED <<pages, fin>> BY <2>2, <1>1
  <2>3. ASSUME TopPage(p).lsn = Top(p).lsn, NEW d \in TopPage(p).items, PlaceDownlink(p, d)
        PROVE  Minds(p)
    <3>1. TopPage(p).type = "inner" BY <2>1 DEF IInv, ProcOK, KindOK, TopPage, Top, Depth
    <3>2. ~TopPage(p).follow
      BY <2>1, <2>3 DEF StructInv, ProcStruct, Unmoved, TopPage, Top, Depth
    <3> QED BY <2>1, <2>3, <3>1, <3>2, PlaceDownlinkMinds
  <2> QED BY <1>4, <2>2, <2>3 DEF LockInner
<1>5. CASE VisitLeaf(p)
  <2>1. pc[p] = "visit" /\ TopPage(p).type = "leaf" /\ ~TopPage(p).follow
    BY <1>5 DEF VisitLeaf, Visiting
  <2>2. UNCHANGED <<pages, fin>> \/ PlaceEntry(p) BY <1>5 DEF VisitLeaf, treeVars
  <2> QED BY <2>1, <2>2, <1>1, PlaceEntryMinds
<1>6. CASE LockLeaf(p)
  <2>1. pc[p] = "lockleaf" BY <1>6 DEF LockLeaf
  <2>2. CASE UNCHANGED <<pages, fin>> BY <2>2, <1>1
  <2>3. ASSUME IF Top(p).blk = Root THEN TopPage(p).type = "leaf" ELSE ~LeafMoved(p),
               PlaceEntry(p)
        PROVE  Minds(p)
    <3>1. TopPage(p).type = "leaf"
      <4>1. TopPage(p).type \in {"leaf", "deleted"} \/ Top(p).blk = Root
        BY <2>1 DEF IInv, ProcOK, KindOK, TopPage, Top, Depth
      <4> QED BY <2>3, <4>1 DEF LeafMoved, Stale
    <3>2. ~TopPage(p).follow BY <2>3 DEF LeafMoved, IInv, GoodPages, TopPage
    <3> QED BY <2>1, <2>3, <3>1, <3>2, PlaceEntryMinds
  <2> QED BY <1>6, <2>2, <2>3 DEF LockLeaf, treeVars
<1>7. CASE VisitFollow(p) \/ LockFix(p)
  <2>1. pc[p] \notin Splitting /\ UNCHANGED pages
    BY <1>7 DEF VisitFollow, Visiting, LockFix, Splitting, treeVars
  <2> QED BY <2>1, StartFixMinds
<1>8. CASE FinishLock(p) \/ FinishMoveRight(p)
  <2>1. pc[p] = "finish" /\ UNCHANGED pages
        /\ \E v \in BOOLEAN : fin' = [fin EXCEPT ![p][1].locked = v]
    BY <1>8 DEF FinishLock, FinishMoveRight, Finishing
  <2> QED BY <2>1, SameHalvesMinds
<1>9. CASE FindPathStep(p)
  <2>1. UNCHANGED <<pages, fin>> BY <1>9 DEF FindPathStep, treeVars
  <2> QED BY <2>1, <1>1
<1> QED BY <1>2, <1>3, <1>4, <1>5, <1>6, <1>7, <1>8, <1>9, FixChainMinds, InsertDownlinkMinds
        DEF Step

\* The other steps raise no error and are no failure.
LEMMA StepQuiet ==
  ASSUME NEW p, Step(p), ~FindPathError(p), ~InsertDownlinkError(p)
  PROVE  UNCHANGED <<aborts, errs>>
<1>1. ASSUME NEW d, PlaceDownlink(p, d) PROVE UNCHANGED <<aborts, errs>> BY <1>1 DEF PlaceDownlink
<1>2. ASSUME PlaceEntry(p) PROVE UNCHANGED <<aborts, errs>> BY <1>2 DEF PlaceEntry
<1>3. CASE PopRetry(p) \/ VisitStale(p) \/ VisitInner(p) \/ FinishReturn(p)
  BY <1>3 DEF PopRetry, VisitStale, VisitInner, FinishReturn
<1>4. CASE VisitAdjust(p) \/ LockInner(p) BY <1>1, <1>4 DEF VisitAdjust, LockInner
<1>5. CASE VisitLeaf(p) \/ LockLeaf(p) BY <1>2, <1>5 DEF VisitLeaf, LockLeaf
<1>6. CASE VisitFollow(p) \/ LockFix(p) \/ FixChain(p) \/ FinishLock(p)
  BY <1>6 DEF VisitFollow, LockFix, FixChain, FinishLock
<1>7. CASE FinishMoveRight(p) \/ FindPathStep(p) \/ InsertDownlink(p)
  BY <1>7 DEF FinishMoveRight, FindPathStep, InsertDownlink
<1> QED BY <1>3, <1>4, <1>5, <1>6, <1>7 DEF Step
-----------------------------------------------------------------------------
(***************************************************************************)
(* Without a failure nobody meets an unfinished split.                     *)
(***************************************************************************)
\* As long as no backend has failed, every unfinished split is some backend's.
Attended ==
  aborts = 0 =>
    /\ errs = {}
    /\ \A x \in Blocks : pages[x].follow => \E q \in Inserters : AttendedBy(x, fin[q])

\* It has the page locked.
LEMMA AttendedLocked ==
  ASSUME IInv, StructInv, NEW q \in Inserters, NEW x, AttendedBy(x, fin[q]) PROVE xlock[x] = q
<1>1. PICK k \in 1..Len(fin[q]) : \E i \in 1..Len(fin[q][k].halves) - 1 : fin[q][k].halves[i].blk = x
  BY DEF AttendedBy
<1>2. PICK i \in 1..Len(fin[q][k].halves) - 1 : fin[q][k].halves[i].blk = x BY <1>1
<1>3. CallLocks(fin[q][k], q, stack[q], xlock) BY DEF StructInv, ProcStruct, SplitsOK
<1>4. Len(fin[q][k].halves) \in Nat BY CallBlocks
<1>5. i \in 1..Len(fin[q][k].halves) BY <1>4
<1> QED BY <1>2, <1>3, <1>5 DEF CallLocks

\* gistFindPath reads no page that is locked, and mgistplacetopage writes to no page
\* that the same backend has split itself.
LEMMA NothingIncomplete ==
  ASSUME IInv, StructInv, ParentInv, Attended, aborts = 0, NEW p \in Inserters
  PROVE  ~FindPathError(p) /\ ~InsertDownlinkError(p)
<1>1. ASSUME NEW x \in Blocks, pages[x].follow
      PROVE  \E q \in Inserters : AttendedBy(x, fin[q]) /\ xlock[x] = q
  BY <1>1, AttendedLocked DEF Attended
<1>2. ASSUME FindPathError(p) PROVE FALSE
  <2>1. PICK b \in Blocks : Free(b) /\ pages[b].follow BY <1>2, ParentFound
  <2> QED BY <2>1, <1>1, ProcAssumption DEF Free
<1>3. ASSUME InsertDownlinkError(p) PROVE FALSE
  <2> DEFINE f == fin[p][1]
             par == ParentBlk(p)
  <2>1. pc[p] = "finish" /\ f.locked /\ pages[par].follow
    BY <1>3 DEF InsertDownlinkError, Finishing
  <2>2. LockedHalves(f, p, par) BY <2>1, LockedCall
  <2>3. Len(fin[p]) \in Nat /\ Len(fin[p]) >= 1 BY <2>1, CallFacts DEF Splitting
  <2>4. par = ParentOf(f, stack[p]) /\ par \in Blocks /\ Len(f.halves) \in Nat
        /\ \A i \in 1..Len(f.halves) : f.halves[i].blk # par
    BY <2>2 DEF LockedHalves
  <2>5. xlock[par] = p
    <3>1. 1 \in 1..Len(fin[p]) BY <2>3
    <3>2. CallLocks(f, p, stack[p], xlock) BY <3>1 DEF StructInv, ProcStruct, SplitsOK
    <3> QED BY <3>2, <2>1, <2>4 DEF CallLocks
  <2>6. AttendedBy(par, fin[p]) BY <2>1, <2>4, <2>5, <1>1
  <2>7. PICK k \in 1..Len(fin[p]) :
          \E i \in 1..Len(fin[p][k].halves) - 1 : fin[p][k].halves[i].blk = par
    BY <2>6 DEF AttendedBy
  <2>8. PICK i \in 1..Len(fin[p][k].halves) - 1 : fin[p][k].halves[i].blk = par BY <2>7
  <2>9. Len(fin[p][k].halves) \in Nat BY CallBlocks
  <2>10. i \in 1..Len(fin[p][k].halves) BY <2>9
  <2>11. k # 1 BY <2>4, <2>8, <2>10
  <2>12. 1 \in 1..Len(fin[p]) /\ 1 < k BY <2>3, <2>11
  <2>13. Apart(f, fin[p][k], stack[p]) BY <2>12 DEF StructInv, ProcStruct, SplitsOK
  <2>14. par \notin BlocksOf(fin[p][k]) BY <2>13, <2>1, <2>4 DEF Apart
  <2> QED BY <2>8, <2>10, <2>14 DEF BlocksOf
<1> QED BY <1>2, <1>3

LEMMA NextAttended ==
  IInv /\ StructInv /\ ParentInv /\ Attended /\ [Next]_vars => Attended'
<1> SUFFICES ASSUME IInv, StructInv, ParentInv, Attended, [Next]_vars PROVE Attended' OBVIOUS
<1>1. aborts \in Nat BY BoundAssumption DEF IInv, TypeOK
<1>2. ASSUME UNCHANGED <<pages, fin, aborts, errs>> PROVE Attended' BY <1>2 DEF Attended
<1>3. ASSUME NEW p \in Inserters, NEW r \in Rows, BeginRow(p, r) PROVE Attended'
  BY <1>2, <1>3 DEF BeginRow, treeVars
<1>4. ASSUME NEW p \in Inserters, Step(p), aborts = 0 PROVE Attended'
  <2>1. ~FindPathError(p) /\ ~InsertDownlinkError(p) BY <1>4, NothingIncomplete
  <2>2. Minds(p) /\ UNCHANGED <<aborts, errs>> BY <1>4, <2>1, StepMinds, StepQuiet
  <2>3. \A q \in Inserters : q # p => fin'[q] = fin[q]
    <3>1. OthersSame(p) BY <1>4, TreeStepOK
    <3> QED BY <3>1 DEF OthersSame
  <2>4. ASSUME NEW x \in Blocks, pages'[x].follow
        PROVE  \E q \in Inserters : AttendedBy(x, fin'[q])
    <3>1. CASE AttendedBy(x, fin'[p]) BY <3>1
    <3>2. CASE pages[x].follow /\ ~AttendedBy(x, fin[p])
      <4>1. PICK q \in Inserters : AttendedBy(x, fin[q]) BY <3>2, <1>4 DEF Attended
      <4>2. q # p BY <4>1, <3>2
      <4>3. fin'[q] = fin[q] BY <4>2, <2>3
      <4>4. AttendedBy(x, fin'[q]) BY <4>1, <4>3
      <4> QED BY <4>4
    <3> QED BY <2>2, <2>4, <3>1, <3>2 DEF Minds
  <2>5. errs' = {} BY <2>2, <1>4 DEF Attended
  <2> QED BY <2>4, <2>5 DEF Attended
<1>5. ASSUME aborts # 0, aborts' = aborts \/ aborts' = aborts + 1 PROVE Attended'
  BY <1>1, <1>5 DEF Attended
<1>6. ASSUME NEW p \in Inserters, Step(p), aborts # 0 PROVE Attended'
  <2>1. aborts' = aborts
    BY <1>6, StepQuiet DEF FindPathError, InsertDownlinkError
  <2> QED BY <2>1, <1>5, <1>6
<1>7. ASSUME aborts' = aborts + 1 PROVE Attended' BY <1>1, <1>7 DEF Attended
<1>8. ASSUME NEW p \in Inserters, Fail(p) PROVE Attended' BY <1>7, <1>8 DEF Fail
<1>9. CASE Crash BY <1>7, <1>9 DEF Crash
<1>10. ASSUME NEW s \in Scanners, NEW k \in Keys, ScanStart(s, k) PROVE Attended'
  BY <1>2, <1>10 DEF ScanStart, treeVars, procVars
<1>11. ASSUME NEW s \in Scanners, ScanStep(s) PROVE Attended'
  BY <1>2, <1>11 DEF ScanStep, ScanPage, ScanEnd, treeVars, procVars
<1>12. CASE UNCHANGED vars BY <1>2, <1>12 DEF vars, treeVars, procVars
<1> QED BY <1>3, <1>4, <1>6, <1>8, <1>9, <1>10, <1>11, <1>12 DEF Next

\* No step reports that a parent could not be found again.
LEMMA NextRefound ==
  IInv /\ StructInv /\ ParentInv /\ "refind" \notin errs /\ [Next]_vars => "refind" \notin errs'
<1> SUFFICES ASSUME IInv, StructInv, ParentInv, "refind" \notin errs, [Next]_vars
             PROVE  "refind" \notin errs'
  OBVIOUS
<1>1. ASSUME errs' \subseteq errs \cup {"incomplete"} PROVE "refind" \notin errs' BY <1>1
<1>2. ASSUME NEW p \in Inserters, NEW r \in Rows, BeginRow(p, r) PROVE "refind" \notin errs'
  BY <1>2 DEF BeginRow
<1>3. ASSUME NEW p \in Inserters, Step(p) PROVE "refind" \notin errs'
  <2>1. CASE FindPathError(p) BY <1>1, <2>1, ParentFound
  <2>2. CASE InsertDownlinkError(p) BY <1>1, <2>2 DEF InsertDownlinkError
  <2> QED BY <1>3, <2>1, <2>2, StepQuiet
<1>4. ASSUME NEW p \in Inserters, Fail(p) PROVE "refind" \notin errs' BY <1>4 DEF Fail
<1>5. CASE Crash BY <1>5 DEF Crash
<1>6. ASSUME NEW s \in Scanners, NEW k \in Keys, ScanStart(s, k) PROVE "refind" \notin errs'
  BY <1>6 DEF ScanStart
<1>7. ASSUME NEW s \in Scanners, ScanStep(s) PROVE "refind" \notin errs'
  BY <1>7 DEF ScanStep, ScanPage, ScanEnd
<1>8. CASE UNCHANGED vars BY <1>8 DEF vars
<1> QED BY <1>2, <1>3, <1>4, <1>5, <1>6, <1>7, <1>8 DEF Next

\* The parent of a page has been found whenever it was searched.
Refound == "refind" \notin errs

\* gistFindPath and gistFindCorrectParent (mgist.c): in every state, whatever
\* splits, failures and crashes came before, the search for the parent of a page has
\* never ended with "failed to re-find parent of a page".
THEOREM ParentRefound == Spec => []Refound
<1>1. Init => Refound BY DEF Init, Refound
<1>2. IInv /\ StructInv /\ ParentInv /\ Refound /\ [Next]_vars => Refound'
  BY NextRefound DEF Refound
<1> QED BY <1>1, <1>2, Inductive, StructInductive, ParentInductive, PTL DEF Spec

\* No index that a behaviour starts from has an unfinished split in it: every
\* backend that wrote it came to the end of its insertion.
CleanStart == \A t \in InitTrees : t.follow = {}

LEMMA InitAttended == ASSUME CleanStart, Init PROVE Attended
<1>1. PICK t \in InitTrees : pages = InitPages(t) BY DEF Init
<1>2. t.follow = {} BY DEF CleanStart
<1>3. ASSUME NEW x \in Blocks PROVE ~pages[x].follow
  <2>1. CASE x \in DOMAIN t.items
    <3>1. pages[x].follow = (x \in t.follow) BY <1>1, <2>1 DEF InitPages
    <3>2. x \notin t.follow BY <1>2
    <3> QED BY <3>1, <3>2
  <2>2. CASE x \notin DOMAIN t.items
    <3>1. pages[x] = EmptyPage BY <1>1, <2>2 DEF InitPages
    <3> QED BY <3>1 DEF EmptyPage
  <2> QED BY <2>1, <2>2
<1>4. errs = {} BY DEF Init
<1> QED BY <1>3, <1>4 DEF Attended

\* mgistdoinsert, mgistfinishsplit and gistFindPath (mgist.c): the parent of a page
\* is always found again; and if no split was unfinished at the start, no backend
\* meets an incomplete split ("concurrent GiST page split was incomplete") before
\* some backend has failed: who splits a page keeps it locked until its right
\* sibling has a downlink.
THEOREM NoErrors == ASSUME CleanStart PROVE Spec => []NoTreeErrors
<1>1. Init => Attended BY InitAttended
<1>2. IInv /\ StructInv /\ ParentInv /\ Attended /\ [Next]_vars => Attended' BY NextAttended
<1>3. Attended /\ Refound => NoTreeErrors BY DEF Attended, Refound, NoTreeErrors
<1> QED BY <1>1, <1>2, <1>3, Inductive, StructInductive, ParentInductive, ParentRefound, PTL DEF Spec
=============================================================================
