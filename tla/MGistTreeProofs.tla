-------------------------- MODULE MGistTreeProofs --------------------------
(***************************************************************************)
(* Proofs about MGistTree: type correctness, the order of LSNs and NSNs,   *)
(* and that LSNs only grow.                                                *)
(***************************************************************************)
EXTENDS MGistTree, SequenceTheorems, TLAPS

(***************************************************************************)
(* The inductive invariant.  Types alone are not preserved: a backend pops *)
(* its stack, indexes it from the top and follows the tuples of a page.    *)
(***************************************************************************)
\* A page's tuples point where its kind says; no right link leads to the root;
\* a free page has not been part of a split since it is free, and a page that was
\* split is not deleted until it is repaired.
GoodPage(pg) ==
  /\ pg \in Page
  /\ pg.type = "inner" => \A d \in pg.items : d.ptr \in Blocks
  /\ pg.type = "leaf" => \A d \in pg.items : d.ptr \in Entries
  /\ pg.type = "new" => pg.nsn = 0 /\ ~pg.follow /\ pg.items = {}
  /\ pg.type = "deleted" => ~pg.follow /\ pg.items = {}
  /\ pg.right # Root
  /\ pg.nsn <= pg.lsn

\* The right links of internal pages and of unfinished splits lead to pages of the
\* same kind; that of another leaf may lead to a page that a vacuum has deleted and
\* that is used for something else by now.  The root is in use, has no right sibling
\* and is never half split.
InTree == {"leaf", "inner"}
GoodPages(pgs, l) ==
  /\ pgs \in [Blocks -> Page]
  /\ l \in Nat
  /\ \A b \in Blocks : GoodPage(pgs[b]) /\ pgs[b].lsn <= l
  /\ \A b \in Blocks : (pgs[b].type = "inner" \/ pgs[b].follow) /\ pgs[b].right # NoBlock =>
                        pgs[pgs[b].right].type = pgs[b].type
  /\ pgs[Root].type \in InTree /\ pgs[Root].right = NoBlock
  /\ ~pgs[Root].follow /\ pgs[Root].nsn = 0

\* A busy backend's stack, and a path of gistFindPath, begins at the root, which
\* it never has to leave for a parent.
Anchored(st) ==
  /\ st \in Seq(Frame)
  /\ Len(st) >= 1 /\ st[1].blk = Root /\ ~st[1].retry
SeenUpTo(st, l) == \A i \in 1..Len(st) : st[i].lsn <= l
GoodStack(st, l) == Anchored(st) /\ SeenUpTo(st, l)

\* Every unfinished split belongs to a frame that has a parent, the calls are
\* nested bottom-up, a split has at least min halves, all in use and none the root.
\* A chain whose end is still to be found (min is 1) goes on with a page in use.
InUse(b, pgs) == b # Root /\ pgs[b].type \in InTree
RightUsed(b, pgs) == pgs[b].right # NoBlock => pgs[pgs[b].right].type \in InTree
GoodCall(f, d, min, pgs) ==
  /\ f \in Call
  /\ f.up + 2 <= d
  /\ Len(f.halves) >= min
  /\ \A h \in 1..Len(f.halves) : InUse(f.halves[h].blk, pgs)
  /\ min = 1 => RightUsed(f.halves[Len(f.halves)].blk, pgs)
GoodCalls(fs, d, min, pgs) ==
  /\ fs \in Seq(Call)
  /\ \A i \in 1..Len(fs) : GoodCall(fs[i], d, min, pgs)
  /\ \A i, j \in 1..Len(fs) : j <= i => fs[i].up <= fs[j].up

\* While a lock is swapped the kind of the page is the one that was seen; only the
\* root can change.
KindOK(label, st, pgs) ==
  LET b == st[Len(st)].blk IN
  /\ label = "lockinner" => pgs[b].type = "inner"
  /\ label = "lockleaf" => pgs[b].type \in {"leaf", "deleted"} \/ b = Root

Splitting == {"fixchain", "finish", "findpath"}
ProcOK(p) ==
  /\ pc[p] # "idle" => Anchored(stack[p]) /\ pos[p] \in 1..Len(EntriesOf[row[p]])
  /\ SeenUpTo(stack[p], lsn) /\ KindOK(pc[p], stack[p], pages)
  /\ pc[p] = "return" => Len(stack[p]) >= 2
  /\ fin[p] # <<>> <=> pc[p] \in Splitting
  /\ pc[p] = "fixchain" => Len(fin[p]) = 1
  /\ GoodCalls(fin[p], Len(stack[p]), IF pc[p] = "fixchain" THEN 1 ELSE 2, pages)
  /\ \A w \in bfs[p] : GoodStack(w, lsn)

IInv ==
  /\ TypeOK
  /\ GoodPages(pages, lsn)
  /\ \A p \in Inserters : ProcOK(p)
  /\ \A s \in Scanners : \A i \in scan[s].queue : i.plsn <= lsn
-----------------------------------------------------------------------------
(***************************************************************************)
(* Stacks.                                                                 *)
(***************************************************************************)
\* A frame that has just been pushed.
LEMMA NewFrameType == \A b \in Blocks : NewFrame(b) \in Frame /\ NewFrame(b).blk = b
                                        /\ NewFrame(b).lsn = 0 /\ ~NewFrame(b).retry
BY DEF NewFrame, Frame

\* A stack may be replaced at a frame as long as the root stays where it is.
LEMMA StackExcept ==
  ASSUME NEW st, NEW l \in Nat, GoodStack(st, l), NEW i \in 1..Len(st), NEW f \in Frame,
         f.lsn <= l, i = 1 => f.blk = Root /\ ~f.retry
  PROVE  GoodStack([st EXCEPT ![i] = f], l) /\ Len([st EXCEPT ![i] = f]) = Len(st)
<1>1. st \in Seq(Frame) BY DEF GoodStack, Anchored
<1>2. /\ [st EXCEPT ![i] = f] \in Seq(Frame)
      /\ Len([st EXCEPT ![i] = f]) = Len(st)
      /\ \A j \in 1..Len(st) : [st EXCEPT ![i] = f][j] = IF j = i THEN f ELSE st[j]
  BY <1>1, ExceptSeq
<1> HIDE DEF Frame
<1> QED BY <1>1, <1>2 DEF GoodStack, Anchored, SeenUpTo

\* Descending.
LEMMA StackPush ==
  ASSUME NEW st, NEW l \in Nat, GoodStack(st, l), NEW b \in Blocks
  PROVE  /\ GoodStack(Append(st, NewFrame(b)), l)
         /\ Len(Append(st, NewFrame(b))) = Len(st) + 1
<1>1. st \in Seq(Frame) /\ Len(st) \in Nat BY DEF GoodStack, Anchored
<1>2. NewFrame(b) \in Frame /\ NewFrame(b).lsn = 0 BY NewFrameType
<1>3. /\ Append(st, NewFrame(b)) \in Seq(Frame)
      /\ Len(Append(st, NewFrame(b))) = Len(st) + 1
      /\ \A i \in 1..Len(st) : Append(st, NewFrame(b))[i] = st[i]
      /\ Append(st, NewFrame(b))[Len(st) + 1] = NewFrame(b)
  BY <1>1, <1>2, AppendProperties
<1> QED BY <1>1, <1>2, <1>3 DEF GoodStack, Anchored, SeenUpTo

\* Going back to the parent.
LEMMA StackPop ==
  ASSUME NEW st, NEW l \in Nat, GoodStack(st, l), Len(st) >= 2
  PROVE  /\ GoodStack(SubSeq(st, 1, Len(st) - 1), l)
         /\ Len(SubSeq(st, 1, Len(st) - 1)) = Len(st) - 1
<1> DEFINE q == SubSeq(st, 1, Len(st) - 1)
<1>1. st \in Seq(Frame) /\ Len(st) \in Nat BY DEF GoodStack, Anchored
<1>2. \A i \in 1..Len(st) - 1 : st[i] \in Frame BY <1>1
<1>3. q \in Seq(Frame) /\ Len(q) = Len(st) - 1 /\ \A i \in 1..Len(st) - 1 : q[i] = st[i]
  BY <1>1, <1>2, SubSeqProperties
<1> HIDE DEF q
<1>4. GoodStack(q, l) /\ Len(q) = Len(st) - 1
  BY <1>1, <1>3 DEF GoodStack, Anchored, SeenUpTo
<1> QED BY <1>4 DEF q

\* The first frame.
LEMMA StackRoot == ASSUME NEW l \in Nat PROVE GoodStack(<<NewFrame(Root)>>, l)
BY NewFrameType, BlocksAssumption DEF GoodStack, Anchored, SeenUpTo
-----------------------------------------------------------------------------
(***************************************************************************)
(* Calls of mgistfinishsplit.                                              *)
(***************************************************************************)
LEMMA CallType ==
  \A f \in Call : f.up \in Nat /\ f.halves \in Seq(Half) /\ f.unlock \in BOOLEAN
                   /\ f.locked \in BOOLEAN
BY DEF Call

\* A single call.
LEMMA CallsOne ==
  ASSUME NEW pgs, NEW f, NEW d \in Nat, NEW min \in Nat, GoodCall(f, d, min, pgs)
  PROVE  GoodCalls(<<f>>, d, min, pgs) /\ <<f>> # <<>>
<1>1. f \in Call /\ f.up \in Nat BY CallType DEF GoodCall
<1> DEFINE q == <<f>>
<1>2. q \in Seq(Call) /\ Len(q) = 1 /\ q[1] = f /\ q # <<>> BY <1>1
<1> HIDE DEF q
<1>3. \A i \in 1..Len(q) : i = 1 /\ q[i] = f BY <1>2
<1>4. GoodCalls(q, d, min, pgs) /\ q # <<>> BY <1>1, <1>2, <1>3 DEF GoodCalls
<1> QED BY <1>4 DEF q

\* A call that waits for its caller's halves is replaced by one for the same page.
LEMMA CallsUpdate ==
  ASSUME NEW pgs, NEW fs, NEW d \in Nat, NEW min \in Nat, GoodCalls(fs, d, min, pgs), fs # <<>>,
         NEW m \in Nat, NEW f, GoodCall(f, d, m, pgs), f.up = fs[1].up,
         m = min \/ Len(fs) = 1
  PROVE  GoodCalls([fs EXCEPT ![1] = f], d, m, pgs) /\ [fs EXCEPT ![1] = f] # <<>>
<1>1. fs \in Seq(Call) /\ Len(fs) \in Nat /\ Len(fs) >= 1 BY DEF GoodCalls
<1>2. f \in Call BY DEF GoodCall
<1>3. /\ [fs EXCEPT ![1] = f] \in Seq(Call)
      /\ Len([fs EXCEPT ![1] = f]) = Len(fs)
      /\ \A j \in 1..Len(fs) : [fs EXCEPT ![1] = f][j] = IF j = 1 THEN f ELSE fs[j]
  BY <1>1, <1>2, ExceptSeq
<1>4. \A i \in 1..Len(fs) : GoodCall([fs EXCEPT ![1] = f][i], d, m, pgs)
  BY <1>1, <1>3 DEF GoodCalls
<1>5. \A i, j \in 1..Len(fs) :
        j <= i => [fs EXCEPT ![1] = f][i].up <= [fs EXCEPT ![1] = f][j].up
  BY <1>1, <1>3 DEF GoodCalls
<1> QED BY <1>1, <1>3, <1>4, <1>5 DEF GoodCalls

\* The innermost call returns.
LEMMA CallsReturn ==
  ASSUME NEW pgs, NEW fs, NEW d \in Nat, NEW min \in Nat, GoodCalls(fs, d, min, pgs), fs # <<>>
  PROVE  /\ GoodCalls(Tail(fs), d, min, pgs)
         /\ \A i \in 1..Len(Tail(fs)) : Tail(fs)[i].up <= fs[1].up
<1>1. fs \in Seq(Call) /\ Len(fs) \in Nat /\ Len(fs) >= 1 BY DEF GoodCalls
<1>2. /\ Tail(fs) \in Seq(Call) /\ Len(Tail(fs)) = Len(fs) - 1
      /\ \A i \in 1..Len(Tail(fs)) : Tail(fs)[i] = fs[i + 1]
  BY <1>1, HeadTailProperties
<1> QED BY <1>1, <1>2 DEF GoodCalls

\* A further call.
LEMMA CallsNest ==
  ASSUME NEW pgs, NEW fs, NEW d \in Nat, NEW min \in Nat, GoodCalls(fs, d, min, pgs), NEW f,
         GoodCall(f, d, min, pgs), \A i \in 1..Len(fs) : fs[i].up <= f.up
  PROVE  GoodCalls(<<f>> \o fs, d, min, pgs) /\ <<f>> \o fs # <<>>
<1>1. fs \in Seq(Call) /\ Len(fs) \in Nat BY DEF GoodCalls
<1>2. f \in Call /\ <<f>> \in Seq(Call) /\ Len(<<f>>) = 1 /\ <<f>>[1] = f BY DEF GoodCall
<1> DEFINE q == <<f>> \o fs
<1>3. /\ q \in Seq(Call) /\ Len(q) = 1 + Len(fs)
      /\ \A i \in 1..1 + Len(fs) : q[i] = IF i <= 1 THEN <<f>>[i] ELSE fs[i - 1]
  BY <1>1, <1>2, ConcatProperties
<1> HIDE DEF q
<1>4. q[1] = f /\ \A i \in 1..Len(q) : i # 1 => i - 1 \in 1..Len(fs) /\ q[i] = fs[i - 1]
  BY <1>1, <1>2, <1>3
<1>5. \A i \in 1..Len(q) : GoodCall(q[i], d, min, pgs) BY <1>4 DEF GoodCalls
<1>6. f.up \in Nat BY <1>2 DEF Call
<1>7. ASSUME NEW i \in 1..Len(q), NEW j \in 1..Len(q), j <= i PROVE q[i].up <= q[j].up
  <2>1. CASE j = 1 /\ i = 1 BY <2>1, <1>4, <1>6
  <2>2. CASE j = 1 /\ i # 1 BY <2>2, <1>4
  <2>3. CASE j # 1
    <3>1. i # 1 /\ i - 1 \in 1..Len(fs) /\ j - 1 \in 1..Len(fs) /\ j - 1 <= i - 1
      BY <2>3, <1>7, <1>4
    <3>2. fs[i - 1].up <= fs[j - 1].up BY <3>1 DEF GoodCalls
    <3> QED BY <3>1, <3>2, <2>3, <1>4
  <2> QED BY <2>1, <2>2, <2>3
<1>8. q # <<>> BY <1>1, <1>3
<1> QED BY <1>3, <1>5, <1>7, <1>8 DEF GoodCalls, q

\* The calls fit a stack that is deep enough for the innermost one.
LEMMA CallsDepth ==
  ASSUME NEW pgs, NEW fs, NEW d \in Nat, NEW min \in Nat, GoodCalls(fs, d, min, pgs), NEW e \in Nat,
         fs # <<>> => fs[1].up + 2 <= e
  PROVE  GoodCalls(fs, e, min, pgs)
<1>1. fs \in Seq(Call) /\ Len(fs) \in Nat BY DEF GoodCalls
<1>2. \A i \in 1..Len(fs) : fs[i].up \in Nat BY <1>1, CallType
<1>3. ASSUME NEW i \in 1..Len(fs) PROVE fs[i].up + 2 <= e
  <2>1. fs # <<>> /\ 1 \in 1..Len(fs) /\ 1 <= i BY <1>1, <1>3
  <2>2. fs[i].up <= fs[1].up BY <2>1, <1>3 DEF GoodCalls
  <2> QED BY <2>1, <2>2, <1>2, <1>3
<1> QED BY <1>1, <1>3 DEF GoodCalls, GoodCall

\* There is nothing wrong with no calls at all.
LEMMA CallsNone == ASSUME NEW pgs, NEW d \in Nat, NEW min \in Nat PROVE GoodCalls(<<>>, d, min, pgs)
BY DEF GoodCalls
-----------------------------------------------------------------------------
(***************************************************************************)
(* What mgistplacetopage does to the index file.                           *)
(***************************************************************************)
\* The tuples N may be put on page b.
TuplesFor(b, N) ==
  /\ N \subseteq Item
  /\ pages[b].type = "inner" => \A d \in N : d.ptr \in Blocks
  /\ pages[b].type = "leaf" => \A d \in N : d.ptr \in Entries

\* Every page either stays as it was or is written with LSN l, which is new; none
\* is given back, only the root changes its kind, and a right link of a page in use
\* leads to a page in use if it did so before.
SameKinds(old, new) ==
  /\ \A b \in Blocks : old[b].type # "new" =>
       \/ new[b].type = old[b].type
       \/ b = Root /\ new[b].type = "inner"
  /\ \A b \in Blocks : old[b].type \in InTree /\ RightUsed(b, old) => RightUsed(b, new)
Written(pgs, l) ==
  /\ lsn < l
  /\ SameKinds(pages, pgs)
  /\ \A b \in Blocks : \/ pgs[b] = pages[b]
                       \/ pgs[b].lsn = l /\ pages[b].nsn <= pgs[b].nsn

\* The update of the left child.
LEMMA LeftChildOK ==
  ASSUME NEW pgs, NEW l, GoodPages(pages, lsn), GoodPages(pgs, l), Written(pgs, l),
         NEW left \in (Blocks \ {Root}) \cup {NoBlock},
         left # NoBlock => pgs[left].type \in InTree
  PROVE  /\ GoodPages(WithLeftChild(pgs, left, l), l)
         /\ Written(WithLeftChild(pgs, left, l), l)
         /\ \A b \in Blocks : WithLeftChild(pgs, left, l)[b].type = pgs[b].type
<1>1. CASE left = NoBlock BY <1>1 DEF WithLeftChild
<1>2. CASE left # NoBlock
  <2> DEFINE pg == [pgs[left] EXCEPT !.nsn = l, !.follow = FALSE, !.lsn = l]
  <2>1. left \in Blocks /\ left # Root /\ WithLeftChild(pgs, left, l) = [pgs EXCEPT ![left] = pg]
    BY <1>2 DEF WithLeftChild
  <2>2. pgs[left] \in Page /\ l \in Nat /\ GoodPage(pgs[left]) /\ pgs[left].type # "new"
    BY <1>2, <2>1 DEF GoodPages, InTree
  <2>3. /\ pg \in Page /\ pg.lsn = l /\ pg.nsn = l /\ pg.type = pgs[left].type
        /\ pg.items = pgs[left].items /\ pg.right = pgs[left].right
    BY <2>2 DEF Page
  <2>9. ~pg.follow BY <2>2 DEF Page
  <2>8. GoodPage(pg) BY <2>2, <2>3 DEF GoodPage
  <2>4. pages[left].nsn \in Nat /\ pages[left].lsn \in Nat /\ pages[left].nsn <= pages[left].lsn
          /\ pages[left].lsn <= lsn /\ lsn \in Nat
    BY <2>1 DEF GoodPages, GoodPage, Page
  <2> HIDE DEF pg
  <2>5. GoodPages([pgs EXCEPT ![left] = pg], l)
    <3> DEFINE new == [pgs EXCEPT ![left] = pg]
    <3>1. \A b \in Blocks : pgs[b].right \in Blocks \cup {NoBlock} BY DEF GoodPages, Page
    <3>2. \A b \in Blocks : new[b].type = pgs[b].type /\ new[b].right = pgs[b].right
                            /\ (new[b].follow => pgs[b].follow)
      BY <2>1, <2>3, <2>9 DEF GoodPages
    <3>3. new \in [Blocks -> Page] BY <2>1, <2>3 DEF GoodPages
    <3>4. \A b \in Blocks : GoodPage(new[b]) /\ new[b].lsn <= l
      BY <2>1, <2>2, <2>3, <2>8 DEF GoodPages
    <3>5. new[Root] = pgs[Root] BY <2>1, BlocksAssumption DEF GoodPages
    <3> HIDE DEF new
    <3> QED BY <2>2, <3>1, <3>2, <3>3, <3>4, <3>5, BlocksAssumption DEF GoodPages, new
  <2>6. Written([pgs EXCEPT ![left] = pg], l)
    <3> DEFINE new == [pgs EXCEPT ![left] = pg]
    <3>1. \A b \in Blocks : pgs[b].right \in Blocks \cup {NoBlock} BY DEF GoodPages, Page
    <3>2. \A b \in Blocks : new[b].type = pgs[b].type /\ new[b].right = pgs[b].right
      BY <2>1, <2>3 DEF GoodPages
    <3>3. \A b \in Blocks : \/ new[b] = pages[b]
                            \/ new[b].lsn = l /\ pages[b].nsn <= new[b].nsn
      BY <2>1, <2>2, <2>3, <2>4 DEF GoodPages, Written
    <3> HIDE DEF new
    <3>4. SameKinds(pages, new)
      BY <3>1, <3>2 DEF Written, SameKinds, RightUsed
    <3> QED BY <3>3, <3>4 DEF Written, new
  <2>7. pgs \in [Blocks -> Page] BY DEF GoodPages
  <2> QED BY <2>1, <2>2, <2>3, <2>5, <2>6, <2>7
<1> QED BY <1>1, <1>2

\* The tuples fit on the page.
LEMMA FitOK ==
  ASSUME GoodPages(pages, lsn), NEW b \in Blocks, NEW N, TuplesFor(b, N),
         pages[b].type \in InTree,
         NEW left \in (Blocks \ {Root}) \cup {NoBlock},
         left # NoBlock => pages[left].type \in InTree
  PROVE  GoodPages(FitPages(b, N, left), lsn + 1) /\ Written(FitPages(b, N, left), lsn + 1)
<1> DEFINE pg == [pages[b] EXCEPT !.items = N, !.lsn = lsn + 1]
           pgs == [pages EXCEPT ![b] = pg]
<1>1. /\ pages[b] \in Page /\ GoodPage(pages[b]) /\ lsn \in Nat /\ pages \in [Blocks -> Page]
      /\ pages[b].lsn <= lsn /\ pages[b].lsn \in Nat /\ pages[b].nsn \in Nat
      /\ N \in SUBSET Item
  BY DEF GoodPages, Page, TuplesFor
<1>9. lsn + 1 \in Nat BY <1>1
<1>2. /\ pg \in Page /\ pg.lsn = lsn + 1 /\ pg.nsn = pages[b].nsn /\ pg.type = pages[b].type
      /\ pg.items = N /\ pg.right = pages[b].right /\ pg.follow = pages[b].follow
  BY <1>1, <1>9 DEF Page
<1>3. GoodPage(pg) BY <1>1, <1>2 DEF GoodPage, TuplesFor, InTree
<1> HIDE DEF pg
<1>4. \A c \in Blocks : pages[c] \in Page /\ pages[c].lsn <= lsn /\ pages[c].lsn \in Nat
  BY DEF GoodPages, Page
<1>5. GoodPages(pgs, lsn + 1)
  BY <1>1, <1>2, <1>3, <1>4, BlocksAssumption DEF GoodPages
<1>6. Written(pgs, lsn + 1)
  <2>1. \A x \in Blocks : pages[x].right \in Blocks \cup {NoBlock} BY DEF GoodPages, Page
  <2>2. \A x \in Blocks : pgs[x].type = pages[x].type /\ pgs[x].right = pages[x].right
    BY <1>1, <1>2
  <2>3. \A x \in Blocks : pgs[x] = pages[x] \/ (pgs[x].lsn = lsn + 1 /\ pages[x].nsn <= pgs[x].nsn)
    BY <1>1, <1>2
  <2> HIDE DEF pgs
  <2> QED BY <1>1, <2>1, <2>2, <2>3 DEF Written, SameKinds, RightUsed
<1>7. left # NoBlock => pgs[left].type \in InTree BY <1>1, <1>2
<1>8. FitPages(b, N, left) = WithLeftChild(pgs, left, lsn + 1) BY DEF FitPages, pg
<1> HIDE DEF pgs
<1> QED BY <1>5, <1>6, <1>7, <1>8, LeftChildOK

\* The halves cover a part of N each.
LEMMA PartitionFacts ==
  ASSUME GoodPages(pages, lsn), NEW b \in Blocks, pages[b].type \in InTree, NEW N,
         NEW P \in Partitions(b, N)
  PROVE  /\ Len(P) \in Nat /\ Len(P) >= 2 /\ DOMAIN P = 1..Len(P)
         /\ \A i \in 1..Len(P) : P[i] \subseteq N
<1>1. pages[b].type \in {"leaf", "inner"} BY DEF InTree
<1>2. MaxHalves[pages[b].type] \in Nat BY <1>1, BoundAssumption
<1>3. PICK n \in 2..MaxHalves[pages[b].type] : P \in [1..n -> SUBSET N] BY DEF Partitions
<1>4. n \in Nat /\ n >= 2 BY <1>2, <1>3
<1>5. P \in Seq(SUBSET N) /\ Len(P) = n BY <1>3, <1>4
<1> QED BY <1>3, <1>4, <1>5

\* The new blocks are not in use; the root is.
LEMMA FreshFacts ==
  ASSUME GoodPages(pages, lsn), NEW n \in Nat, NEW f \in FreshBlocks(n)
  PROVE  /\ f \in Seq(Blocks) /\ Len(f) = n
         /\ \A i \in 1..n : f[i] \in Blocks /\ f[i] # Root /\ pages[f[i]].type = "new"
<1>1. f \in [1..n -> Unused] BY DEF FreshBlocks
<1>2. \A i \in 1..n : f[i] \in Blocks /\ pages[f[i]].type = "new" BY <1>1 DEF Unused
<1>3. \A i \in 1..n : f[i] # Root BY <1>2 DEF GoodPages, InTree
<1>4. f \in Seq(Blocks) /\ Len(f) = n BY <1>1, <1>2
<1> QED BY <1>2, <1>3, <1>4

\* The blocks of a split: new ones, and for any page but the root the page itself.
SplitBlocks(b, P, blks) ==
  /\ blks \in Seq(Blocks) /\ Len(blks) = Len(P)
  /\ \A i \in 1..Len(blks) :
       blks[i] # Root /\ (pages[blks[i]].type = "new" \/ blks[i] = b)

LEMMA RootBlocks ==
  ASSUME GoodPages(pages, lsn), NEW P, Len(P) \in Nat, NEW blks \in FreshBlocks(Len(P))
  PROVE  SplitBlocks(Root, P, blks)
BY FreshFacts DEF SplitBlocks

LEMMA PageBlocks ==
  ASSUME GoodPages(pages, lsn), NEW b \in Blocks \ {Root}, NEW P, Len(P) \in Nat,
         Len(P) >= 2, NEW new \in FreshBlocks(Len(P) - 1)
  PROVE  SplitBlocks(b, P, <<b>> \o new)
<1>1. /\ new \in Seq(Blocks) /\ Len(new) = Len(P) - 1
      /\ \A i \in 1..Len(P) - 1 : new[i] \in Blocks /\ new[i] # Root /\ pages[new[i]].type = "new"
  BY FreshFacts
<1>2. <<b>> \in Seq(Blocks) /\ Len(<<b>>) = 1 /\ <<b>>[1] = b OBVIOUS
<1> DEFINE q == <<b>> \o new
<1>3. /\ q \in Seq(Blocks) /\ Len(q) = Len(P)
      /\ \A i \in 1..Len(P) : q[i] = IF i <= 1 THEN <<b>>[i] ELSE new[i - 1]
  BY <1>1, <1>2, ConcatProperties
<1> HIDE DEF q
<1>4. ASSUME NEW i \in 1..Len(P) PROVE q[i] # Root /\ (pages[q[i]].type = "new" \/ q[i] = b)
  <2>1. CASE i = 1
    <3>1. q[i] = b BY <1>2, <1>3, <2>1
    <3> QED BY <3>1
  <2>2. CASE i # 1
    <3>1. i - 1 \in 1..Len(P) - 1 /\ ~(i <= 1) BY <2>2
    <3>2. q[i] = new[i - 1] BY <1>3, <3>1
    <3> QED BY <1>1, <3>1, <3>2
  <2> QED BY <2>1, <2>2
<1>5. SplitBlocks(b, P, q) BY <1>3, <1>4 DEF SplitBlocks
<1> QED BY <1>5 DEF q

\* The pages of a split.
LEMMA HalvesOK ==
  ASSUME GoodPages(pages, lsn), NEW b \in Blocks, pages[b].type \in InTree,
         NEW N, TuplesFor(b, N), NEW P \in Partitions(b, N), NEW blks, SplitBlocks(b, P, blks)
  PROVE  /\ GoodPages(HalfPages(b, P, blks), lsn + 1)
         /\ Written(HalfPages(b, P, blks), lsn + 1)
         /\ \A i \in 1..Len(P) : HalfPages(b, P, blks)[blks[i]].type = pages[b].type
<1> DEFINE pgs == HalfPages(b, P, blks)
           half(i) == [type |-> pages[b].type, items |-> P[i],
                       right |-> IF i < Len(blks) THEN blks[i + 1]
                                 ELSE IF b = Root THEN NoBlock ELSE pages[b].right,
                       nsn |-> IF b = Root THEN 0 ELSE pages[b].nsn,
                       lsn |-> lsn + 1,
                       follow |-> b # Root /\ i < Len(blks)]
<1>1. /\ lsn \in Nat /\ pages \in [Blocks -> Page] /\ pages[b] \in Page /\ GoodPage(pages[b])
      /\ pages[b].lsn <= lsn /\ pages[b].lsn \in Nat /\ pages[b].nsn \in Nat
      /\ pages[b].right \in Blocks \cup {NoBlock} /\ pages[b].type \in {"leaf", "inner"}
  BY DEF GoodPages, GoodPage, Page, InTree
<1>2. /\ blks \in Seq(Blocks) /\ Len(blks) = Len(P) /\ Len(P) \in Nat /\ Len(P) >= 2
      /\ \A i \in 1..Len(P) : P[i] \subseteq N
      /\ DOMAIN blks = 1..Len(P)
  BY PartitionFacts DEF SplitBlocks
<1>3. ASSUME NEW i \in 1..Len(P)
      PROVE  /\ half(i) \in Page /\ GoodPage(half(i)) /\ half(i).lsn = lsn + 1
             /\ (half(i).type = "inner" \/ half(i).follow) /\ half(i).right # NoBlock =>
                  \/ pages[b].type = "inner" /\ half(i).right = pages[b].right
                  \/ \E j \in 1..Len(P) : half(i).right = blks[j]
  <2>1. i < Len(P) => i + 1 \in 1..Len(P) BY <1>2, <1>3
  <2>2. i < Len(P) => blks[i + 1] \in Blocks /\ blks[i + 1] # Root
    BY <1>2, <2>1 DEF SplitBlocks
  <2>3. P[i] \subseteq Item BY <1>2, <1>3 DEF TuplesFor
  <2>4. half(i) \in Page BY <1>1, <1>2, <2>2, <2>3 DEF Page
  <2>7. (half(i).type = "inner" \/ half(i).follow) /\ half(i).right # NoBlock =>
          \/ pages[b].type = "inner" /\ half(i).right = pages[b].right
          \/ \E j \in 1..Len(P) : half(i).right = blks[j]
    BY <1>2, <2>1
  <2>5. half(i).right \in Blocks \cup {NoBlock} /\ half(i).right # Root
    BY <1>1, <1>2, <2>1, <2>2, BlocksAssumption DEF GoodPage
  <2>6. GoodPage(half(i))
    <3>1. \A d \in half(i).items : d \in N BY <1>2, <1>3
    <3>2. half(i).nsn <= half(i).lsn /\ half(i).type \notin {"new", "deleted"}
      BY <1>1 DEF GoodPage
    <3> QED BY <2>4, <2>5, <3>1, <3>2 DEF GoodPage, TuplesFor
  <2> QED BY <2>4, <2>6, <2>7
<1>4. ASSUME NEW x \in Blocks
      PROVE  \/ pgs[x] = pages[x] /\ \A i \in 1..Len(P) : blks[i] # x
             \/ \E i \in 1..Len(P) : blks[i] = x /\ pgs[x] = half(i)
  <2>1. CASE \E i \in DOMAIN blks : blks[i] = x
    <3>1. IndexIn(blks, x) \in DOMAIN blks /\ blks[IndexIn(blks, x)] = x
      BY <2>1 DEF IndexIn
    <3>2. pgs[x] = half(IndexIn(blks, x)) BY <2>1 DEF HalfPages
    <3> QED BY <3>1, <3>2, <1>2
  <2>2. CASE ~\E i \in DOMAIN blks : blks[i] = x BY <2>2, <1>2 DEF HalfPages
  <2> QED BY <2>1, <2>2
<1>5. \A i \in 1..Len(P) : half(i).type = pages[b].type
                           /\ half(i).nsn = (IF b = Root THEN 0 ELSE pages[b].nsn)
  OBVIOUS
<1>6. DOMAIN pgs = Blocks /\ pgs = [x \in Blocks |-> pgs[x]] BY DEF HalfPages
<1> HIDE DEF half, pgs
<1>7. pgs \in [Blocks -> Page] BY <1>1, <1>3, <1>4, <1>6
<1>15. \A x \in Blocks : pages[x].type # "new" => pgs[x].type = pages[x].type
  BY <1>2, <1>4, <1>5 DEF SplitBlocks
<1>8. \A x \in Blocks : pages[x].type # "new" => pgs[x].type # "new" BY <1>15
<1>9. \A i \in 1..Len(P) : pgs[blks[i]].type = pages[b].type BY <1>2, <1>4, <1>5 DEF SplitBlocks
<1>10. ASSUME NEW x \in Blocks
       PROVE  /\ GoodPage(pgs[x]) /\ pgs[x].lsn <= lsn + 1
              /\ (pgs[x].type = "inner" \/ pgs[x].follow) /\ pgs[x].right # NoBlock =>
                   pgs[pgs[x].right].type = pgs[x].type
  <2>1. CASE pgs[x] = pages[x]
    <3>1. /\ GoodPage(pages[x]) /\ pages[x].lsn <= lsn /\ pages[x].lsn \in Nat
          /\ pages[x].right \in Blocks \cup {NoBlock}
          /\ (pages[x].type = "inner" \/ pages[x].follow) /\ pages[x].right # NoBlock =>
               pages[pages[x].right].type = pages[x].type
      BY DEF GoodPages, Page
    <3>2. pages[x].type = "inner" \/ pages[x].follow => pages[x].type # "new"
      BY <3>1 DEF GoodPage
    <3>3. (pages[x].type = "inner" \/ pages[x].follow) /\ pages[x].right # NoBlock =>
            pgs[pages[x].right].type = pages[x].type
      BY <3>1, <3>2, <1>15
    <3> QED BY <2>1, <3>1, <3>3, <1>1
  <2>2. CASE \E i \in 1..Len(P) : pgs[x] = half(i)
    <3>1. PICK i \in 1..Len(P) : pgs[x] = half(i) BY <2>2
    <3>2. GoodPage(pgs[x]) /\ pgs[x].lsn <= lsn + 1 BY <1>1, <1>3, <3>1
    <3>3. pages[b].type = "inner" /\ pages[b].right # NoBlock =>
            pgs[pages[b].right].type = pages[b].type
      <4>1. pages[b].type = "inner" /\ pages[b].right # NoBlock =>
              pages[pages[b].right].type = "inner"
        BY DEF GoodPages
      <4> QED BY <4>1, <1>1, <1>15
    <3>4. pgs[x].type = pages[b].type BY <1>5, <3>1
    <3> QED BY <1>3, <1>9, <3>1, <3>2, <3>3, <3>4
  <2> QED BY <1>4, <2>1, <2>2
<1>11. pgs[Root] = pages[Root]
  BY <1>2, <1>4, BlocksAssumption DEF SplitBlocks
<1>16. lsn + 1 \in Nat BY <1>1
<1>12. GoodPages(pgs, lsn + 1) BY <1>7, <1>10, <1>11, <1>16 DEF GoodPages
<1>13. ASSUME NEW x \in Blocks
       PROVE  pgs[x] = pages[x] \/ (pgs[x].lsn = lsn + 1 /\ pages[x].nsn <= pgs[x].nsn)
  <2>1. ASSUME NEW i \in 1..Len(P), blks[i] = x, pgs[x] = half(i)
        PROVE  pgs[x].lsn = lsn + 1 /\ pages[x].nsn <= pgs[x].nsn
    <3>1. GoodPage(pages[x]) /\ x # Root BY <2>1, <1>2 DEF GoodPages, SplitBlocks
    <3>2. (pages[x].type = "new" /\ pages[x].nsn = 0) \/ x = b
      BY <2>1, <1>2, <3>1 DEF SplitBlocks, GoodPage
    <3> QED BY <2>1, <3>1, <3>2, <1>1, <1>3, <1>5
  <2> QED BY <1>4, <2>1
<1>17. ASSUME NEW x \in Blocks, pages[x].type \in InTree, RightUsed(x, pages)
       PROVE  RightUsed(x, pgs)
  <2>1. CASE pgs[x] = pages[x]
    <3>1. pages[x].right \in Blocks \cup {NoBlock} BY DEF GoodPages, Page
    <3> QED BY <2>1, <3>1, <1>15, <1>17 DEF RightUsed, InTree
  <2>2. ASSUME NEW i \in 1..Len(P), blks[i] = x, pgs[x] = half(i) PROVE RightUsed(x, pgs)
    <3>1. x = b BY <2>2, <1>2, <1>17 DEF SplitBlocks, InTree
    <3>2. \/ half(i).right = NoBlock
          \/ half(i).right = pages[b].right
          \/ i + 1 \in 1..Len(P) /\ half(i).right = blks[i + 1]
      BY <1>2 DEF half
    <3>3. pages[b].right # NoBlock => pgs[pages[b].right].type \in InTree
      BY <3>1, <1>1, <1>15, <1>17 DEF RightUsed, InTree
    <3>4. i + 1 \in 1..Len(P) => pgs[blks[i + 1]].type \in InTree BY <1>9
    <3> QED BY <2>2, <3>2, <3>3, <3>4 DEF RightUsed
  <2> QED BY <1>4, <2>1, <2>2
<1>14. Written(pgs, lsn + 1) BY <1>1, <1>15, <1>13, <1>17 DEF Written, SameKinds
<1> QED BY <1>9, <1>12, <1>14 DEF pgs

\* A split of any page but the root.
LEMMA SplitOK ==
  ASSUME GoodPages(pages, lsn), NEW b \in Blocks \ {Root}, pages[b].type \in InTree,
         NEW N, TuplesFor(b, N), NEW P \in Partitions(b, N),
         NEW new \in FreshBlocks(Len(P) - 1),
         NEW left \in (Blocks \ {Root}) \cup {NoBlock},
         left # NoBlock => pages[left].type \in InTree
  PROVE  LET blks == <<b>> \o new
             pgs == SplitPages(b, P, blks, left)
             halves == HalvesOf(P, blks)
         IN /\ GoodPages(pgs, lsn + 1) /\ Written(pgs, lsn + 1)
            /\ halves \in Seq(Half) /\ Len(halves) >= 2
            /\ \A h \in 1..Len(halves) : InUse(halves[h].blk, pgs)
<1> DEFINE blks == <<b>> \o new
           pgs == HalfPages(b, P, blks)
           halves == HalvesOf(P, blks)
<1>1. /\ Len(P) \in Nat /\ Len(P) >= 2 /\ DOMAIN P = 1..Len(P)
      /\ \A i \in 1..Len(P) : P[i] \subseteq N
  BY PartitionFacts
<1>2. SplitBlocks(b, P, blks) BY <1>1, PageBlocks
<1> HIDE DEF blks
<1>3. /\ GoodPages(pgs, lsn + 1) /\ Written(pgs, lsn + 1)
      /\ \A i \in 1..Len(P) : pgs[blks[i]].type = pages[b].type
  BY <1>2, HalvesOK
<1>4. lsn + 1 \in Nat BY <1>3 DEF GoodPages
<1>5. left # NoBlock => pgs[left].type \in InTree BY <1>3 DEF Written, SameKinds, InTree
<1>6. SplitPages(b, P, blks, left) = WithLeftChild(pgs, left, lsn + 1) BY DEF SplitPages
<1> HIDE DEF pgs
<1>7. /\ GoodPages(WithLeftChild(pgs, left, lsn + 1), lsn + 1)
      /\ Written(WithLeftChild(pgs, left, lsn + 1), lsn + 1)
      /\ \A x \in Blocks : WithLeftChild(pgs, left, lsn + 1)[x].type = pgs[x].type
  BY <1>3, <1>4, <1>5, LeftChildOK
<1>8. /\ DOMAIN blks = 1..Len(P)
      /\ \A i \in 1..Len(P) : blks[i] \in Blocks /\ blks[i] # Root
  BY <1>1, <1>2 DEF SplitBlocks
<1>9. \A i \in 1..Len(P) : [blk |-> blks[i], pred |-> UnionOf(P[i])] \in Half
  <2> TAKE i \in 1..Len(P)
  <2>1. P[i] \subseteq Item BY <1>1 DEF TuplesFor
  <2>2. UnionOf(P[i]) \in SUBSET Keys BY <2>1 DEF UnionOf, Item
  <2> QED BY <2>2, <1>8 DEF Half
<1>10. halves = [i \in 1..Len(P) |-> [blk |-> blks[i], pred |-> UnionOf(P[i])]]
  BY <1>8 DEF HalvesOf
<1>11. halves \in Seq(Half) /\ Len(halves) = Len(P) BY <1>1, <1>9, <1>10
<1>12. \A h \in 1..Len(P) : halves[h].blk = blks[h] BY <1>10
<1> HIDE DEF halves
<1>13. \A h \in 1..Len(halves) : InUse(halves[h].blk, WithLeftChild(pgs, left, lsn + 1))
  BY <1>3, <1>4, <1>7, <1>8, <1>11, <1>12 DEF InUse
<1> QED BY <1>1, <1>6, <1>7, <1>11, <1>13 DEF blks, pgs, halves

\* A split of the root.
LEMMA RootSplitOK ==
  ASSUME GoodPages(pages, lsn), NEW N, TuplesFor(Root, N), NEW P \in Partitions(Root, N),
         NEW blks \in FreshBlocks(Len(P)),
         NEW left \in (Blocks \ {Root}) \cup {NoBlock},
         left # NoBlock => pages[left].type \in InTree
  PROVE  /\ GoodPages(RootSplitPages(P, blks, left), lsn + 1)
         /\ Written(RootSplitPages(P, blks, left), lsn + 1)
<1> DEFINE half == HalfPages(Root, P, blks)
           links == {Downlink(blks[i], P[i]) : i \in DOMAIN blks}
           root == [type |-> "inner", items |-> links, right |-> NoBlock, nsn |-> 0,
                    lsn |-> lsn + 1, follow |-> FALSE]
           pgs == [half EXCEPT ![Root] = root]
<1>1. Root \in Blocks /\ pages[Root].type \in InTree /\ NoBlock # Root
  BY BlocksAssumption DEF GoodPages
<1>2. /\ Len(P) \in Nat /\ Len(P) >= 2 /\ DOMAIN P = 1..Len(P)
      /\ \A i \in 1..Len(P) : P[i] \subseteq N
  BY <1>1, PartitionFacts
<1>3. SplitBlocks(Root, P, blks) BY <1>2, RootBlocks
<1>4. GoodPages(half, lsn + 1) /\ Written(half, lsn + 1) BY <1>1, <1>3, HalvesOK
<1>5. DOMAIN blks = 1..Len(P) /\ \A i \in 1..Len(P) : blks[i] \in Blocks
  BY <1>2, <1>3 DEF SplitBlocks
<1>6. \A i \in DOMAIN blks : Downlink(blks[i], P[i]) \in Item /\ Downlink(blks[i], P[i]).ptr \in Blocks
  <2> TAKE i \in DOMAIN blks
  <2>1. P[i] \subseteq Item BY <1>2, <1>5 DEF TuplesFor
  <2>2. UnionOf(P[i]) \in SUBSET Keys BY <2>1 DEF UnionOf, Item
  <2> QED BY <2>2, <1>5 DEF Downlink, Item
<1>7. links \in SUBSET Item /\ \A d \in links : d.ptr \in Blocks BY <1>6
<1>8. lsn \in Nat /\ lsn + 1 \in Nat BY DEF GoodPages
<1> HIDE DEF half, links
<1>9. root \in Page BY <1>7, <1>8 DEF Page
<1>10. GoodPage(root) BY <1>1, <1>7, <1>8, <1>9 DEF GoodPage
<1>11. /\ root.type = "inner" /\ root.right = NoBlock /\ ~root.follow /\ root.nsn = 0
       /\ root.lsn = lsn + 1
  OBVIOUS
<1> HIDE DEF root
<1>12. GoodPages(pgs, lsn + 1)
  <2>1. half \in [Blocks -> Page] /\ \A x \in Blocks : GoodPage(half[x]) /\ half[x].lsn <= lsn + 1
    BY <1>4 DEF GoodPages
  <2>2. pgs \in [Blocks -> Page] /\ pgs[Root] = root BY <1>1, <1>9, <2>1
  <2>3. \A x \in Blocks : x # Root => pgs[x] = half[x] BY <2>1
  <2>4. \A x \in Blocks : GoodPage(pgs[x]) /\ pgs[x].lsn <= lsn + 1
    BY <1>8, <1>10, <1>11, <2>1, <2>2, <2>3
  <2>5. \A x \in Blocks : half[x].right \in Blocks \cup {NoBlock} /\ half[x].right # Root
    BY <2>1 DEF Page, GoodPage
  <2> HIDE DEF pgs
  <2>6. \A x \in Blocks : (pgs[x].type = "inner" \/ pgs[x].follow) /\ pgs[x].right # NoBlock =>
                           pgs[pgs[x].right].type = pgs[x].type
    BY <1>4, <1>11, <2>2, <2>3, <2>5 DEF GoodPages
  <2> QED BY <1>8, <1>11, <2>2, <2>4, <2>6 DEF GoodPages, InTree
<1>13. Written(pgs, lsn + 1)
  <2>1. half \in [Blocks -> Page] BY <1>4 DEF GoodPages
  <2>2. pages[Root].nsn = 0 BY DEF GoodPages
  <2>3. \A x \in Blocks : pgs[x] = IF x = Root THEN root ELSE half[x] BY <2>1
  <2>4. \A x \in Blocks : half[x].right \in Blocks \cup {NoBlock} BY <2>1 DEF Page
  <2> HIDE DEF pgs
  <2>5. \A x \in Blocks : RightUsed(x, half) => RightUsed(x, pgs)
    BY <1>11, <2>3, <2>4 DEF RightUsed, InTree
  <2>6. SameKinds(pages, pgs) BY <1>4, <1>11, <2>3, <2>5 DEF Written, SameKinds
  <2> QED BY <1>1, <1>4, <1>11, <2>2, <2>3, <2>6 DEF Written
<1>14. left # NoBlock => pgs[left].type \in InTree BY <1>13 DEF Written, SameKinds, InTree
<1>15. RootSplitPages(P, blks, left) = WithLeftChild(pgs, left, lsn + 1)
  BY DEF RootSplitPages, half, links, root
<1> HIDE DEF pgs
<1> QED BY <1>8, <1>12, <1>13, <1>14, <1>15, LeftChildOK
-----------------------------------------------------------------------------
(***************************************************************************)
(* What all steps of a backend have in common.                             *)
(***************************************************************************)
\* What was in order stays in order while the WAL grows and pages are written.
LEMMA StackLater ==
  ASSUME NEW st, NEW l \in Nat, NEW m \in Nat, l <= m, st \in Seq(Frame), SeenUpTo(st, l)
  PROVE  SeenUpTo(st, m) /\ (Anchored(st) => GoodStack(st, m))
<1>1. \A f \in Frame : f.lsn \in Nat BY DEF Frame
<1>2. \A i \in 1..Len(st) : st[i] \in Frame OBVIOUS
<1> QED BY <1>1, <1>2 DEF SeenUpTo, GoodStack

LEMMA CallsLater ==
  ASSUME NEW old, NEW new, SameKinds(old, new),
         NEW fs, NEW d \in Nat, NEW min \in Nat, GoodCalls(fs, d, min, old)
  PROVE  GoodCalls(fs, d, min, new)
<1>1. \A i \in 1..Len(fs) : \A h \in 1..Len(fs[i].halves) : fs[i].halves[h].blk \in Blocks
  <2> TAKE i \in 1..Len(fs)
  <2> TAKE h \in 1..Len(fs[i].halves)
  <2>1. fs[i] \in Call BY DEF GoodCalls
  <2>2. fs[i].halves \in Seq(Half) BY <2>1, CallType
  <2>3. fs[i].halves[h] \in Half BY <2>2
  <2> QED BY <2>3 DEF Half
<1>2. ASSUME NEW i \in 1..Len(fs) PROVE GoodCall(fs[i], d, min, new)
  <2> DEFINE f == fs[i]
             n == Len(f.halves)
  <2>1. GoodCall(f, d, min, old) BY DEF GoodCalls
  <2>2. f \in Call /\ n \in Nat BY <2>1, CallType DEF GoodCall
  <2>3. \A h \in 1..n : f.halves[h].blk \in Blocks /\ InUse(f.halves[h].blk, old)
    BY <1>1, <2>1 DEF GoodCall
  <2>4. \A h \in 1..n : InUse(f.halves[h].blk, new)
    BY <2>3 DEF InUse, SameKinds, InTree
  <2>5. min = 1 => RightUsed(f.halves[n].blk, new)
    <3>1. SUFFICES ASSUME min = 1 PROVE RightUsed(f.halves[n].blk, new) OBVIOUS
    <3>2. n \in 1..n BY <2>1, <2>2, <3>1 DEF GoodCall
    <3>3. InUse(f.halves[n].blk, old) /\ RightUsed(f.halves[n].blk, old) BY <2>1, <2>3, <3>1, <3>2 DEF GoodCall
    <3> QED BY <2>3, <3>2, <3>3 DEF InUse, SameKinds
  <2> QED BY <2>1, <2>4, <2>5 DEF GoodCall
<1> QED BY <1>2 DEF GoodCalls

LEMMA KindLater ==
  ASSUME NEW old, NEW new, SameKinds(old, new), NEW st \in Seq(Frame), NEW label,
         Anchored(st) \/ label = "idle", KindOK(label, st, old), NoBlock \notin Blocks
  PROVE  KindOK(label, st, new)
<1>1. CASE label = "idle" BY <1>1 DEF KindOK
<1>2. CASE Anchored(st)
  <2>1. Len(st) \in 1..Len(st) BY <1>2 DEF Anchored
  <2>2. st[Len(st)] \in Frame BY <2>1
  <2>3. st[Len(st)].blk \in Blocks BY <2>2 DEF Frame
  <2> QED BY <2>3 DEF KindOK, SameKinds
<1> QED BY <1>1, <1>2

\* The index file stays as it is, or one record is logged.
Grown == \/ UNCHANGED <<pages, lsn>>
         \/ lsn' = lsn + 1 /\ GoodPages(pages', lsn') /\ Written(pages', lsn')

LEMMA GrownFacts ==
  ASSUME GoodPages(pages, lsn), Grown
  PROVE  /\ GoodPages(pages', lsn') /\ lsn \in Nat /\ lsn' \in Nat /\ lsn <= lsn'
         /\ SameKinds(pages, pages')
         /\ \A b \in Blocks : pages[b].type # "new" => pages'[b].type # "new"
BY DEF Grown, GoodPages, Written, SameKinds

OthersSame(p) ==
  \A q \in Inserters \ {p} :
    /\ pc'[q] = pc[q] /\ row'[q] = row[q] /\ pos'[q] = pos[q]
    /\ stack'[q] = stack[q] /\ fin'[q] = fin[q] /\ bfs'[q] = bfs[q]

\* A step of p keeps the invariant if it does so for p.
LEMMA StepOK ==
  ASSUME IInv, NEW p \in Inserters, TypeOK', Grown, OthersSame(p), UNCHANGED scan, ProcOK(p)'
  PROVE  IInv' /\ Grown /\ OthersSame(p)
<1>1. /\ GoodPages(pages', lsn') /\ lsn \in Nat /\ lsn' \in Nat /\ lsn <= lsn'
      /\ \A b \in Blocks : pages[b].type # "new" => pages'[b].type # "new"
      /\ SameKinds(pages, pages')
  BY GrownFacts DEF IInv
<1>2. ASSUME NEW q \in Inserters, q # p PROVE ProcOK(q)'
  <2>1. /\ pc'[q] = pc[q] /\ row'[q] = row[q] /\ pos'[q] = pos[q]
        /\ stack'[q] = stack[q] /\ fin'[q] = fin[q] /\ bfs'[q] = bfs[q]
    BY <1>2 DEF OthersSame
  <2>2. ProcOK(q) /\ stack[q] \in Seq(Frame) /\ Len(stack[q]) \in Nat
    BY DEF IInv, TypeOK
  <2>3. SeenUpTo(stack[q], lsn') BY <1>1, <2>2, StackLater DEF ProcOK
  <2>4. \A w \in bfs[q] : GoodStack(w, lsn')
    BY <1>1, <2>2, StackLater DEF ProcOK, GoodStack, Anchored
  <2> DEFINE min == IF pc[q] = "fixchain" THEN 1 ELSE 2
  <2>5. min \in Nat OBVIOUS
  <2>6. GoodCalls(fin[q], Len(stack[q]), min, pages) BY <2>2 DEF ProcOK
  <2> HIDE DEF min
  <2>7. GoodCalls(fin[q], Len(stack[q]), min, pages') BY <1>1, <2>2, <2>5, <2>6, CallsLater
  <2>8. KindOK(pc[q], stack[q], pages')
    BY <1>1, <2>2, KindLater, BlocksAssumption DEF ProcOK
  <2> QED BY <2>1, <2>2, <2>3, <2>4, <2>7, <2>8 DEF ProcOK, min
<1>3. \A s \in Scanners : \A i \in scan'[s].queue : i.plsn <= lsn'
  <2>1. \A s \in Scanners : \A i \in scan[s].queue : i.plsn \in Nat /\ i.plsn <= lsn
    BY DEF IInv, TypeOK, ScanState
  <2> QED BY <1>1, <2>1
<1> QED BY <1>1, <1>2, <1>3 DEF IInv

\* The top of a busy backend's stack.
LEMMA TopFacts ==
  ASSUME IInv, NEW p \in Inserters, pc[p] # "idle"
  PROVE  /\ GoodStack(stack[p], lsn) /\ stack[p] \in Seq(Frame)
         /\ Depth(p) \in Nat /\ Depth(p) >= 1 /\ lsn \in Nat
         /\ Top(p) \in Frame /\ Top(p).blk \in Blocks /\ Top(p).retry \in BOOLEAN
         /\ Top(p).blk # Root => Depth(p) >= 2
         /\ Top(p).retry => Depth(p) >= 2
         /\ TopPage(p) \in Page /\ GoodPage(TopPage(p)) /\ TopPage(p).lsn <= lsn
         /\ fin[p] # <<>> <=> pc[p] \in Splitting
<1>1. GoodStack(stack[p], lsn) BY DEF IInv, ProcOK, GoodStack
<1>2. /\ stack[p] \in Seq(Frame) /\ Depth(p) \in Nat /\ Depth(p) >= 1
      /\ stack[p][1].blk = Root /\ ~stack[p][1].retry
  BY <1>1 DEF GoodStack, Anchored, Depth
<1>3. Top(p) \in Frame BY <1>2 DEF Top, Depth
<1>4. Top(p).blk \in Blocks /\ Top(p).retry \in BOOLEAN BY <1>3 DEF Frame
<1>5. Depth(p) = 1 => Top(p).blk = Root /\ ~Top(p).retry BY <1>2 DEF Top
<1>6. TopPage(p) \in Page /\ GoodPage(TopPage(p)) /\ TopPage(p).lsn <= lsn /\ lsn \in Nat
  BY <1>4 DEF TopPage, IInv, GoodPages
<1> QED BY <1>1, <1>2, <1>3, <1>4, <1>5, <1>6 DEF IInv, ProcOK

\* Remembering the LSN of the page changes nothing else.
LEMMA SeenFacts ==
  ASSUME IInv, NEW p \in Inserters, pc[p] # "idle"
  PROVE  /\ GoodStack(SeenStack(p), lsn) /\ Len(SeenStack(p)) = Depth(p)
         /\ SeenStack(p) \in Seq(Frame)
<1> DEFINE f == [Top(p) EXCEPT !.lsn = TopPage(p).lsn]
<1>1. /\ GoodStack(stack[p], lsn) /\ Depth(p) \in Nat /\ Depth(p) >= 1 /\ lsn \in Nat
      /\ Top(p) \in Frame /\ TopPage(p) \in Page /\ TopPage(p).lsn <= lsn
  BY TopFacts
<1>2. f \in Frame /\ f.lsn <= lsn /\ f.blk = Top(p).blk /\ f.retry = Top(p).retry
  BY <1>1 DEF Frame, Page
<1>3. Depth(p) = 1 => f.blk = Root /\ ~f.retry
  BY <1>2, <1>1 DEF GoodStack, Anchored, Top, Depth
<1>4. SeenStack(p) = [stack[p] EXCEPT ![Depth(p)] = f] BY DEF SeenStack, Top
<1> HIDE DEF f
<1>5. Len(stack[p]) = Depth(p) /\ Depth(p) \in 1..Len(stack[p]) BY <1>1 DEF Depth
<1>6. GoodStack(SeenStack(p), lsn) /\ Len(SeenStack(p)) = Depth(p)
  BY <1>1, <1>2, <1>3, <1>4, <1>5, StackExcept
<1> QED BY <1>6 DEF GoodStack, Anchored

LEMMA SeenKind ==
  ASSUME IInv, NEW p \in Inserters, pc[p] # "idle"
  PROVE  LET st == SeenStack(p) IN
         st[Len(st)].blk = Top(p).blk /\ pages[st[Len(st)].blk] = TopPage(p)
<1>1. stack[p] \in Seq(Frame) /\ Depth(p) \in 1..Len(stack[p]) /\ Top(p) \in Frame
  BY TopFacts DEF Depth
<1>2. Len(SeenStack(p)) = Depth(p) BY SeenFacts
<1>3. SeenStack(p)[Depth(p)].blk = Top(p).blk BY <1>1 DEF SeenStack, Top, Frame
<1> QED BY <1>2, <1>3 DEF TopPage

\* Outside of mgistfinishsplit there are no calls to keep track of.
LEMMA NoCalls ==
  ASSUME IInv, NEW p \in Inserters, pc[p] \notin Splitting, NEW d \in Nat, NEW min \in Nat,
         NEW pgs
  PROVE  fin[p] = <<>> /\ GoodCalls(fin[p], d, min, pgs)
BY CallsNone DEF IInv, ProcOK

\* Buffer locks.
LEMMA LockTypes ==
  ASSUME IInv, NEW p \in Inserters, NEW S
  PROVE  /\ Locked(p, S) \in [Blocks -> Lockers \cup {NoProc}]
         /\ Unlocked(S) \in [Blocks -> Lockers \cup {NoProc}]
         /\ Released(p) \in [Blocks -> Lockers \cup {NoProc}]
BY ProcAssumption DEF IInv, TypeOK, Locked, Unlocked, Released
-----------------------------------------------------------------------------
(***************************************************************************)
(* The steps of an inserting backend.                                      *)
(***************************************************************************)
LEMMA BeginRowOK ==
  ASSUME IInv, NEW p \in Inserters, NEW r \in Rows, BeginRow(p, r) PROVE IInv' /\ Grown /\ OthersSame(p)
<1>1. pc[p] = "idle" /\ fin[p] = <<>> BY NoCalls DEF BeginRow, Splitting
<1>2. lsn \in Nat /\ GoodStack(<<NewFrame(Root)>>, lsn) /\ <<NewFrame(Root)>> \in Seq(Frame)
  BY StackRoot DEF IInv, TypeOK, GoodStack, Anchored
<1>3. 1 \in 1..Len(EntriesOf[r])
  <2>1. EntriesOf[r] \in Seq(Entries) /\ EntriesOf[r] # <<>> BY RowsAssumption
  <2> QED BY <2>1
<1>4. TypeOK' BY <1>2 DEF BeginRow, IInv, TypeOK, treeVars, Proceed, PCs
<1>5. Grown /\ OthersSame(p) /\ UNCHANGED scan
  BY DEF BeginRow, Grown, OthersSame, treeVars, IInv, TypeOK, Proceed
<1>6. ProcOK(p)'
  <2>1. /\ pc'[p] = "visit" /\ row'[p] = r /\ pos'[p] = 1 /\ stack'[p] = <<NewFrame(Root)>>
        /\ fin'[p] = fin[p] /\ bfs'[p] = bfs[p] /\ lsn' = lsn /\ pages' = pages
    BY DEF BeginRow, treeVars, IInv, TypeOK, Proceed
  <2>2. GoodCalls(fin[p], Len(<<NewFrame(Root)>>), 2, pages)
    BY <1>1, CallsNone
  <2>3. \A w \in bfs[p] : GoodStack(w, lsn) BY DEF IInv, ProcOK
  <2> QED BY <1>1, <1>2, <1>3, <2>1, <2>2, <2>3 DEF ProcOK, GoodStack, Splitting, KindOK
<1> QED BY <1>4, <1>5, <1>6, StepOK

\* A backend that goes on with its entry outside of mgistfinishsplit.
LEMMA GoesOn ==
  ASSUME IInv, NEW p \in Inserters, pc[p] # "idle", Grown,
         pc'[p] \in {"visit", "lockfix", "lockinner", "lockleaf"},
         GoodStack(stack'[p], lsn), KindOK(pc'[p], stack'[p], pages'), fin'[p] = <<>>,
         row'[p] = row[p], pos'[p] = pos[p], bfs'[p] = bfs[p]
  PROVE  ProcOK(p)'
<1>1. lsn \in Nat /\ lsn' \in Nat /\ lsn <= lsn' BY GrownFacts DEF IInv
<1>2. stack'[p] \in Seq(Frame) /\ Len(stack'[p]) \in Nat BY DEF GoodStack, Anchored
<1>3. GoodStack(stack'[p], lsn') BY <1>1, <1>2, StackLater DEF GoodStack
<1>4. \A w \in bfs[p] : GoodStack(w, lsn')
  BY <1>1, StackLater DEF IInv, ProcOK, GoodStack, Anchored
<1>5. GoodCalls(<<>>, Len(stack'[p]), 2, pages') BY <1>2, CallsNone
<1>6. pos[p] \in 1..Len(EntriesOf[row[p]]) BY DEF IInv, ProcOK
<1> QED BY <1>3, <1>4, <1>5, <1>6 DEF ProcOK, GoodStack, Splitting

\* One entry is in: the next one, or nothing to do.
LEMMA EntryDoneOK ==
  ASSUME IInv, NEW p \in Inserters, pc[p] # "idle", Grown, EntryDone(p),
         fin[p] = <<>>, fin' = fin, bfs' = bfs
  PROVE  ProcOK(p)' /\ OthersSame(p)
         /\ xlock' \in [Blocks -> Lockers \cup {NoProc}]
         /\ rowst' \in [Rows -> {"absent", "inserting", "present", "aborted", "dead"}]
         /\ pc' \in [Inserters -> PCs]
         /\ row' \in [Inserters -> Rows]
         /\ pos' \in [Inserters -> Nat]
         /\ stack' \in [Inserters -> Seq(Frame)]
         /\ xheld' \in [Inserters -> BOOLEAN]
<1>1. lsn \in Nat /\ lsn' \in Nat /\ lsn <= lsn' BY GrownFacts DEF IInv
<1>2. <<NewFrame(Root)>> \in Seq(Frame) /\ GoodStack(<<NewFrame(Root)>>, lsn')
  BY <1>1, StackRoot DEF GoodStack, Anchored
<1>3. \A w \in bfs[p] : GoodStack(w, lsn')
  BY <1>1, StackLater DEF IInv, ProcOK, GoodStack, Anchored
<1>4. AnyRow \in Rows BY RowsAssumption DEF AnyRow
<1>5. pos[p] \in 1..Len(EntriesOf[row[p]]) /\ row[p] \in Rows BY DEF IInv, ProcOK, TypeOK
<1>6. EntriesOf[row[p]] \in Seq(Entries) BY <1>5, RowsAssumption
<1>7. Released(p) \in [Blocks -> Lockers \cup {NoProc}] BY LockTypes
<1>8. CASE pos[p] < Len(EntriesOf[row[p]])
  <2>1. /\ pos' = [pos EXCEPT ![p] = @ + 1]
        /\ stack' = [stack EXCEPT ![p] = <<NewFrame(Root)>>]
        /\ pc' = [pc EXCEPT ![p] = "visit"]
        /\ rowst' = rowst /\ row' = row
        /\ xlock' = Released(p) /\ xheld' = [xheld EXCEPT ![p] = FALSE]
    BY <1>8 DEF EntryDone, Proceed, NotLocked
  <2>2. /\ pos'[p] \in 1..Len(EntriesOf[row'[p]]) /\ stack'[p] = <<NewFrame(Root)>>
        /\ pc'[p] = "visit" /\ fin'[p] = <<>> /\ bfs'[p] = bfs[p]
    BY <1>5, <1>6, <1>8, <2>1 DEF IInv, TypeOK
  <2>3. GoodCalls(<<>>, Len(<<NewFrame(Root)>>), 2, pages') BY CallsNone
  <2>4. ProcOK(p)'
    BY <1>2, <1>3, <2>2, <2>3 DEF ProcOK, GoodStack, Splitting, KindOK
  <2>5. OthersSame(p) BY <2>1 DEF OthersSame, IInv, TypeOK
  <2> QED BY <1>2, <1>7, <2>1, <2>4, <2>5 DEF IInv, TypeOK, PCs
<1>9. CASE ~(pos[p] < Len(EntriesOf[row[p]]))
  <2>1. /\ pos' = [pos EXCEPT ![p] = 1]
        /\ stack' = [stack EXCEPT ![p] = <<>>]
        /\ pc' = [pc EXCEPT ![p] = "idle"]
        /\ rowst' = [rowst EXCEPT ![row[p]] = "present"]
        /\ row' = [row EXCEPT ![p] = AnyRow]
        /\ xlock' = Released(p) /\ xheld' = [xheld EXCEPT ![p] = FALSE]
    BY <1>9 DEF EntryDone, Proceed, NotLocked
  <2>2. stack'[p] = <<>> /\ pc'[p] = "idle" /\ fin'[p] = <<>> /\ bfs'[p] = bfs[p]
    BY <2>1 DEF IInv, TypeOK
  <2>3. GoodCalls(<<>>, 0, 2, pages') BY CallsNone
  <2>4. ProcOK(p)'
    BY <1>3, <2>2, <2>3 DEF ProcOK, SeenUpTo, Splitting, KindOK
  <2>5. OthersSame(p) BY <2>1 DEF OthersSame, IInv, TypeOK
  <2> QED BY <1>4, <1>7, <2>1, <2>4, <2>5 DEF IInv, TypeOK, PCs
<1> QED BY <1>8, <1>9

\* Both actions that give up a frame before its page is used.
LEMMA PopOK ==
  ASSUME IInv, NEW p \in Inserters, pc[p] = "visit", Depth(p) >= 2,
         PopTo(p), NotLocked(p), xlock' = Released(p),
         UNCHANGED <<pages, lsn, rowst, pc, row, pos, child, fin, ret, bfs, scan, aborts, errs>>
  PROVE  IInv' /\ Grown /\ OthersSame(p)
<1> DEFINE st == SubSeq(stack[p], 1, Depth(p) - 1)
<1>1. GoodStack(st, lsn) /\ lsn \in Nat BY TopFacts, StackPop DEF Depth
<1>2. stack' = [stack EXCEPT ![p] = st] /\ st \in Seq(Frame)
  BY <1>1 DEF PopTo, GoodStack, Anchored
<1> HIDE DEF st
<1>3. TypeOK' BY <1>2, LockTypes DEF IInv, TypeOK, NotLocked
<1>4. Grown /\ OthersSame(p) /\ UNCHANGED scan BY <1>2 DEF Grown, OthersSame, IInv, TypeOK
<1>5. fin[p] = <<>> BY NoCalls DEF Splitting
<1>6. stack'[p] = st BY <1>2 DEF IInv, TypeOK
<1>7. ProcOK(p)' BY <1>1, <1>4, <1>5, <1>6, GoesOn DEF KindOK
<1> QED BY <1>3, <1>4, <1>7, StepOK

LEMMA PopRetryOK == ASSUME IInv, NEW p \in Inserters, PopRetry(p) PROVE IInv' /\ Grown /\ OthersSame(p)
<1>1. pc[p] = "visit" /\ Depth(p) >= 2 BY TopFacts DEF PopRetry
<1> QED BY <1>1, PopOK DEF PopRetry

LEMMA VisitStaleOK == ASSUME IInv, NEW p \in Inserters, VisitStale(p) PROVE IInv' /\ Grown /\ OthersSame(p)
<1>1. pc[p] = "visit" /\ Depth(p) >= 2 BY TopFacts DEF VisitStale, Visiting, Stale
<1> QED BY <1>1, PopOK DEF VisitStale

LEMMA VisitInnerOK == ASSUME IInv, NEW p \in Inserters, VisitInner(p) PROVE IInv' /\ Grown /\ OthersSame(p)
<1>1. PICK d \in TopPage(p).items :
        stack' = [stack EXCEPT ![p] = Append(SeenStack(p), NewFrame(d.ptr))]
  BY DEF VisitInner
<1> DEFINE st == Append(SeenStack(p), NewFrame(d.ptr))
<1>2. pc[p] = "visit" /\ TopPage(p).type = "inner" BY DEF VisitInner, Visiting
<1>3. d.ptr \in Blocks BY <1>2, TopFacts DEF GoodPage
<1>4. GoodStack(st, lsn) /\ st \in Seq(Frame) /\ lsn \in Nat
  BY <1>2, <1>3, SeenFacts, TopFacts, StackPush DEF GoodStack, Anchored
<1> HIDE DEF st
<1>5. /\ stack' = [stack EXCEPT ![p] = st] /\ xheld' = [xheld EXCEPT ![p] = FALSE]
      /\ xlock' = Released(p)
      /\ UNCHANGED <<pages, lsn, rowst, pc, row, pos, child, fin, ret, bfs, scan, aborts, errs>>
  BY <1>1 DEF VisitInner, NotLocked, st
<1>6. TypeOK' BY <1>4, <1>5, LockTypes DEF IInv, TypeOK
<1>7. Grown /\ OthersSame(p) /\ UNCHANGED scan BY <1>5 DEF Grown, OthersSame, IInv, TypeOK
<1>8. fin[p] = <<>> /\ stack'[p] = st BY <1>2, <1>5, NoCalls DEF Splitting, IInv, TypeOK
<1>9. ProcOK(p)' BY <1>2, <1>4, <1>5, <1>7, <1>8, GoesOn DEF KindOK
<1> QED BY <1>6, <1>7, <1>9, StepOK

\* The entry being inserted.
LEMMA EntryFacts ==
  ASSUME IInv, NEW p \in Inserters, pc[p] # "idle"
  PROVE  EntriesOf[row[p]][pos[p]] \in Entries /\ Key(p) \in Keys
<1>1. row[p] \in Rows /\ pos[p] \in 1..Len(EntriesOf[row[p]]) BY DEF IInv, ProcOK, TypeOK
<1>2. EntriesOf[row[p]] \in Seq(Entries) BY <1>1, RowsAssumption
<1>3. EntriesOf[row[p]][pos[p]] \in Entries BY <1>1, <1>2
<1> QED BY <1>3, RowsAssumption DEF Key

\* The first split of a backend that has none to finish.
LEMMA StartsOK ==
  ASSUME IInv, NEW p \in Inserters, pc[p] \notin Splitting \cup {"idle"}, Grown,
         GoodStack(stack'[p], lsn), Len(stack'[p]) >= 2,
         row'[p] = row[p], pos'[p] = pos[p], bfs'[p] = bfs[p],
         NEW min \in Nat, NEW halves \in Seq(Half), Len(halves) >= min,
         \A h \in 1..Len(halves) : InUse(halves[h].blk, pages'),
         fin'[p] = <<[up |-> 0, halves |-> halves, unlock |-> FALSE, locked |-> FALSE]>>,
         \/ pc'[p] = "finish" /\ min = 2
         \/ pc'[p] = "fixchain" /\ min = 1 /\ RightUsed(halves[Len(halves)].blk, pages')
  PROVE  ProcOK(p)'
<1> DEFINE f == [up |-> 0, halves |-> halves, unlock |-> FALSE, locked |-> FALSE]
<1>1. lsn \in Nat /\ lsn' \in Nat /\ lsn <= lsn' BY GrownFacts DEF IInv
<1>2. stack'[p] \in Seq(Frame) /\ Len(stack'[p]) \in Nat BY DEF GoodStack, Anchored
<1>3. GoodStack(stack'[p], lsn') BY <1>1, <1>2, StackLater DEF GoodStack
<1>4. \A w \in bfs[p] : GoodStack(w, lsn')
  BY <1>1, StackLater DEF IInv, ProcOK, GoodStack, Anchored
<1>5. f \in Call /\ f.up = 0 /\ f.halves = halves BY DEF Call
<1> HIDE DEF f
<1>6. GoodCall(f, Len(stack'[p]), min, pages') BY <1>2, <1>5 DEF GoodCall
<1>7. GoodCalls(<<f>>, Len(stack'[p]), min, pages') /\ <<f>> # <<>> /\ Len(<<f>>) = 1
  BY <1>2, <1>6, CallsOne
<1>8. fin'[p] = <<f>> BY DEF f
<1>9. pos[p] \in 1..Len(EntriesOf[row[p]]) BY DEF IInv, ProcOK
<1> QED BY <1>3, <1>4, <1>7, <1>8, <1>9 DEF ProcOK, GoodStack, Splitting, KindOK

LEMMA PlaceDownlinkOK ==
  ASSUME IInv, NEW p \in Inserters, pc[p] \in {"visit", "lockinner"},
         TopPage(p).type = "inner", NEW d \in TopPage(p).items, PlaceDownlink(p, d)
  PROVE  IInv' /\ Grown /\ OthersSame(p)
<1> DEFINE b == Top(p).blk
           N == (TopPage(p).items \ {d}) \cup {[d EXCEPT !.pred = @ \cup {Key(p)}]}
           st == SeenStack(p)
<1>1. /\ pc[p] # "idle" /\ pc[p] \notin Splitting /\ GoodPages(pages, lsn) /\ lsn \in Nat
      /\ b \in Blocks /\ pages[b] = TopPage(p) /\ pages[b].type = "inner"
      /\ pages[b] \in Page /\ GoodPage(pages[b]) /\ Depth(p) \in Nat
      /\ b # Root => Depth(p) >= 2
  BY TopFacts DEF IInv, GoodPages, Splitting, TopPage
<1>2. GoodStack(st, lsn) /\ st \in Seq(Frame) /\ Len(st) = Depth(p) BY <1>1, SeenFacts
<1>3. TuplesFor(b, N)
  <2>1. pages[b].items \subseteq Item /\ \A i \in pages[b].items : i.ptr \in Blocks
    BY <1>1 DEF Page, GoodPage
  <2>2. d \in Item /\ d.ptr \in Blocks BY <1>1, <2>1
  <2>3. /\ [d EXCEPT !.pred = @ \cup {Key(p)}] \in Item
        /\ [d EXCEPT !.pred = @ \cup {Key(p)}].ptr \in Blocks
    BY <1>1, <2>2, EntryFacts DEF Item
  <2> QED BY <1>1, <2>1, <2>3 DEF TuplesFor
<1>4. fin[p] = <<>> BY <1>1, NoCalls
<1>5. /\ lsn' = lsn + 1
      /\ UNCHANGED <<rowst, row, pos, child, bfs, scan, aborts, errs>>
  BY DEF PlaceDownlink
<1>6. CASE /\ Fits(b, N)
           /\ pages' = FitPages(b, N, NoBlock)
           /\ xlock' = Released(p)
           /\ stack' = [stack EXCEPT ![p] = Append(SeenStack(p), NewFrame(d.ptr))]
           /\ NotLocked(p)
           /\ Proceed(p, "visit")
           /\ UNCHANGED <<fin, ret>>
  <2> DEFINE nst == Append(st, NewFrame(d.ptr))
  <2>1. GoodPages(pages', lsn') /\ Written(pages', lsn')
    BY <1>1, <1>3, <1>5, <1>6, FitOK DEF InTree
  <2>2. d.ptr \in Blocks BY <1>1 DEF GoodPage
  <2>3. GoodStack(nst, lsn) /\ nst \in Seq(Frame)
    BY <1>1, <1>2, <2>2, StackPush DEF GoodStack, Anchored
  <2> HIDE DEF nst, N, st
  <2>4. /\ stack' = [stack EXCEPT ![p] = nst] /\ pc' = [pc EXCEPT ![p] = "visit"]
        /\ xheld' = [xheld EXCEPT ![p] = FALSE] /\ xlock' = Released(p)
        /\ fin' = fin /\ ret' = ret
    BY <1>6 DEF Proceed, NotLocked, nst, st
  <2>5. TypeOK' BY <1>5, <2>1, <2>3, <2>4, LockTypes DEF IInv, TypeOK, PCs, GoodPages
  <2>6. Grown /\ OthersSame(p) /\ UNCHANGED scan
    BY <1>5, <2>1, <2>4 DEF Grown, OthersSame, IInv, TypeOK
  <2>7. stack'[p] = nst /\ pc'[p] = "visit" BY <2>4 DEF IInv, TypeOK
  <2>8. ProcOK(p)' BY <1>1, <1>4, <1>5, <2>3, <2>4, <2>6, <2>7, GoesOn DEF KindOK
  <2> QED BY <2>5, <2>6, <2>8, StepOK
<1>7. CASE /\ Overflows(b, N, TRUE) /\ b = Root
           /\ \E P \in Partitions(b, N) : \E blks \in FreshBlocks(Len(P)) :
                pages' = RootSplitPages(P, blks, NoBlock)
           /\ xlock' = Locked(p, {b})
           /\ stack' = [stack EXCEPT ![p] = SeenStack(p)]
           /\ xheld' = [xheld EXCEPT ![p] = TRUE]
           /\ Proceed(p, "visit")
           /\ UNCHANGED <<fin, ret>>
  <2>1. GoodPages(pages', lsn') /\ Written(pages', lsn')
    BY <1>1, <1>3, <1>5, <1>7, RootSplitOK
  <2> HIDE DEF N, st
  <2>4. /\ stack' = [stack EXCEPT ![p] = st] /\ pc' = [pc EXCEPT ![p] = "visit"]
        /\ xheld' = [xheld EXCEPT ![p] = TRUE] /\ xlock' = Locked(p, {b})
        /\ fin' = fin /\ ret' = ret
    BY <1>7 DEF Proceed, st
  <2>5. TypeOK' BY <1>2, <1>5, <2>1, <2>4, LockTypes DEF IInv, TypeOK, PCs, GoodPages
  <2>6. Grown /\ OthersSame(p) /\ UNCHANGED scan
    BY <1>5, <2>1, <2>4 DEF Grown, OthersSame, IInv, TypeOK
  <2>7. stack'[p] = st /\ pc'[p] = "visit" BY <2>4 DEF IInv, TypeOK
  <2>8. ProcOK(p)' BY <1>1, <1>2, <1>4, <1>5, <2>4, <2>6, <2>7, GoesOn DEF KindOK
  <2> QED BY <2>5, <2>6, <2>8, StepOK
<1>8. CASE /\ Overflows(b, N, TRUE) /\ b # Root
           /\ \E P \in Partitions(b, N) : \E new \in FreshBlocks(Len(P) - 1) :
                LET blks == <<b>> \o new IN
                /\ pages' = SplitPages(b, P, blks, NoBlock)
                /\ xlock' = Locked(p, {blks[i] : i \in DOMAIN blks})
                /\ StartFinish(p, P, blks, "inner")
           /\ stack' = [stack EXCEPT ![p] = SeenStack(p)]
  <2>1. PICK P \in Partitions(b, N) : \E new \in FreshBlocks(Len(P) - 1) :
                LET blks == <<b>> \o new IN
                /\ pages' = SplitPages(b, P, blks, NoBlock)
                /\ xlock' = Locked(p, {blks[i] : i \in DOMAIN blks})
                /\ StartFinish(p, P, blks, "inner")
    BY <1>8
  <2>2. PICK new \in FreshBlocks(Len(P) - 1) :
                LET blks == <<b>> \o new IN
                /\ pages' = SplitPages(b, P, blks, NoBlock)
                /\ xlock' = Locked(p, {blks[i] : i \in DOMAIN blks})
                /\ StartFinish(p, P, blks, "inner")
    BY <2>1
  <2> DEFINE blks == <<b>> \o new
             halves == HalvesOf(P, blks)
             f == [up |-> 0, halves |-> halves, unlock |-> FALSE, locked |-> FALSE]
  <2>3. /\ GoodPages(pages', lsn') /\ Written(pages', lsn')
        /\ halves \in Seq(Half) /\ Len(halves) >= 2
        /\ \A h \in 1..Len(halves) : InUse(halves[h].blk, pages')
    BY <1>1, <1>3, <1>5, <1>8, <2>2, SplitOK DEF InTree
  <2>4. f \in Call BY <2>3 DEF Call
  <2> HIDE DEF N, st, halves, blks
  <2>5. /\ stack' = [stack EXCEPT ![p] = st] /\ pc' = [pc EXCEPT ![p] = "finish"]
        /\ xheld' = [xheld EXCEPT ![p] = TRUE]
        /\ xlock' = Locked(p, {blks[i] : i \in DOMAIN blks})
        /\ fin' = [fin EXCEPT ![p] = <<f>>] /\ ret' = [ret EXCEPT ![p] = "inner"]
    BY <1>8, <2>2 DEF Proceed, StartFinish, st, halves, blks
  <2>6. xlock' \in [Blocks -> Lockers \cup {NoProc}] BY <2>5, LockTypes
  <2>7. <<f>> \in Seq(Call) BY <2>4
  <2>8. stack'[p] = st /\ pc'[p] = "finish" /\ fin'[p] = <<f>> BY <2>5 DEF IInv, TypeOK
  <2> HIDE DEF f
  <2>9. TypeOK' BY <1>2, <1>5, <2>3, <2>5, <2>6, <2>7 DEF IInv, TypeOK, PCs, GoodPages
  <2>10. Grown /\ OthersSame(p) /\ UNCHANGED scan
    BY <1>5, <2>3, <2>5 DEF Grown, OthersSame, IInv, TypeOK
  <2>11. ProcOK(p)'
    BY <1>1, <1>2, <1>5, <1>8, <2>3, <2>8, <2>10, StartsOK DEF f
  <2> QED BY <2>9, <2>10, <2>11, StepOK
<1> QED BY <1>6, <1>7, <1>8 DEF PlaceDownlink

LEMMA PlaceEntryOK ==
  ASSUME IInv, NEW p \in Inserters, pc[p] \in {"visit", "lockleaf"},
         TopPage(p).type = "leaf", PlaceEntry(p)
  PROVE  IInv' /\ Grown /\ OthersSame(p)
<1> DEFINE b == Top(p).blk
           N == TopPage(p).items \cup {LeafItem(EntriesOf[row[p]][pos[p]])}
           st == SeenStack(p)
<1>1. /\ pc[p] # "idle" /\ pc[p] \notin Splitting /\ GoodPages(pages, lsn) /\ lsn \in Nat
      /\ b \in Blocks /\ pages[b] = TopPage(p) /\ pages[b].type = "leaf"
      /\ pages[b] \in Page /\ GoodPage(pages[b]) /\ Depth(p) \in Nat
      /\ b # Root => Depth(p) >= 2
  BY TopFacts DEF IInv, GoodPages, Splitting, TopPage
<1>2. GoodStack(st, lsn) /\ st \in Seq(Frame) /\ Len(st) = Depth(p) BY <1>1, SeenFacts
<1>3. TuplesFor(b, N)
  <2>1. pages[b].items \subseteq Item /\ \A i \in pages[b].items : i.ptr \in Entries
    BY <1>1 DEF Page, GoodPage
  <2>2. ASSUME NEW e \in Entries PROVE LeafItem(e) \in Item /\ LeafItem(e).ptr \in Entries
    BY RowsAssumption DEF LeafItem, Item
  <2>3. EntriesOf[row[p]][pos[p]] \in Entries BY <1>1, EntryFacts
  <2> QED BY <1>1, <2>1, <2>2, <2>3 DEF TuplesFor
<1>4. fin[p] = <<>> BY <1>1, NoCalls
<1>5. lsn' = lsn + 1 /\ UNCHANGED <<child, bfs, scan, aborts, errs>>
  BY DEF PlaceEntry
\* The entry is in; the page was changed in place, or it was the root and is split.
<1>6. ASSUME GoodPages(pages', lsn'), Written(pages', lsn'), EntryDone(p), UNCHANGED <<fin, ret>>
      PROVE  IInv' /\ Grown /\ OthersSame(p)
  <2>1. Grown BY <1>5, <1>6 DEF Grown
  <2>2. /\ ProcOK(p)' /\ OthersSame(p)
        /\ xlock' \in [Blocks -> Lockers \cup {NoProc}]
        /\ rowst' \in [Rows -> {"absent", "inserting", "present", "aborted", "dead"}]
        /\ pc' \in [Inserters -> PCs]
        /\ row' \in [Inserters -> Rows]
        /\ pos' \in [Inserters -> Nat]
        /\ stack' \in [Inserters -> Seq(Frame)]
        /\ xheld' \in [Inserters -> BOOLEAN]
    BY <1>1, <1>4, <1>5, <1>6, <2>1, EntryDoneOK
  <2>3. TypeOK' BY <1>5, <1>6, <2>2 DEF IInv, TypeOK, GoodPages
  <2> QED BY <1>5, <2>1, <2>2, <2>3, StepOK
<1>7. CASE /\ Fits(b, N)
           /\ pages' = FitPages(b, N, NoBlock)
           /\ EntryDone(p)
           /\ UNCHANGED <<fin, ret>>
  <2>1. GoodPages(pages', lsn') /\ Written(pages', lsn')
    BY <1>1, <1>3, <1>5, <1>7, FitOK DEF InTree
  <2> QED BY <1>6, <1>7, <2>1
<1>8. CASE /\ Overflows(b, N, FALSE) /\ b = Root
           /\ \E P \in Partitions(b, N) : \E blks \in FreshBlocks(Len(P)) :
                pages' = RootSplitPages(P, blks, NoBlock)
           /\ EntryDone(p)
           /\ UNCHANGED <<fin, ret>>
  <2>1. GoodPages(pages', lsn') /\ Written(pages', lsn')
    BY <1>1, <1>3, <1>5, <1>8, RootSplitOK
  <2> QED BY <1>6, <1>8, <2>1
<1>9. CASE /\ Overflows(b, N, FALSE) /\ b # Root
           /\ \E P \in Partitions(b, N) : \E new \in FreshBlocks(Len(P) - 1) :
                LET blks == <<b>> \o new IN
                /\ pages' = SplitPages(b, P, blks, NoBlock)
                /\ xlock' = Locked(p, {blks[i] : i \in DOMAIN blks})
                /\ StartFinish(p, P, blks, "leaf")
           /\ stack' = [stack EXCEPT ![p] = SeenStack(p)]
           /\ UNCHANGED <<rowst, row, pos>>
  <2>1. PICK P \in Partitions(b, N) : \E new \in FreshBlocks(Len(P) - 1) :
                LET blks == <<b>> \o new IN
                /\ pages' = SplitPages(b, P, blks, NoBlock)
                /\ xlock' = Locked(p, {blks[i] : i \in DOMAIN blks})
                /\ StartFinish(p, P, blks, "leaf")
    BY <1>9
  <2>2. PICK new \in FreshBlocks(Len(P) - 1) :
                LET blks == <<b>> \o new IN
                /\ pages' = SplitPages(b, P, blks, NoBlock)
                /\ xlock' = Locked(p, {blks[i] : i \in DOMAIN blks})
                /\ StartFinish(p, P, blks, "leaf")
    BY <2>1
  <2> DEFINE blks == <<b>> \o new
             halves == HalvesOf(P, blks)
             f == [up |-> 0, halves |-> halves, unlock |-> FALSE, locked |-> FALSE]
  <2>3. /\ GoodPages(pages', lsn') /\ Written(pages', lsn')
        /\ halves \in Seq(Half) /\ Len(halves) >= 2
        /\ \A h \in 1..Len(halves) : InUse(halves[h].blk, pages')
    BY <1>1, <1>3, <1>5, <1>9, <2>2, SplitOK DEF InTree
  <2>4. f \in Call BY <2>3 DEF Call
  <2> HIDE DEF N, st, halves, blks
  <2>5. /\ stack' = [stack EXCEPT ![p] = st] /\ pc' = [pc EXCEPT ![p] = "finish"]
        /\ xheld' = [xheld EXCEPT ![p] = TRUE]
        /\ xlock' = Locked(p, {blks[i] : i \in DOMAIN blks})
        /\ fin' = [fin EXCEPT ![p] = <<f>>] /\ ret' = [ret EXCEPT ![p] = "leaf"]
        /\ UNCHANGED <<rowst, row, pos>>
    BY <1>9, <2>2 DEF Proceed, StartFinish, st, halves, blks
  <2>6. xlock' \in [Blocks -> Lockers \cup {NoProc}] BY <2>5, LockTypes
  <2>7. <<f>> \in Seq(Call) BY <2>4
  <2>8. stack'[p] = st /\ pc'[p] = "finish" /\ fin'[p] = <<f>> BY <2>5 DEF IInv, TypeOK
  <2> HIDE DEF f
  <2>9. TypeOK' BY <1>2, <1>5, <2>3, <2>5, <2>6, <2>7 DEF IInv, TypeOK, PCs, GoodPages
  <2>10. Grown /\ OthersSame(p) /\ UNCHANGED scan
    BY <1>5, <2>3, <2>5 DEF Grown, OthersSame, IInv, TypeOK
  <2>11. ProcOK(p)'
    BY <1>1, <1>2, <1>5, <1>9, <2>3, <2>5, <2>8, <2>10, StartsOK DEF f
  <2> QED BY <2>9, <2>10, <2>11, StepOK
<1> QED BY <1>7, <1>8, <1>9 DEF PlaceEntry

\* A backend that only changes its stack, its label and who holds the top page.
LEMMA MovesOn ==
  ASSUME IInv, NEW p \in Inserters, pc[p] \notin Splitting \cup {"idle"},
         NEW st \in Seq(Frame), GoodStack(st, lsn), stack' = [stack EXCEPT ![p] = st],
         NEW label \in {"visit", "lockfix", "lockinner", "lockleaf"},
         pc' = [pc EXCEPT ![p] = label], KindOK(label, st, pages),
         xlock' \in [Blocks -> Lockers \cup {NoProc}],
         xheld' \in [Inserters -> BOOLEAN], child' \in [Inserters -> Blocks],
         UNCHANGED <<pages, lsn, rowst, row, pos, fin, ret, bfs, scan, aborts, errs>>
  PROVE  IInv' /\ Grown /\ OthersSame(p)
<1>1. TypeOK' BY DEF IInv, TypeOK, PCs
<1>2. Grown /\ OthersSame(p) /\ UNCHANGED scan BY DEF Grown, OthersSame, IInv, TypeOK
<1>3. fin[p] = <<>> BY NoCalls
<1>4. stack'[p] = st /\ pc'[p] = label BY DEF IInv, TypeOK
<1>5. ProcOK(p)' BY <1>2, <1>3, <1>4, GoesOn
<1> QED BY <1>1, <1>2, <1>5, StepOK

LEMMA VisitAdjustOK == ASSUME IInv, NEW p \in Inserters, VisitAdjust(p) PROVE IInv' /\ Grown /\ OthersSame(p)
<1>1. pc[p] = "visit" /\ TopPage(p).type = "inner" BY DEF VisitAdjust, Visiting
<1>2. PICK d \in TopPage(p).items :
        \/ xheld[p] /\ PlaceDownlink(p, d)
        \/ /\ ~xheld[p]
           /\ child' = [child EXCEPT ![p] = d.ptr]
           /\ stack' = [stack EXCEPT ![p] = SeenStack(p)]
           /\ Proceed(p, "lockinner")
           /\ UNCHANGED <<treeVars, rowst, row, pos, xheld, fin, ret, bfs, scan,
                          aborts, errs>>
  BY DEF VisitAdjust
<1>3. CASE PlaceDownlink(p, d) BY <1>1, <1>3, PlaceDownlinkOK
<1>4. CASE /\ child' = [child EXCEPT ![p] = d.ptr]
           /\ stack' = [stack EXCEPT ![p] = SeenStack(p)]
           /\ Proceed(p, "lockinner")
           /\ UNCHANGED <<treeVars, rowst, row, pos, xheld, fin, ret, bfs, scan,
                          aborts, errs>>
  <2>1. d.ptr \in Blocks BY <1>1, TopFacts DEF GoodPage
  <2>2. GoodStack(SeenStack(p), lsn) /\ SeenStack(p) \in Seq(Frame) BY <1>1, SeenFacts
  <2>3. /\ xlock' \in [Blocks -> Lockers \cup {NoProc}] /\ xheld' \in [Inserters -> BOOLEAN]
        /\ child' \in [Inserters -> Blocks]
    BY <1>4, <2>1 DEF IInv, TypeOK, treeVars
  <2>4. KindOK("lockinner", SeenStack(p), pages) BY <1>1, SeenKind DEF KindOK
  <2> QED BY <1>1, <1>4, <2>2, <2>3, <2>4, MovesOn DEF Proceed, treeVars, Splitting
<1> QED BY <1>2, <1>3, <1>4

LEMMA LockInnerOK == ASSUME IInv, NEW p \in Inserters, LockInner(p) PROVE IInv' /\ Grown /\ OthersSame(p)
<1>1. pc[p] = "lockinner" BY DEF LockInner
<1>2. CASE /\ xlock' = Locked(p, {Top(p).blk})
           /\ xheld' = [xheld EXCEPT ![p] = TRUE]
           /\ Proceed(p, "visit")
           /\ UNCHANGED <<pages, lsn, rowst, row, pos, stack, child, fin, ret, bfs, scan,
                          aborts, errs>>
  <2>1. GoodStack(stack[p], lsn) /\ stack[p] \in Seq(Frame) BY <1>1, TopFacts
  <2>2. stack' = [stack EXCEPT ![p] = stack[p]] BY <1>2 DEF IInv, TypeOK
  <2>3. /\ xlock' \in [Blocks -> Lockers \cup {NoProc}] /\ xheld' \in [Inserters -> BOOLEAN]
        /\ child' \in [Inserters -> Blocks]
    BY <1>2, LockTypes DEF IInv, TypeOK
  <2>4. KindOK("visit", stack[p], pages) BY DEF KindOK
  <2> QED BY <1>1, <1>2, <2>1, <2>2, <2>3, <2>4, MovesOn DEF Proceed, Splitting
<1>3. CASE \E d \in TopPage(p).items : d.ptr = child[p] /\ PlaceDownlink(p, d)
  <2>1. PICK d \in TopPage(p).items : d.ptr = child[p] /\ PlaceDownlink(p, d) BY <1>3
  <2>2. TopPage(p).type = "inner" BY <1>1 DEF IInv, ProcOK, KindOK, TopPage, Top, Depth
  <2> QED BY <1>1, <2>1, <2>2, PlaceDownlinkOK
<1> QED BY <1>2, <1>3 DEF LockInner

LEMMA VisitLeafOK == ASSUME IInv, NEW p \in Inserters, VisitLeaf(p) PROVE IInv' /\ Grown /\ OthersSame(p)
<1>1. pc[p] = "visit" /\ TopPage(p).type = "leaf" BY DEF VisitLeaf, Visiting
<1>2. CASE PlaceEntry(p) BY <1>1, <1>2, PlaceEntryOK
<1>3. CASE /\ stack' = [stack EXCEPT ![p] = SeenStack(p)]
           /\ Proceed(p, "lockleaf")
           /\ UNCHANGED <<treeVars, rowst, row, pos, xheld, child, fin, ret, bfs, scan,
                          aborts, errs>>
  <2>1. GoodStack(SeenStack(p), lsn) /\ SeenStack(p) \in Seq(Frame) BY <1>1, SeenFacts
  <2>2. /\ xlock' \in [Blocks -> Lockers \cup {NoProc}] /\ xheld' \in [Inserters -> BOOLEAN]
        /\ child' \in [Inserters -> Blocks]
    BY <1>3 DEF IInv, TypeOK, treeVars
  <2>3. KindOK("lockleaf", SeenStack(p), pages) BY <1>1, SeenKind DEF KindOK
  <2> QED BY <1>1, <1>3, <2>1, <2>2, <2>3, MovesOn DEF Proceed, treeVars, Splitting
<1> QED BY <1>2, <1>3 DEF VisitLeaf

LEMMA LockLeafOK == ASSUME IInv, NEW p \in Inserters, LockLeaf(p) PROVE IInv' /\ Grown /\ OthersSame(p)
<1>1. pc[p] = "lockleaf" BY DEF LockLeaf
<1>2. /\ xlock \in [Blocks -> Lockers \cup {NoProc}] /\ xheld \in [Inserters -> BOOLEAN]
      /\ child \in [Inserters -> Blocks]
  BY DEF IInv, TypeOK
<1>3. CASE /\ Proceed(p, "visit")
           /\ stack' = [stack EXCEPT ![p] = SeenStack(p)]
           /\ UNCHANGED <<treeVars, rowst, row, pos, xheld, child, fin, ret, bfs, scan,
                          aborts, errs>>
  <2>1. GoodStack(SeenStack(p), lsn) /\ SeenStack(p) \in Seq(Frame) BY <1>1, SeenFacts
  <2>2. KindOK("visit", SeenStack(p), pages) BY DEF KindOK
  <2> QED BY <1>1, <1>2, <1>3, <2>1, <2>2, MovesOn DEF Proceed, treeVars, Splitting
<1>4. CASE /\ Top(p).blk # Root
           /\ PopTo(p)
           /\ Proceed(p, "visit")
           /\ UNCHANGED <<treeVars, rowst, row, pos, xheld, child, fin, ret, bfs, scan,
                          aborts, errs>>
  <2> DEFINE st == SubSeq(stack[p], 1, Depth(p) - 1)
  <2>1. GoodStack(stack[p], lsn) /\ lsn \in Nat /\ Depth(p) >= 2 BY <1>1, <1>4, TopFacts
  <2>2. GoodStack(st, lsn) BY <2>1, StackPop DEF Depth
  <2>3. stack' = [stack EXCEPT ![p] = st] BY <1>4 DEF PopTo
  <2> HIDE DEF st
  <2>4. st \in Seq(Frame) BY <2>2 DEF GoodStack, Anchored
  <2>5. KindOK("visit", st, pages) BY DEF KindOK
  <2> QED BY <1>1, <1>2, <1>4, <2>2, <2>3, <2>4, <2>5, MovesOn DEF Proceed, treeVars, Splitting
<1>5. CASE /\ IF Top(p).blk = Root THEN TopPage(p).type = "leaf" ELSE ~LeafMoved(p)
           /\ PlaceEntry(p)
  <2>1. TopPage(p).type = "leaf" \/ Top(p).blk = Root
    BY <1>1, <1>5 DEF IInv, ProcOK, KindOK, TopPage, Top, Depth, LeafMoved, Stale
  <2> QED BY <1>1, <1>5, <2>1, PlaceEntryOK
<1> QED BY <1>3, <1>4, <1>5 DEF LockLeaf

\* A backend that meets an unfinished split takes it over.
LEMMA StartFixOK ==
  ASSUME IInv, NEW p \in Inserters, pc[p] \in {"visit", "lockfix"}, TopPage(p).follow,
         NEW st \in Seq(Frame), GoodStack(st, lsn), Len(st) = Depth(p),
         stack' = [stack EXCEPT ![p] = st], StartFix(p),
         xlock' \in [Blocks -> Lockers \cup {NoProc}], xheld' \in [Inserters -> BOOLEAN],
         UNCHANGED <<pages, lsn, rowst, row, pos, child, bfs, scan, aborts, errs>>
  PROVE  IInv' /\ Grown /\ OthersSame(p)
<1> DEFINE b == Top(p).blk
           hs == <<HalfAt(b)>>
           f == [up |-> 0, halves |-> hs, unlock |-> FALSE, locked |-> FALSE]
<1>1. /\ pc[p] \notin Splitting \cup {"idle"} /\ b \in Blocks /\ TopPage(p) \in Page
      /\ TopPage(p) = pages[b] /\ Depth(p) \in Nat
      /\ b # Root => Depth(p) >= 2
  BY TopFacts DEF Splitting, TopPage
<1>2. b # Root BY <1>1 DEF IInv, GoodPages
<1>3. pages[b].type \in InTree
  BY <1>1 DEF IInv, GoodPages, GoodPage, Page, InTree
<1>4. HalfAt(b) \in Half /\ HalfAt(b).blk = b
  <2>1. pages[b].items \subseteq Item BY <1>1 DEF Page
  <2>2. UnionOf(pages[b].items) \in SUBSET Keys BY <2>1 DEF UnionOf, Item
  <2> QED BY <1>1, <2>2 DEF HalfAt, Half
<1>5. hs \in Seq(Half) /\ Len(hs) = 1 /\ hs[1] = HalfAt(b) BY <1>4
<1> HIDE DEF hs, b
<1>6. \A h \in 1..Len(hs) : InUse(hs[h].blk, pages) BY <1>2, <1>3, <1>4, <1>5 DEF InUse
<1>7. f \in Call BY <1>5 DEF Call
<1>8. <<f>> \in Seq(Call) BY <1>7
<1>9. /\ fin' = [fin EXCEPT ![p] = <<f>>] /\ ret' = [ret EXCEPT ![p] = "fix"]
      /\ pc' = [pc EXCEPT ![p] = "fixchain"]
  BY DEF StartFix, Proceed, hs, b
<1>10. stack'[p] = st /\ pc'[p] = "fixchain" /\ fin'[p] = <<f>> BY <1>9 DEF IInv, TypeOK
<1>11. Grown /\ OthersSame(p) /\ UNCHANGED scan BY <1>9 DEF Grown, OthersSame, IInv, TypeOK
<1>14. \A h \in 1..Len(hs) : InUse(hs[h].blk, pages') BY <1>6
<1>15. GoodStack(stack'[p], lsn) /\ Len(stack'[p]) >= 2 /\ Len(hs) >= 1
  BY <1>1, <1>2, <1>5, <1>10
<1>17. RightUsed(hs[Len(hs)].blk, pages')
  BY <1>1, <1>3, <1>4, <1>5 DEF RightUsed, IInv, GoodPages
<1>16. /\ pc[p] \notin Splitting \cup {"idle"} /\ hs \in Seq(Half) /\ Grown
       /\ row'[p] = row[p] /\ pos'[p] = pos[p] /\ bfs'[p] = bfs[p]
  BY <1>1, <1>5, <1>11
<1>12. ProcOK(p)' BY <1>10, <1>14, <1>15, <1>16, <1>17, StartsOK
<1> HIDE DEF f
<1>13. TypeOK' BY <1>8, <1>9 DEF IInv, TypeOK, PCs
<1> QED BY <1>11, <1>12, <1>13, StepOK

LEMMA VisitFollowOK == ASSUME IInv, NEW p \in Inserters, VisitFollow(p) PROVE IInv' /\ Grown /\ OthersSame(p)
<1>1. /\ pc[p] = "visit" /\ TopPage(p).follow /\ stack' = [stack EXCEPT ![p] = SeenStack(p)]
      /\ UNCHANGED <<treeVars, rowst, row, pos, xheld, child, bfs, scan, aborts, errs>>
      /\ StartFix(p) \/ (Proceed(p, "lockfix") /\ UNCHANGED <<fin, ret>>)
  BY DEF VisitFollow, Visiting
<1>2. /\ GoodStack(SeenStack(p), lsn) /\ SeenStack(p) \in Seq(Frame)
      /\ Len(SeenStack(p)) = Depth(p)
  BY <1>1, SeenFacts
<1>3. /\ xlock' \in [Blocks -> Lockers \cup {NoProc}] /\ xheld' \in [Inserters -> BOOLEAN]
      /\ child' \in [Inserters -> Blocks]
  BY <1>1 DEF IInv, TypeOK, treeVars
<1>4. CASE StartFix(p) BY <1>1, <1>2, <1>3, <1>4, StartFixOK DEF treeVars
<1>5. CASE Proceed(p, "lockfix") /\ UNCHANGED <<fin, ret>>
  <2>1. KindOK("lockfix", SeenStack(p), pages) BY DEF KindOK
  <2> QED BY <1>1, <1>2, <1>3, <1>5, <2>1, MovesOn DEF Proceed, treeVars, Splitting
<1> QED BY <1>1, <1>4, <1>5

LEMMA LockFixOK == ASSUME IInv, NEW p \in Inserters, LockFix(p) PROVE IInv' /\ Grown /\ OthersSame(p)
<1>1. /\ pc[p] = "lockfix" /\ xlock' = Locked(p, {Top(p).blk})
      /\ xheld' = [xheld EXCEPT ![p] = TRUE]
      /\ IF TopPage(p).follow THEN StartFix(p)
         ELSE Proceed(p, "visit") /\ UNCHANGED <<fin, ret>>
      /\ UNCHANGED <<pages, lsn, rowst, row, pos, stack, child, bfs, scan, aborts, errs>>
  BY DEF LockFix
<1>2. GoodStack(stack[p], lsn) /\ stack[p] \in Seq(Frame) /\ Len(stack[p]) = Depth(p)
  BY <1>1, TopFacts DEF Depth
<1>3. stack' = [stack EXCEPT ![p] = stack[p]] BY <1>1 DEF IInv, TypeOK
<1>4. /\ xlock' \in [Blocks -> Lockers \cup {NoProc}] /\ xheld' \in [Inserters -> BOOLEAN]
      /\ child' \in [Inserters -> Blocks]
  BY <1>1, LockTypes DEF IInv, TypeOK
<1>5. CASE TopPage(p).follow BY <1>1, <1>2, <1>3, <1>4, <1>5, StartFixOK
<1>6. CASE ~TopPage(p).follow
  <2>1. KindOK("visit", stack[p], pages) BY DEF KindOK
  <2> QED BY <1>1, <1>2, <1>3, <1>4, <1>6, <2>1, MovesOn DEF Proceed, Splitting
<1> QED BY <1>5, <1>6

\* The innermost call of mgistfinishsplit, its child and its parent.
LEMMA CallFacts ==
  ASSUME IInv, NEW p \in Inserters, pc[p] \in Splitting
  PROVE  LET f == fin[p][1] IN
         /\ fin[p] # <<>> /\ fin[p] \in Seq(Call) /\ Len(fin[p]) \in Nat /\ Len(fin[p]) >= 1
         /\ GoodCalls(fin[p], Depth(p), IF pc[p] = "fixchain" THEN 1 ELSE 2, pages)
         /\ GoodCall(f, Depth(p), IF pc[p] = "fixchain" THEN 1 ELSE 2, pages)
         /\ f \in Call /\ f.up \in Nat /\ f.halves \in Seq(Half) /\ Len(f.halves) \in Nat
         /\ Len(f.halves) >= IF pc[p] = "fixchain" THEN 1 ELSE 2
         /\ \A h \in 1..Len(f.halves) : f.halves[h] \in Half /\ f.halves[h].blk \in Blocks
                                        /\ InUse(f.halves[h].blk, pages)
         /\ GoodStack(stack[p], lsn) /\ stack[p] \in Seq(Frame) /\ Depth(p) \in Nat
         /\ ChildIx(p) \in 2..Depth(p) /\ ParentIx(p) \in 1..Depth(p)
         /\ ParentIx(p) + 1 = ChildIx(p)
         /\ ChildBlk(p) \in Blocks /\ ParentBlk(p) \in Blocks
         /\ ParentBlk(p) # Root => ParentIx(p) >= 2
<1> DEFINE f == fin[p][1]
           min == IF pc[p] = "fixchain" THEN 1 ELSE 2
<1>1. /\ fin[p] # <<>> /\ fin[p] \in Seq(Call) /\ Len(fin[p]) \in Nat /\ Len(fin[p]) >= 1
      /\ GoodCalls(fin[p], Depth(p), min, pages)
  BY DEF IInv, ProcOK, GoodCalls, Depth
<1>2. GoodCall(f, Depth(p), min, pages) BY <1>1 DEF GoodCalls
<1>3. pc[p] # "idle" BY DEF Splitting
<1>4. /\ GoodStack(stack[p], lsn) /\ stack[p] \in Seq(Frame) /\ Depth(p) \in Nat
      /\ Depth(p) = Len(stack[p]) /\ stack[p][1].blk = Root
  BY <1>3, TopFacts DEF Depth, GoodStack, Anchored
<1> HIDE DEF min
<1>5. /\ f \in Call /\ f.up \in Nat /\ f.halves \in Seq(Half) /\ Len(f.halves) \in Nat
      /\ f.up + 2 <= Depth(p) /\ Len(f.halves) >= min
  BY <1>2, CallType DEF GoodCall
<1>6. \A h \in 1..Len(f.halves) : f.halves[h] \in Half /\ f.halves[h].blk \in Blocks
                                   /\ InUse(f.halves[h].blk, pages)
  <2> TAKE h \in 1..Len(f.halves)
  <2>1. f.halves[h] \in Half BY <1>5
  <2>2. f.halves[h].blk \in Blocks BY <2>1 DEF Half
  <2> QED BY <1>2, <2>1, <2>2 DEF GoodCall
<1>7. /\ ChildIx(p) = Depth(p) - f.up /\ ParentIx(p) = Depth(p) - f.up - 1
      /\ ChildBlk(p) = stack[p][ChildIx(p)].blk /\ ParentBlk(p) = stack[p][ParentIx(p)].blk
  BY DEF ChildIx, ParentIx, ChildBlk, ParentBlk
<1> HIDE DEF f
<1>8. /\ ChildIx(p) \in 2..Depth(p) /\ ParentIx(p) \in 1..Depth(p)
      /\ ParentIx(p) + 1 = ChildIx(p)
  BY <1>4, <1>5, <1>7
<1>9. stack[p][ChildIx(p)] \in Frame /\ stack[p][ParentIx(p)] \in Frame BY <1>4, <1>8
<1>10. ChildBlk(p) \in Blocks /\ ParentBlk(p) \in Blocks BY <1>7, <1>9 DEF Frame
<1>11. ParentIx(p) = 1 => ParentBlk(p) = Root BY <1>4, <1>7
<1> QED BY <1>1, <1>2, <1>4, <1>5, <1>6, <1>8, <1>10, <1>11 DEF f, min

\* A step inside mgistfinishsplit that keeps the row and the searched paths.
LEMMA CallsGoOn ==
  ASSUME IInv, NEW p \in Inserters, pc[p] \in Splitting, Grown,
         GoodStack(stack'[p], lsn),
         NEW min \in {1, 2}, GoodCalls(fin'[p], Len(stack'[p]), min, pages'),
         \/ /\ pc'[p] \in {"finish", "findpath"} /\ min = 2 /\ fin'[p] # <<>>
         \/ /\ pc'[p] = "fixchain" /\ min = 1 /\ fin'[p] # <<>> /\ Len(fin'[p]) = 1
         \/ /\ pc'[p] = "return" /\ fin'[p] = <<>> /\ Len(stack'[p]) >= 2,
         row'[p] = row[p], pos'[p] = pos[p],
         \A w \in bfs'[p] : GoodStack(w, lsn)
  PROVE  ProcOK(p)'
<1>1. lsn \in Nat /\ lsn' \in Nat /\ lsn <= lsn' BY GrownFacts DEF IInv
<1>2. stack'[p] \in Seq(Frame) /\ Len(stack'[p]) \in Nat BY DEF GoodStack, Anchored
<1>3. GoodStack(stack'[p], lsn') BY <1>1, <1>2, StackLater DEF GoodStack
<1>4. \A w \in bfs'[p] : GoodStack(w, lsn')
  BY <1>1, StackLater DEF GoodStack, Anchored
<1>5. pos[p] \in 1..Len(EntriesOf[row[p]]) BY DEF IInv, ProcOK, Splitting
<1>6. pc'[p] = "return" => GoodCalls(fin'[p], Len(stack'[p]), 2, pages')
  BY <1>2, CallsNone
<1> QED BY <1>3, <1>4, <1>5, <1>6 DEF ProcOK, GoodStack, Splitting, KindOK

LEMMA FixChainOK == ASSUME IInv, NEW p \in Inserters, FixChain(p) PROVE IInv' /\ Grown /\ OthersSame(p)
<1> DEFINE f == fin[p][1]
           last == f.halves[Len(f.halves)].blk
           r == pages[last].right
           g == [f EXCEPT !.halves = Append(@, HalfAt(r))]
           label == IF pages[r].follow THEN "fixchain" ELSE "finish"
           m == IF pages[r].follow THEN 1 ELSE 2
<1>1. /\ pc[p] = "fixchain" /\ r \in Blocks /\ xlock' = Locked(p, {r})
      /\ fin' = [fin EXCEPT ![p][1].halves = Append(@, HalfAt(r))]
      /\ IF pages[r].follow THEN UNCHANGED pc ELSE Proceed(p, "finish")
      /\ UNCHANGED <<pages, lsn, rowst, row, pos, stack, xheld, child, ret, bfs, scan,
                     aborts, errs>>
  BY DEF FixChain
<1>2. pc[p] \in Splitting BY <1>1 DEF Splitting
<1>3. /\ fin[p] # <<>> /\ fin[p] \in Seq(Call) /\ GoodCalls(fin[p], Depth(p), 1, pages)
      /\ f \in Call /\ f.up \in Nat /\ f.up + 2 <= Depth(p)
      /\ f.halves \in Seq(Half) /\ Len(f.halves) \in Nat /\ Len(f.halves) >= 1
      /\ \A h \in 1..Len(f.halves) : f.halves[h].blk \in Blocks /\ InUse(f.halves[h].blk, pages)
      /\ GoodStack(stack[p], lsn) /\ Depth(p) \in Nat
  BY <1>1, <1>2, CallFacts DEF GoodCall
<1>4. last \in Blocks BY <1>3
<1>27. RightUsed(last, pages)
  BY <1>1, <1>2, CallFacts DEF GoodCall
<1>5. InUse(r, pages)
  BY <1>1, <1>4, <1>27, BlocksAssumption DEF IInv, GoodPages, GoodPage, InUse, RightUsed
<1>28. pages[r].follow => RightUsed(r, pages)
  BY <1>1, <1>5 DEF IInv, GoodPages, InUse, RightUsed
<1>6. HalfAt(r) \in Half /\ HalfAt(r).blk = r
  <2>1. pages[r].items \subseteq Item BY <1>1 DEF IInv, TypeOK, Page
  <2>2. UnionOf(pages[r].items) \in SUBSET Keys BY <2>1 DEF UnionOf, Item
  <2> QED BY <1>1, <2>2 DEF HalfAt, Half
<1>7. fin' = [fin EXCEPT ![p] = [fin[p] EXCEPT ![1] = g]] BY <1>1
<1> HIDE DEF r, last, f
<1>8. /\ Append(f.halves, HalfAt(r)) \in Seq(Half)
      /\ Len(Append(f.halves, HalfAt(r))) = Len(f.halves) + 1
      /\ \A h \in 1..Len(f.halves) : Append(f.halves, HalfAt(r))[h] = f.halves[h]
      /\ Append(f.halves, HalfAt(r))[Len(f.halves) + 1] = HalfAt(r)
  BY <1>3, <1>6, AppendProperties
<1>9. g \in Call /\ g.up = f.up /\ g.halves = Append(f.halves, HalfAt(r))
  BY <1>3, <1>8 DEF Call
<1> HIDE DEF g
<1>10. \A h \in 1..Len(g.halves) : InUse(g.halves[h].blk, pages)
  <2> TAKE h \in 1..Len(g.halves)
  <2>1. CASE h \in 1..Len(f.halves) BY <2>1, <1>3, <1>8, <1>9
  <2>2. CASE h = Len(f.halves) + 1 BY <2>2, <1>5, <1>6, <1>8, <1>9
  <2> QED BY <2>1, <2>2, <1>3, <1>8, <1>9
<1>29. g.halves[Len(g.halves)].blk = r BY <1>3, <1>6, <1>8, <1>9
<1>11. m \in {1, 2} /\ GoodCall(g, Depth(p), m, pages)
  BY <1>3, <1>8, <1>9, <1>10, <1>28, <1>29 DEF GoodCall
<1>12. Len(fin[p]) = 1 BY <1>1 DEF IInv, ProcOK
<1> DEFINE fs == [fin[p] EXCEPT ![1] = g]
<1>13. g.up = fin[p][1].up BY <1>9 DEF f
<1> HIDE DEF m
<1>14. GoodCalls(fs, Depth(p), m, pages) /\ fs # <<>>
  BY <1>3, <1>11, <1>12, <1>13, CallsUpdate
<1>15. fs \in Seq(Call) /\ Len(fs) = 1
  BY <1>3, <1>9, <1>12, ExceptSeq
<1> HIDE DEF fs
<1>16. fin' = [fin EXCEPT ![p] = fs] BY <1>7 DEF fs
<1>17. pc' = [pc EXCEPT ![p] = label] BY <1>1 DEF Proceed, IInv, TypeOK
<1>22. (label = "fixchain" /\ m = 1) \/ (label = "finish" /\ m = 2) BY DEF m
<1> HIDE DEF label
<1>24. xlock' \in [Blocks -> Lockers \cup {NoProc}] BY <1>1, LockTypes
<1>25. UNCHANGED <<pages, lsn, rowst, row, pos, stack, xheld, child, ret, bfs, scan,
                   aborts, errs>>
  BY <1>1
<1>26. label \in PCs BY <1>22 DEF PCs
<1>18. TypeOK' BY <1>15, <1>16, <1>17, <1>24, <1>25, <1>26 DEF IInv, TypeOK
<1>19. Grown /\ OthersSame(p) /\ UNCHANGED scan
  BY <1>1, <1>16, <1>17 DEF Grown, OthersSame, IInv, TypeOK
<1>20. /\ fin'[p] = fs /\ pc'[p] = label /\ stack'[p] = stack[p] /\ Depth(p) = Len(stack[p])
       /\ row'[p] = row[p] /\ pos'[p] = pos[p] /\ bfs'[p] = bfs[p] /\ pages' = pages
  BY <1>1, <1>16, <1>17 DEF IInv, TypeOK, Depth
<1>21. \A w \in bfs[p] : GoodStack(w, lsn) BY DEF IInv, ProcOK
<1>23. ProcOK(p)'
  BY <1>2, <1>3, <1>11, <1>14, <1>15, <1>19, <1>20, <1>21, <1>22, CallsGoOn
<1> QED BY <1>18, <1>19, <1>23, StepOK

\* Locking and unlocking the parent.
LEMMA RelockOK ==
  ASSUME IInv, NEW p \in Inserters, pc[p] = "finish", NEW held \in BOOLEAN, NEW fs,
         fs = [fin[p] EXCEPT ![1] = [fin[p][1] EXCEPT !.locked = held]]
  PROVE  GoodCalls(fs, Depth(p), 2, pages) /\ fs # <<>> /\ fs \in Seq(Call)
<1> DEFINE f == fin[p][1]
           g == [f EXCEPT !.locked = held]
<1>1. /\ fin[p] # <<>> /\ GoodCalls(fin[p], Depth(p), 2, pages)
      /\ GoodCall(f, Depth(p), 2, pages) /\ f \in Call /\ Depth(p) \in Nat
  BY CallFacts DEF Splitting
<1>2. g \in Call /\ g.up = f.up /\ g.halves = f.halves BY <1>1 DEF Call
<1>3. GoodCall(g, Depth(p), 2, pages) BY <1>1, <1>2 DEF GoodCall
<1>4. fs = [fin[p] EXCEPT ![1] = g] /\ g.up = fin[p][1].up BY <1>2
<1> HIDE DEF f, g
<1>5. GoodCalls(fs, Depth(p), 2, pages) /\ fs # <<>> BY <1>1, <1>3, <1>4, CallsUpdate
<1> QED BY <1>5 DEF GoodCalls

LEMMA FinishLockOK == ASSUME IInv, NEW p \in Inserters, FinishLock(p) PROVE IInv' /\ Grown /\ OthersSame(p)
<1> DEFINE fs == [fin[p] EXCEPT ![1] = [fin[p][1] EXCEPT !.locked = TRUE]]
<1>1. /\ pc[p] = "finish" /\ xlock' = Locked(p, {ParentBlk(p)})
      /\ fin' = [fin EXCEPT ![p] = fs]
  BY DEF FinishLock, Finishing
<1>2. UNCHANGED <<pages, lsn, rowst, pc, row, pos, stack, xheld, child, ret, bfs, scan,
                  aborts, errs>>
  BY DEF FinishLock
<1>3. GoodCalls(fs, Depth(p), 2, pages) /\ fs # <<>> /\ fs \in Seq(Call) BY <1>1, RelockOK
<1> HIDE DEF fs
<1>4. xlock' \in [Blocks -> Lockers \cup {NoProc}] BY <1>1, LockTypes
<1>5. TypeOK' BY <1>1, <1>2, <1>3, <1>4 DEF IInv, TypeOK
<1>6. Grown /\ OthersSame(p) /\ UNCHANGED scan
  BY <1>1, <1>2 DEF Grown, OthersSame, IInv, TypeOK
<1>7. /\ fin'[p] = fs /\ pc'[p] = "finish" /\ stack'[p] = stack[p] /\ Depth(p) = Len(stack[p])
      /\ row'[p] = row[p] /\ pos'[p] = pos[p] /\ bfs'[p] = bfs[p] /\ pages' = pages
  BY <1>1, <1>2 DEF IInv, TypeOK, Depth
<1>8. \A w \in bfs[p] : GoodStack(w, lsn) BY DEF IInv, ProcOK
<1>9. pc[p] \in Splitting /\ GoodStack(stack[p], lsn) BY <1>1, CallFacts DEF Splitting
<1>10. ProcOK(p)' BY <1>3, <1>6, <1>7, <1>8, <1>9, CallsGoOn
<1> QED BY <1>5, <1>6, <1>10, StepOK

LEMMA FinishMoveRightOK == ASSUME IInv, NEW p \in Inserters, FinishMoveRight(p) PROVE IInv' /\ Grown /\ OthersSame(p)
<1> DEFINE fs == [fin[p] EXCEPT ![1] = [fin[p][1] EXCEPT !.locked = FALSE]]
           r == pages[ParentBlk(p)].right
           i == ParentIx(p)
<1>1. /\ pc[p] = "finish" /\ xlock' = Unlocked({ParentBlk(p)})
      /\ fin' = [fin EXCEPT ![p] = fs]
  BY DEF FinishMoveRight, Finishing
<1>2. UNCHANGED <<pages, lsn, rowst, row, pos, xheld, child, ret, scan, aborts, errs>>
  BY DEF FinishMoveRight
<1>3. GoodCalls(fs, Depth(p), 2, pages) /\ fs # <<>> /\ fs \in Seq(Call) BY <1>1, RelockOK
<1> HIDE DEF fs
<1>4. xlock' \in [Blocks -> Lockers \cup {NoProc}] BY <1>1, LockTypes
<1>5. /\ pc[p] \in Splitting /\ GoodStack(stack[p], lsn) /\ stack[p] \in Seq(Frame)
      /\ ParentBlk(p) \in Blocks /\ i \in 1..Depth(p)
      /\ ParentBlk(p) # Root => i >= 2
      /\ Depth(p) = Len(stack[p]) /\ lsn \in Nat
  BY <1>1, CallFacts DEF Splitting, Depth, IInv, TypeOK
<1>6. \A w \in bfs[p] : GoodStack(w, lsn) /\ w \in Seq(Frame)
  BY DEF IInv, ProcOK, GoodStack, Anchored
<1>7. CASE r # NoBlock /\ stack' = [stack EXCEPT ![p][i].blk = r] /\ UNCHANGED <<pc, bfs>>
  <2> DEFINE g == [stack[p][i] EXCEPT !.blk = r]
             st == [stack[p] EXCEPT ![i] = g]
  <2>1. r \in Blocks /\ ParentBlk(p) # Root
    BY <1>5, <1>7 DEF IInv, GoodPages, Page
  <2>2. stack[p][i] \in Frame /\ stack[p][i].lsn <= lsn
    BY <1>5 DEF GoodStack, SeenUpTo
  <2>3. g \in Frame /\ g.lsn <= lsn BY <2>1, <2>2 DEF Frame
  <2>4. stack' = [stack EXCEPT ![p] = st] BY <1>7
  <2> HIDE DEF g
  <2>5. GoodStack(st, lsn) /\ Len(st) = Depth(p) BY <1>5, <2>1, <2>3, StackExcept
  <2> HIDE DEF st
  <2>6. st \in Seq(Frame) BY <2>5 DEF GoodStack, Anchored
  <2>11. UNCHANGED <<pc, bfs>> BY <1>7
  <2>12. fin' = [fin EXCEPT ![p] = fs] BY <1>1
  <2>7. TypeOK' BY <1>2, <1>3, <1>4, <2>4, <2>6, <2>11, <2>12 DEF IInv, TypeOK
  <2>8. Grown /\ OthersSame(p) /\ UNCHANGED scan
    BY <1>1, <1>2, <1>7, <2>4 DEF Grown, OthersSame, IInv, TypeOK
  <2>9. /\ fin'[p] = fs /\ pc'[p] = "finish" /\ stack'[p] = st
        /\ row'[p] = row[p] /\ pos'[p] = pos[p] /\ bfs'[p] = bfs[p] /\ pages' = pages
    BY <1>1, <1>2, <1>7, <2>4 DEF IInv, TypeOK
  <2>10. ProcOK(p)' BY <1>3, <1>5, <1>6, <2>5, <2>8, <2>9, CallsGoOn
  <2> QED BY <2>7, <2>8, <2>10, StepOK
<1>8. CASE /\ Proceed(p, "findpath")
           /\ bfs' = [bfs EXCEPT ![p] = {<<NewFrame(Root)>>}]
           /\ UNCHANGED stack
  <2>1. GoodStack(<<NewFrame(Root)>>, lsn) /\ <<NewFrame(Root)>> \in Seq(Frame)
    BY <1>5, StackRoot DEF GoodStack, Anchored
  <2>2. pc' = [pc EXCEPT ![p] = "findpath"] BY <1>8 DEF Proceed
  <2>3. TypeOK' BY <1>1, <1>2, <1>3, <1>4, <1>8, <2>1, <2>2 DEF IInv, TypeOK, PCs
  <2>4. Grown /\ OthersSame(p) /\ UNCHANGED scan
    BY <1>1, <1>2, <1>8, <2>2 DEF Grown, OthersSame, IInv, TypeOK
  <2>5. /\ fin'[p] = fs /\ pc'[p] = "findpath" /\ stack'[p] = stack[p]
        /\ row'[p] = row[p] /\ pos'[p] = pos[p] /\ bfs'[p] = {<<NewFrame(Root)>>}
        /\ pages' = pages
    BY <1>1, <1>2, <1>8, <2>2 DEF IInv, TypeOK
  <2>6. ProcOK(p)' BY <1>3, <1>5, <2>1, <2>4, <2>5, CallsGoOn
  <2> QED BY <2>3, <2>4, <2>6, StepOK
<1> QED BY <1>7, <1>8 DEF FinishMoveRight

\* A backend that gives up.
LEMMA AbandonOK ==
  ASSUME IInv, NEW p \in Inserters, pc[p] # "idle", Abandon(p),
         aborts' \in 0..MaxAborts, errs' \subseteq {"refind", "incomplete"}
  PROVE  IInv' /\ Grown /\ OthersSame(p)
<1>1. AnyRow \in Rows BY RowsAssumption DEF AnyRow
<1>2. /\ rowst' = [rowst EXCEPT ![row[p]] = "aborted"]
      /\ stack' = [stack EXCEPT ![p] = <<>>] /\ fin' = [fin EXCEPT ![p] = <<>>]
      /\ bfs' = [bfs EXCEPT ![p] = {}] /\ row' = [row EXCEPT ![p] = AnyRow]
      /\ pos' = [pos EXCEPT ![p] = 1] /\ xheld' = [xheld EXCEPT ![p] = FALSE]
      /\ pc' = [pc EXCEPT ![p] = "idle"]
      /\ UNCHANGED <<pages, lsn, child, ret, scan>>
  BY DEF Abandon, NotLocked, Proceed
<1>3. xlock' \in [Blocks -> Lockers \cup {NoProc}] BY LockTypes DEF Abandon
<1>4. TypeOK' BY <1>1, <1>2, <1>3 DEF IInv, TypeOK, PCs
<1>5. Grown /\ OthersSame(p) /\ UNCHANGED scan
  BY <1>2 DEF Grown, OthersSame, IInv, TypeOK
<1>6. stack'[p] = <<>> /\ pc'[p] = "idle" /\ fin'[p] = <<>> /\ bfs'[p] = {}
  BY <1>2 DEF IInv, TypeOK
<1>7. GoodCalls(<<>>, 0, 2, pages') BY CallsNone
<1>8. ProcOK(p)' BY <1>6, <1>7 DEF ProcOK, SeenUpTo, Splitting, KindOK
<1> QED BY <1>4, <1>5, <1>8, StepOK

LEMMA FindPathErrorOK == ASSUME IInv, NEW p \in Inserters, FindPathError(p) PROVE IInv' /\ Grown /\ OthersSame(p)
<1>1. pc[p] # "idle" BY DEF FindPathError
<1>2. aborts' \in 0..MaxAborts /\ errs' \subseteq {"refind", "incomplete"}
  BY DEF FindPathError, IInv, TypeOK
<1> QED BY <1>1, <1>2, AbandonOK DEF FindPathError

LEMMA InsertDownlinkErrorOK ==
  ASSUME IInv, NEW p \in Inserters, InsertDownlinkError(p) PROVE IInv' /\ Grown /\ OthersSame(p)
<1>1. pc[p] # "idle" BY DEF InsertDownlinkError, Finishing
<1>2. aborts' \in 0..MaxAborts /\ errs' \subseteq {"refind", "incomplete"}
  BY DEF InsertDownlinkError, IInv, TypeOK
<1> QED BY <1>1, <1>2, AbandonOK DEF InsertDownlinkError

LEMMA FailOK == ASSUME IInv, NEW p \in Inserters, Fail(p) PROVE IInv' /\ Grown /\ OthersSame(p)
<1>1. aborts' \in 0..MaxAborts /\ errs' \subseteq {"refind", "incomplete"}
  BY BoundAssumption DEF Fail, IInv, TypeOK
<1> QED BY <1>1, AbandonOK DEF Fail

LEMMA FinishReturnOK == ASSUME IInv, NEW p \in Inserters, FinishReturn(p) PROVE IInv' /\ Grown /\ OthersSame(p)
<1>1. pc[p] = "return" /\ UNCHANGED <<pages, lsn, child, fin, ret, bfs, scan, aborts, errs>>
  BY DEF FinishReturn
<1>2. Grown /\ UNCHANGED scan BY <1>1 DEF Grown
<1>3. fin[p] = <<>> BY <1>1, NoCalls DEF Splitting
<1>4. CASE EntryDone(p)
  <2>1. /\ ProcOK(p)' /\ OthersSame(p)
        /\ xlock' \in [Blocks -> Lockers \cup {NoProc}]
        /\ rowst' \in [Rows -> {"absent", "inserting", "present", "aborted", "dead"}]
        /\ pc' \in [Inserters -> PCs]
        /\ row' \in [Inserters -> Rows]
        /\ pos' \in [Inserters -> Nat]
        /\ stack' \in [Inserters -> Seq(Frame)]
        /\ xheld' \in [Inserters -> BOOLEAN]
    BY <1>1, <1>2, <1>3, <1>4, EntryDoneOK
  <2>2. TypeOK' BY <1>1, <2>1 DEF IInv, TypeOK
  <2> QED BY <1>2, <2>1, <2>2, StepOK
<1>5. CASE /\ PopTo(p)
           /\ xlock' = Released(p)
           /\ NotLocked(p)
           /\ Proceed(p, "visit")
           /\ UNCHANGED <<rowst, row, pos>>
  <2> DEFINE st == SubSeq(stack[p], 1, Depth(p) - 1)
  <2>1. GoodStack(stack[p], lsn) /\ lsn \in Nat /\ Len(stack[p]) >= 2
    BY <1>1, TopFacts DEF IInv, ProcOK
  <2>2. GoodStack(st, lsn) BY <2>1, StackPop DEF Depth
  <2>3. stack' = [stack EXCEPT ![p] = st] BY <1>5 DEF PopTo
  <2> HIDE DEF st
  <2>4. st \in Seq(Frame) BY <2>2 DEF GoodStack, Anchored
  <2>5. KindOK("visit", st, pages) BY DEF KindOK
  <2>6. /\ xlock' \in [Blocks -> Lockers \cup {NoProc}] /\ xheld' \in [Inserters -> BOOLEAN]
        /\ child' \in [Inserters -> Blocks]
    BY <1>1, <1>5, LockTypes DEF IInv, TypeOK, NotLocked
  <2> QED BY <1>1, <1>5, <2>2, <2>3, <2>4, <2>5, <2>6, MovesOn DEF Proceed, Splitting
<1> QED BY <1>4, <1>5 DEF FinishReturn

\* A path found in the tree replaces the upper part of the stack.
LEMMA StackJoin ==
  ASSUME NEW w, NEW l \in Nat, GoodStack(w, l), NEW st \in Seq(Frame), SeenUpTo(st, l),
         NEW c \in 1..Len(st)
  PROVE  /\ GoodStack(w \o SubSeq(st, c, Len(st)), l)
         /\ Len(w \o SubSeq(st, c, Len(st))) = Len(w) + Len(st) - c + 1
<1> DEFINE s == SubSeq(st, c, Len(st))
           q == w \o s
<1>1. w \in Seq(Frame) /\ Len(w) \in Nat /\ Len(w) >= 1 /\ Len(st) \in Nat
  BY DEF GoodStack, Anchored
<1>2. \A i \in c..Len(st) : st[i] \in Frame OBVIOUS
<1>3. /\ s \in Seq(Frame) /\ Len(s) = Len(st) - c + 1
      /\ \A i \in 1..Len(st) - c + 1 : s[i] = st[c + i - 1]
  BY <1>1, <1>2, SubSeqProperties
<1> HIDE DEF s
<1>4. /\ q \in Seq(Frame) /\ Len(q) = Len(w) + Len(s)
      /\ \A i \in 1..Len(w) + Len(s) : q[i] = IF i <= Len(w) THEN w[i] ELSE s[i - Len(w)]
  BY <1>1, <1>3, ConcatProperties
<1> HIDE DEF q
<1>5. q[1] = w[1] BY <1>1, <1>3, <1>4
<1>6. ASSUME NEW i \in 1..Len(q) PROVE q[i].lsn <= l
  <2>1. CASE i <= Len(w) BY <2>1, <1>1, <1>4, <1>6 DEF GoodStack, SeenUpTo
  <2>2. CASE i > Len(w)
    <3>1. i - Len(w) \in 1..Len(st) - c + 1 BY <2>2, <1>1, <1>3, <1>4, <1>6
    <3>2. q[i] = st[c + (i - Len(w)) - 1] BY <2>2, <3>1, <1>1, <1>3, <1>4, <1>6
    <3>3. c + (i - Len(w)) - 1 \in 1..Len(st) BY <3>1, <1>1
    <3> QED BY <3>2, <3>3 DEF SeenUpTo
  <2> QED BY <2>1, <2>2, <1>1, <1>4, <1>6
<1>7. GoodStack(q, l) BY <1>1, <1>4, <1>5, <1>6 DEF GoodStack, Anchored, SeenUpTo
<1> QED BY <1>3, <1>4, <1>7 DEF q, s

LEMMA SeenPath ==
  ASSUME GoodPages(pages, lsn), NEW w, GoodStack(w, lsn)
  PROVE  GoodStack(Seen(w), lsn) /\ Len(Seen(w)) = Len(w)
<1> DEFINE n == Len(w)
           f == [w[n] EXCEPT !.lsn = pages[w[n].blk].lsn]
<1>1. /\ w \in Seq(Frame) /\ n \in 1..Len(w) /\ w[1].blk = Root /\ ~w[1].retry
      /\ lsn \in Nat
  BY DEF GoodStack, Anchored, GoodPages
<1>2. w[n] \in Frame BY <1>1
<1>3. w[n].blk \in Blocks BY <1>2 DEF Frame
<1>4. pages[w[n].blk].lsn \in Nat /\ pages[w[n].blk].lsn <= lsn
  BY <1>3 DEF GoodPages, Page
<1>5. f \in Frame /\ f.lsn <= lsn /\ f.blk = w[n].blk /\ f.retry = w[n].retry
  BY <1>2, <1>4 DEF Frame
<1>6. Seen(w) = [w EXCEPT ![n] = f] BY DEF Seen
<1> HIDE DEF f
<1>7. n = 1 => f.blk = Root /\ ~f.retry BY <1>1, <1>5
<1>8. n = Len(w) OBVIOUS
<1> HIDE DEF n
<1>9. GoodStack([w EXCEPT ![n] = f], lsn) /\ Len([w EXCEPT ![n] = f]) = Len(w)
  BY <1>1, <1>5, <1>7, StackExcept
<1> QED BY <1>6, <1>9

LEMMA FindPathStepOK == ASSUME IInv, NEW p \in Inserters, FindPathStep(p) PROVE IInv' /\ Grown /\ OthersSame(p)
<1>1. pc[p] = "findpath" /\ pc[p] \in Splitting BY DEF FindPathStep, Splitting
<1>2. UNCHANGED <<treeVars, rowst, row, pos, xheld, child, fin, ret, scan, aborts, errs>>
  BY DEF FindPathStep
<1>3. PICK w \in bfs[p] :
       LET b == w[Len(w)].blk IN
       /\ pages[b].type = "inner"
       /\ \/ /\ stack' = [stack EXCEPT ![p] =
                           Seen(w) \o SubSeq(stack[p], ChildIx(p), Depth(p))]
             /\ bfs' = [bfs EXCEPT ![p] = {}]
             /\ Proceed(p, "finish")
          \/ /\ bfs' = [bfs EXCEPT ![p] = (@ \ {w}) \cup MissedRight(w)
                            \cup {Append(Seen(w), NewFrame(d.ptr)) : d \in pages[b].items}]
             /\ UNCHANGED <<stack, pc>>
  BY DEF FindPathStep, NextPaths
<1> DEFINE b == w[Len(w)].blk
<1>4. /\ GoodStack(w, lsn) /\ w \in Seq(Frame) /\ Len(w) \in Nat /\ Len(w) >= 1 /\ lsn \in Nat
      /\ w[1].blk = Root /\ ~w[1].retry
  BY DEF IInv, ProcOK, GoodStack, Anchored, TypeOK
<1>5. w[Len(w)] \in Frame BY <1>4
<1>6. b \in Blocks BY <1>5 DEF Frame
<1>7. /\ pages[b] \in Page /\ GoodPage(pages[b]) /\ pages[b].lsn <= lsn
      /\ pages[b].type = "inner"
  BY <1>3, <1>6 DEF IInv, GoodPages
<1>11. GoodStack(Seen(w), lsn) /\ Len(Seen(w)) = Len(w)
  BY <1>4, SeenPath DEF IInv
<1>12. /\ fin[p] # <<>> /\ GoodCalls(fin[p], Depth(p), 2, pages) /\ fin[p][1].up \in Nat
       /\ GoodStack(stack[p], lsn) /\ stack[p] \in Seq(Frame) /\ Depth(p) \in Nat
       /\ ChildIx(p) \in 2..Depth(p) /\ Depth(p) = Len(stack[p])
       /\ ChildIx(p) = Depth(p) - fin[p][1].up
  BY <1>1, CallFacts DEF Depth, ChildIx
<1>13. fin'[p] = fin[p] /\ row'[p] = row[p] /\ pos'[p] = pos[p] /\ pages' = pages
  BY <1>2 DEF treeVars
<1>14. CASE /\ stack' = [stack EXCEPT ![p] =
                           Seen(w) \o SubSeq(stack[p], ChildIx(p), Depth(p))]
            /\ bfs' = [bfs EXCEPT ![p] = {}]
            /\ Proceed(p, "finish")
  <2> DEFINE st == Seen(w) \o SubSeq(stack[p], ChildIx(p), Len(stack[p]))
  <2>1. SeenUpTo(stack[p], lsn) /\ ChildIx(p) \in 1..Len(stack[p]) BY <1>12 DEF GoodStack
  <2>2. GoodStack(st, lsn) /\ Len(st) = Len(w) + Len(stack[p]) - ChildIx(p) + 1
    BY <1>4, <1>11, <1>12, <2>1, StackJoin
  <2>3. stack' = [stack EXCEPT ![p] = st] BY <1>12, <1>14
  <2> HIDE DEF st
  <2>4. st \in Seq(Frame) /\ Len(st) \in Nat BY <2>2 DEF GoodStack, Anchored
  <2>5. fin[p][1].up + 2 <= Len(st)
    <3> DEFINE u == fin[p][1].up
               m == Len(stack[p])
    <3>1. u \in Nat /\ m \in Nat /\ Len(w) \in Nat /\ Len(w) >= 1 /\ ChildIx(p) = m - u
      BY <1>4, <1>12
    <3>2. Len(st) = Len(w) + m - ChildIx(p) + 1 BY <2>2
    <3> HIDE DEF u, m
    <3>3. u + 2 <= Len(st) BY <3>1, <3>2
    <3> QED BY <3>3 DEF u
  <2>6. GoodCalls(fin[p], Len(st), 2, pages) BY <1>12, <2>4, <2>5, CallsDepth
  <2>7. pc' = [pc EXCEPT ![p] = "finish"] /\ bfs' = [bfs EXCEPT ![p] = {}]
    BY <1>14 DEF Proceed
  <2>8. TypeOK' BY <1>2, <2>3, <2>4, <2>7 DEF IInv, TypeOK, PCs, treeVars
  <2>9. Grown /\ OthersSame(p) /\ UNCHANGED scan
    BY <1>2, <2>3, <2>7 DEF Grown, OthersSame, IInv, TypeOK, treeVars
  <2>10. stack'[p] = st /\ pc'[p] = "finish" /\ bfs'[p] = {} BY <2>3, <2>7 DEF IInv, TypeOK
  <2>11. ProcOK(p)' BY <1>1, <1>12, <1>13, <2>2, <2>6, <2>9, <2>10, CallsGoOn
  <2> QED BY <2>8, <2>9, <2>11, StepOK
<1>15. CASE /\ bfs' = [bfs EXCEPT ![p] = (@ \ {w}) \cup MissedRight(w)
                            \cup {Append(Seen(w), NewFrame(d.ptr)) : d \in pages[b].items}]
            /\ UNCHANGED <<stack, pc>>
  <2> DEFINE down == {Append(Seen(w), NewFrame(d.ptr)) : d \in pages[b].items}
             paths == (bfs[p] \ {w}) \cup MissedRight(w) \cup down
  <2>1. \A d \in pages[b].items : GoodStack(Append(Seen(w), NewFrame(d.ptr)), lsn)
    BY <1>4, <1>7, <1>11, StackPush DEF GoodPage
  <2>2. \A x \in MissedRight(w) : GoodStack(x, lsn)
    <3> DEFINE r == pages[b].right
               x == Append(SubSeq(w, 1, Len(w) - 1), NewFrame(r))
    <3>1. CASE Len(w) > 1 /\ w[Len(w) - 1].lsn < pages[b].nsn /\ r # NoBlock
      <4>1. MissedRight(w) = {x} BY <3>1 DEF MissedRight
      <4>2. r \in Blocks BY <3>1, <1>7 DEF Page
      <4>3. GoodStack(SubSeq(w, 1, Len(w) - 1), lsn) BY <3>1, <1>4, StackPop
      <4>4. GoodStack(x, lsn) BY <1>4, <4>2, <4>3, StackPush
      <4> QED BY <4>1, <4>4
    <3>2. CASE ~(Len(w) > 1 /\ w[Len(w) - 1].lsn < pages[b].nsn /\ r # NoBlock)
      BY <3>2 DEF MissedRight
    <3> QED BY <3>1, <3>2
  <2>3. \A x \in bfs[p] : GoodStack(x, lsn) BY DEF IInv, ProcOK
  <2>4. \A x \in paths : GoodStack(x, lsn) /\ x \in Seq(Frame)
    BY <2>1, <2>2, <2>3 DEF GoodStack, Anchored
  <2>5. bfs' = [bfs EXCEPT ![p] = paths] BY <1>15
  <2> HIDE DEF paths
  <2>6. paths \in SUBSET Seq(Frame) BY <2>4
  <2>7. UNCHANGED <<stack, pc>> BY <1>15
  <2>8. TypeOK' BY <1>2, <2>5, <2>6, <2>7 DEF IInv, TypeOK, treeVars
  <2>9. Grown /\ OthersSame(p) /\ UNCHANGED scan
    BY <1>2, <2>5, <2>7 DEF Grown, OthersSame, IInv, TypeOK, treeVars
  <2>10. stack'[p] = stack[p] /\ pc'[p] = "findpath" /\ bfs'[p] = paths
    BY <1>1, <2>5, <2>7 DEF IInv, TypeOK
  <2>11. ProcOK(p)' BY <1>1, <1>12, <1>13, <2>4, <2>9, <2>10, CallsGoOn
  <2> QED BY <2>8, <2>9, <2>11, StepOK
<1> QED BY <1>3, <1>14, <1>15

\* What is left of the calls when a downlink is in.
LEMMA RemainingOK ==
  ASSUME IInv, NEW p \in Inserters, pc[p] = "finish"
  PROVE  /\ GoodCalls(Remaining(p), Depth(p), 2, pages)
         /\ \A i \in 1..Len(Remaining(p)) : Remaining(p)[i].up <= fin[p][1].up
<1> DEFINE f == fin[p][1]
           n == Len(f.halves)
           g == [f EXCEPT !.halves = SubSeq(@, 1, n - 1)]
           rest == Tail(fin[p])
<1>1. /\ fin[p] # <<>> /\ GoodCalls(fin[p], Depth(p), 2, pages) /\ Depth(p) \in Nat
      /\ GoodCall(f, Depth(p), 2, pages) /\ f \in Call /\ f.up \in Nat
      /\ f.halves \in Seq(Half) /\ n \in Nat /\ f.up + 2 <= Depth(p)
      /\ \A h \in 1..n : f.halves[h] \in Half /\ InUse(f.halves[h].blk, pages)
  BY CallFacts DEF Splitting, GoodCall
<1> HIDE DEF f
<1>2. GoodCalls(rest, Depth(p), 2, pages) /\ \A i \in 1..Len(rest) : rest[i].up <= f.up
  BY <1>1, CallsReturn DEF f
<1>3. rest \in Seq(Call) /\ Len(rest) \in Nat BY <1>2 DEF GoodCalls
<1> HIDE DEF rest
<1>4. CASE n > 2
  <2>1. \A h \in 1..n - 1 : f.halves[h] \in Half BY <1>1
  <2>2. /\ SubSeq(f.halves, 1, n - 1) \in Seq(Half) /\ Len(SubSeq(f.halves, 1, n - 1)) = n - 1
        /\ \A h \in 1..n - 1 : SubSeq(f.halves, 1, n - 1)[h] = f.halves[h]
    BY <1>1, <1>4, <2>1, SubSeqProperties
  <2>3. g \in Call /\ g.up = f.up /\ g.halves = SubSeq(f.halves, 1, n - 1)
    BY <1>1, <2>2 DEF Call
  <2> HIDE DEF g
  <2>4. GoodCall(g, Depth(p), 2, pages) BY <1>1, <1>4, <2>2, <2>3 DEF GoodCall
  <2>5. GoodCalls(<<g>> \o rest, Depth(p), 2, pages) BY <1>1, <1>2, <2>3, <2>4, CallsNest
  <2>6. Remaining(p) = <<g>> \o rest BY <1>4 DEF Remaining, f, g, rest
  <2> DEFINE q == <<g>> \o rest
  <2>7. <<g>> \in Seq(Call) /\ Len(<<g>>) = 1 /\ <<g>>[1] = g BY <2>3
  <2>8. /\ q \in Seq(Call) /\ Len(q) = 1 + Len(rest)
        /\ \A i \in 1..1 + Len(rest) : q[i] = IF i <= 1 THEN <<g>>[i] ELSE rest[i - 1]
    BY <1>3, <2>7, ConcatProperties
  <2> HIDE DEF q
  <2>9. ASSUME NEW i \in 1..Len(q) PROVE q[i].up <= f.up
    <3>1. CASE i = 1 BY <3>1, <1>1, <1>3, <2>3, <2>7, <2>8
    <3>2. CASE i # 1
      <4>1. i - 1 \in 1..Len(rest) /\ q[i] = rest[i - 1] BY <3>2, <1>3, <2>8, <2>9
      <4> QED BY <4>1, <1>2
    <3> QED BY <3>1, <3>2
  <2> QED BY <2>5, <2>6, <2>9 DEF q, f
<1>5. CASE ~(n > 2)
  <2>1. Remaining(p) = rest BY <1>5 DEF Remaining, f, rest
  <2> QED BY <1>2, <2>1 DEF f
<1> QED BY <1>4, <1>5

\* The tuples of the parent with the new downlinks.
LEMMA ParentItemsOK ==
  ASSUME IInv, NEW p \in Inserters, pc[p] = "finish",
         DownlinksOn(ParentBlk(p), ChildBlk(p)) # {}
  PROVE  pages[ParentBlk(p)].type = "inner" /\ TuplesFor(ParentBlk(p), ParentItems(p))
<1> DEFINE hs == fin[p][1].halves
           b == ParentBlk(p)
<1>1. /\ b \in Blocks /\ ChildBlk(p) \in Blocks /\ hs \in Seq(Half) /\ Len(hs) \in Nat
      /\ Len(hs) >= 2
  BY CallFacts DEF Splitting
<1>2. /\ pages[b] \in Page /\ GoodPage(pages[b]) /\ pages[b].items \subseteq Item
      /\ pages[b].type \in {"new", "leaf", "inner", "deleted"}
  BY <1>1 DEF IInv, GoodPages, GoodPage, Page
<1>3. pages[b].type = "inner"
  <2>1. PICK d \in pages[b].items : d.ptr = ChildBlk(p) BY DEF DownlinksOn
  <2>2. d.ptr \notin Entries BY <1>1, <2>1, RowsAssumption
  <2> QED BY <1>2, <2>1, <2>2 DEF GoodPage
<1>4. \A h \in 1..Len(hs) : LinkOf(hs[h]) \in Item /\ LinkOf(hs[h]).ptr \in Blocks
  <2> TAKE h \in 1..Len(hs)
  <2>1. hs[h] \in Half BY <1>1
  <2> QED BY <2>1 DEF LinkOf, Half, Item
<1> HIDE DEF hs
<1>5. 1 \in 1..Len(hs) /\ 2 \in 1..Len(hs) /\ Len(hs) \in 1..Len(hs) BY <1>1
<1>6. ParentItems(p) \subseteq
        pages[b].items \cup {LinkOf(hs[1]), LinkOf(hs[2]), LinkOf(hs[Len(hs)])}
  BY DEF ParentItems, hs
<1>7. \A d \in pages[b].items : d.ptr \in Blocks BY <1>2, <1>3 DEF GoodPage
<1>8. \A d \in ParentItems(p) : d \in Item /\ d.ptr \in Blocks
  BY <1>2, <1>4, <1>5, <1>6, <1>7
<1> QED BY <1>3, <1>8 DEF TuplesFor

LEMMA InsertDownlinkOK == ASSUME IInv, NEW p \in Inserters, InsertDownlink(p) PROVE IInv' /\ Grown /\ OthersSame(p)
<1> DEFINE f == fin[p][1]
           n == Len(f.halves)
           par == ParentBlk(p)
           left == f.halves[n - 1].blk
           N == ParentItems(p)
           fs == Remaining(p)
           st == IF n > 2 THEN stack[p] ELSE [stack[p] EXCEPT ![ChildIx(p)].retry = TRUE]
           done == LetGo(f) \cup (IF n = 2 THEN {par} ELSE {})
           label == IF fs = <<>> THEN "return" ELSE "finish"
<1>1. /\ pc[p] = "finish" /\ pc[p] \in Splitting /\ lsn' = lsn + 1
      /\ DownlinksOn(par, ChildBlk(p)) # {}
      /\ stack' = IF n > 2 THEN stack ELSE [stack EXCEPT ![p][ChildIx(p)].retry = TRUE]
      /\ UNCHANGED <<rowst, row, pos, xheld, child, ret, bfs, scan, aborts, errs>>
  BY DEF InsertDownlink, Finishing, Splitting
<1>2. /\ f.halves \in Seq(Half) /\ n \in Nat /\ n >= 2 /\ f.up \in Nat /\ Depth(p) \in Nat
      /\ \A h \in 1..n : f.halves[h].blk \in Blocks /\ InUse(f.halves[h].blk, pages)
      /\ GoodStack(stack[p], lsn) /\ stack[p] \in Seq(Frame) /\ Depth(p) = Len(stack[p])
      /\ ChildIx(p) \in 2..Depth(p) /\ ParentIx(p) = Depth(p) - f.up - 1
      /\ par \in Blocks /\ lsn \in Nat
      /\ par # Root => ParentIx(p) >= 2
  BY <1>1, CallFacts DEF Depth, ChildIx, ParentIx, IInv, TypeOK
<1>15. n \in Nat /\ n >= 2 /\ f.up \in Nat /\ Depth(p) \in Nat BY <1>2
<1>16. par # Root => f.up + 3 <= Depth(p) BY <1>2
<1> HIDE DEF f, n, par
<1>3. left \in Blocks \ {Root} /\ pages[left].type \in InTree
  <2>1. n - 1 \in 1..n BY <1>15
  <2> QED BY <1>2, <2>1 DEF InUse
<1>4. pages[par].type = "inner" /\ TuplesFor(par, N) /\ GoodPages(pages, lsn)
  BY <1>1, ParentItemsOK DEF IInv, par
<1>5. GoodCalls(fs, Depth(p), 2, pages) /\ \A i \in 1..Len(fs) : fs[i].up <= f.up
  BY <1>1, RemainingOK DEF f
<1>6. stack' = [stack EXCEPT ![p] = st] BY <1>1 DEF IInv, TypeOK
<1>7. GoodStack(st, lsn) /\ Len(st) = Depth(p)
  <2>1. CASE n > 2 BY <2>1, <1>2
  <2>2. CASE ~(n > 2)
    <3> DEFINE i == ChildIx(p)
               g == [stack[p][i] EXCEPT !.retry = TRUE]
    <3>1. i \in 1..Len(stack[p]) /\ i # 1 BY <1>2
    <3>2. stack[p][i] \in Frame /\ stack[p][i].lsn <= lsn
      BY <1>2, <3>1 DEF GoodStack, SeenUpTo
    <3>3. g \in Frame /\ g.lsn <= lsn BY <3>2 DEF Frame
    <3>4. st = [stack[p] EXCEPT ![i] = g] BY <2>2
    <3> HIDE DEF g, i, st
    <3>5. /\ GoodStack([stack[p] EXCEPT ![i] = g], lsn)
          /\ Len([stack[p] EXCEPT ![i] = g]) = Len(stack[p])
      BY <1>2, <3>1, <3>3, StackExcept
    <3> QED BY <1>2, <3>4, <3>5
  <2> QED BY <2>1, <2>2
<1>8. st \in Seq(Frame) BY <1>7 DEF GoodStack, Anchored
<1>9. stack'[p] = st /\ row'[p] = row[p] /\ pos'[p] = pos[p] /\ bfs'[p] = bfs[p]
  BY <1>1, <1>6 DEF IInv, TypeOK
<1>10. \A w \in bfs[p] : GoodStack(w, lsn) BY DEF IInv, ProcOK
<1> HIDE DEF st, N, left
\* The parent has room, or it is the root and is split.
<1>11. ASSUME GoodPages(pages', lsn'), Written(pages', lsn'), xlock' = Unlocked(done),
              fin' = [fin EXCEPT ![p] = fs], pc' = [pc EXCEPT ![p] = label]
       PROVE  IInv' /\ Grown /\ OthersSame(p)
  <2> HIDE DEF done, fs, label
  <2>1. fs \in Seq(Call) BY <1>5 DEF GoodCalls
  <2>2. label = (IF fs = <<>> THEN "return" ELSE "finish") /\ label \in PCs
    BY DEF label, PCs
  <2>3. xlock' \in [Blocks -> Lockers \cup {NoProc}] BY <1>11, LockTypes
  <2>4. UNCHANGED <<rowst, row, pos, xheld, child, ret, bfs, scan, aborts, errs>> BY <1>1
  <2>5. TypeOK' BY <1>6, <1>8, <1>11, <2>1, <2>2, <2>3, <2>4 DEF IInv, TypeOK, GoodPages
  <2>6. Grown /\ OthersSame(p) /\ UNCHANGED scan
    BY <1>1, <1>6, <1>11, <2>4 DEF Grown, OthersSame, IInv, TypeOK
  <2>7. fin'[p] = fs /\ pc'[p] = label BY <1>11 DEF IInv, TypeOK
  <2>8. SameKinds(pages, pages')
    BY <1>4, <2>6, GrownFacts
  <2>9. GoodCalls(fs, Len(st), 2, pages') BY <1>5, <1>7, <1>15, <2>8, CallsLater
  <2>10. Len(st) >= 2 BY <1>2, <1>7
  <2>11. ProcOK(p)'
    <3>1. CASE fs = <<>>
      BY <3>1, <1>1, <1>7, <1>9, <1>10, <2>2, <2>6, <2>7, <2>9, <2>10, CallsGoOn
    <3>2. CASE fs # <<>>
      BY <3>2, <1>1, <1>7, <1>9, <1>10, <2>2, <2>6, <2>7, <2>9, CallsGoOn
    <3> QED BY <3>1, <3>2
  <2> QED BY <2>5, <2>6, <2>11, StepOK
<1>12. CASE /\ Fits(par, N)
            /\ pages' = FitPages(par, N, left)
            /\ xlock' = Unlocked(done)
            /\ fin' = [fin EXCEPT ![p] = fs]
            /\ Proceed(p, label)
  <2>1. GoodPages(pages', lsn') /\ Written(pages', lsn')
    BY <1>1, <1>2, <1>3, <1>4, <1>12, FitOK DEF InTree
  <2> QED BY <1>11, <1>12, <2>1 DEF Proceed
<1>13. CASE /\ par = Root
            /\ \E P \in Partitions(par, N) : \E blks \in FreshBlocks(Len(P)) :
                 pages' = RootSplitPages(P, blks, left)
            /\ xlock' = Unlocked(done)
            /\ fin' = [fin EXCEPT ![p] = fs]
            /\ Proceed(p, label)
  <2>1. GoodPages(pages', lsn') /\ Written(pages', lsn')
    BY <1>1, <1>3, <1>4, <1>13, RootSplitOK DEF InTree
  <2> QED BY <1>11, <1>13, <2>1 DEF Proceed
<1>14. CASE /\ par # Root
            /\ \E P \in Partitions(par, N) : \E new \in FreshBlocks(Len(P) - 1) :
                LET blks == <<par>> \o new IN
                /\ pages' = SplitPages(par, P, blks, left)
                /\ xlock' = [b \in Blocks |->
                     IF b \in LetGo(f) THEN NoProc
                     ELSE IF \E i \in DOMAIN new : new[i] = b THEN p ELSE xlock[b]]
                /\ fin' = [fin EXCEPT ![p] =
                     <<[up |-> f.up + 1, halves |-> HalvesOf(P, blks),
                        unlock |-> n = 2, locked |-> FALSE]>> \o Remaining(p)]
            /\ UNCHANGED pc
  <2>1. PICK P \in Partitions(par, N) : \E new \in FreshBlocks(Len(P) - 1) :
                LET blks == <<par>> \o new IN
                /\ pages' = SplitPages(par, P, blks, left)
                /\ xlock' = [b \in Blocks |->
                     IF b \in LetGo(f) THEN NoProc
                     ELSE IF \E i \in DOMAIN new : new[i] = b THEN p ELSE xlock[b]]
                /\ fin' = [fin EXCEPT ![p] =
                     <<[up |-> f.up + 1, halves |-> HalvesOf(P, blks),
                        unlock |-> n = 2, locked |-> FALSE]>> \o Remaining(p)]
    BY <1>14
  <2>2. PICK new \in FreshBlocks(Len(P) - 1) :
                LET blks == <<par>> \o new IN
                /\ pages' = SplitPages(par, P, blks, left)
                /\ xlock' = [b \in Blocks |->
                     IF b \in LetGo(f) THEN NoProc
                     ELSE IF \E i \in DOMAIN new : new[i] = b THEN p ELSE xlock[b]]
                /\ fin' = [fin EXCEPT ![p] =
                     <<[up |-> f.up + 1, halves |-> HalvesOf(P, blks),
                        unlock |-> n = 2, locked |-> FALSE]>> \o Remaining(p)]
    BY <2>1
  <2> DEFINE blks == <<par>> \o new
             halves == HalvesOf(P, blks)
             g == [up |-> f.up + 1, halves |-> halves, unlock |-> n = 2, locked |-> FALSE]
             gs == <<g>> \o fs
  <2>3. /\ GoodPages(pages', lsn') /\ Written(pages', lsn')
        /\ halves \in Seq(Half) /\ Len(halves) >= 2
        /\ \A h \in 1..Len(halves) : InUse(halves[h].blk, pages')
    BY <1>1, <1>2, <1>3, <1>4, <1>14, <2>2, SplitOK DEF InTree
  <2>4. fin' = [fin EXCEPT ![p] = gs] /\ pc' = pc BY <1>14, <2>2
  <2>5. xlock' \in [Blocks -> Lockers \cup {NoProc}] BY <2>2, ProcAssumption DEF IInv, TypeOK
  <2> HIDE DEF halves, blks, fs
  <2>6. g \in Call /\ g.up = f.up + 1 /\ g.halves = halves BY <1>2, <2>3 DEF Call
  <2> HIDE DEF g
  <2>7. GoodCall(g, Depth(p), 2, pages') BY <1>14, <1>15, <1>16, <2>3, <2>6 DEF GoodCall
  <2>8. Grown /\ OthersSame(p) /\ UNCHANGED scan
    BY <1>1, <1>6, <2>3, <2>4 DEF Grown, OthersSame, IInv, TypeOK
  <2>9. SameKinds(pages, pages')
    BY <1>4, <2>8, GrownFacts
  <2>10. GoodCalls(fs, Depth(p), 2, pages') BY <1>2, <1>5, <2>9, CallsLater
  <2>11. \A i \in 1..Len(fs) : fs[i].up <= g.up
    <3>1. \A i \in 1..Len(fs) : fs[i] \in Call /\ fs[i].up \in Nat
      BY <1>5, CallType DEF GoodCalls
    <3> QED BY <1>2, <1>5, <2>6, <3>1
  <2>12. GoodCalls(gs, Depth(p), 2, pages') /\ gs # <<>>
    BY <1>2, <2>7, <2>10, <2>11, CallsNest
  <2> HIDE DEF gs
  <2>13. gs \in Seq(Call) BY <2>12 DEF GoodCalls
  <2>14. UNCHANGED <<rowst, row, pos, xheld, child, ret, bfs, scan, aborts, errs>> BY <1>1
  <2>15. TypeOK' BY <1>6, <1>8, <2>3, <2>4, <2>5, <2>13, <2>14 DEF IInv, TypeOK, GoodPages
  <2>16. fin'[p] = gs /\ pc'[p] = "finish" BY <1>1, <2>4 DEF IInv, TypeOK
  <2>17. ProcOK(p)' BY <1>1, <1>7, <1>9, <1>10, <2>8, <2>12, <2>16, CallsGoOn
  <2> QED BY <2>8, <2>15, <2>17, StepOK
<1> QED BY <1>12, <1>13, <1>14 DEF InsertDownlink, f, n, par, left, N

LEMMA CrashOK == ASSUME IInv, Crash PROVE IInv' /\ Grown
<1>1. AnyRow \in Rows /\ AnyKey \in Keys BY RowsAssumption DEF AnyRow, AnyKey
<1>2. ReadyScan \in ScanState /\ ReadyScan.queue = {} BY <1>1 DEF ReadyScan, ScanState
<1>3. TypeOK'
  <2>1. rowst' \in [Rows -> {"absent", "inserting", "present", "aborted", "dead"}]
    BY DEF Crash, IInv, TypeOK
  <2>2. aborts' \in 0..MaxAborts BY BoundAssumption DEF Crash, IInv, TypeOK
  <2>3. scan' \in [Scanners -> ScanState] BY <1>2 DEF Crash
  <2>4. row' \in [Inserters -> Rows] /\ pos' \in [Inserters -> Nat] /\ pc' \in [Inserters -> PCs]
    BY <1>1 DEF Crash, PCs
  <2>5. stack' \in [Inserters -> Seq(Frame)] /\ fin' \in [Inserters -> Seq(Call)]
        /\ bfs' \in [Inserters -> SUBSET Seq(Frame)]
    BY DEF Crash
  <2>6. xlock' \in [Blocks -> Lockers \cup {NoProc}] /\ xheld' \in [Inserters -> BOOLEAN]
    BY DEF Crash
  <2> QED BY <2>1, <2>2, <2>3, <2>4, <2>5, <2>6 DEF Crash, IInv, TypeOK
<1>4. Grown /\ pages' = pages /\ lsn' = lsn BY DEF Crash, Grown
<1>5. ASSUME NEW q \in Inserters PROVE ProcOK(q)'
  <2>1. stack'[q] = <<>> /\ pc'[q] = "idle" /\ fin'[q] = <<>> /\ bfs'[q] = {}
    BY DEF Crash
  <2>2. GoodCalls(<<>>, 0, 2, pages') BY CallsNone
  <2> QED BY <2>1, <2>2 DEF ProcOK, SeenUpTo, Splitting, KindOK
<1>6. \A s \in Scanners : scan'[s].queue = {} BY <1>2 DEF Crash
<1> QED BY <1>3, <1>4, <1>5, <1>6 DEF IInv
-----------------------------------------------------------------------------
(***************************************************************************)
(* The steps of a scan.                                                    *)
(***************************************************************************)
\* A scan changes nothing but its own state.
LEMMA ScanStepOK ==
  ASSUME IInv, UNCHANGED <<treeVars, procVars, aborts, errs>>, NEW s \in Scanners,
         NEW q \in ScanState, \A i \in q.queue : i.plsn <= lsn,
         scan' = [scan EXCEPT ![s] = q]
  PROVE  IInv' /\ Grown
<1>1. TypeOK' BY DEF IInv, TypeOK, treeVars, procVars
<1>2. pages' = pages /\ lsn' = lsn BY DEF treeVars
<1>3. \A p \in Inserters : ProcOK(p)' BY DEF IInv, ProcOK, treeVars, procVars
<1>4. \A t \in Scanners : \A i \in scan'[t].queue : i.plsn <= lsn BY DEF IInv, TypeOK
<1> QED BY <1>1, <1>2, <1>3, <1>4 DEF IInv, Grown

LEMMA ScanStartOK ==
  ASSUME IInv, NEW s \in Scanners, NEW k \in Keys, ScanStart(s, k) PROVE IInv' /\ Grown
<1> DEFINE q == [st |-> "running", key |-> k, queue |-> {[blk |-> Root, plsn |-> 0]},
                 found |-> {},
                 must |-> {r \in Rows : rowst[r] = "present" /\ k \in RowKeys(r)}]
<1>1. lsn \in Nat /\ Root \in Blocks BY BlocksAssumption DEF IInv, TypeOK
<1>2. q \in ScanState BY <1>1 DEF ScanState
<1>3. \A i \in q.queue : i.plsn <= lsn BY <1>1
<1>4. scan' = [scan EXCEPT ![s] = q] /\ UNCHANGED <<treeVars, procVars, aborts, errs>>
  BY DEF ScanStart
<1> HIDE DEF q
<1> QED BY <1>2, <1>3, <1>4, ScanStepOK

LEMMA ScanPageOK ==
  ASSUME IInv, NEW s \in Scanners, ScanPage(s) PROVE IInv' /\ Grown
<1>1. PICK i \in scan[s].queue : scan' = [scan EXCEPT ![s] = Examined(scan[s], i)]
  BY DEF ScanPage
<1> DEFINE pg == pages[i.blk]
           hits == {t \in pg.items : scan[s].key \in t.pred}
           others == (scan[s].queue \ {i}) \cup GoRight(i)
           leaf == [scan[s] EXCEPT !.queue = others,
                      !.found = scan[s].found \cup {RowOf(t.ptr) : t \in hits}]
           down == {[blk |-> t.ptr, plsn |-> pg.lsn] : t \in hits}
           inner == [scan[s] EXCEPT !.queue = others \cup down]
           Next1 == [blk : Blocks, plsn : Nat]
<1>0. Examined(scan[s], i) = IF pg.type = "leaf" THEN leaf ELSE inner BY DEF Examined
<1>2. UNCHANGED <<treeVars, procVars, aborts, errs>> BY DEF ScanPage
<1>3. scan[s] \in ScanState /\ \A j \in scan[s].queue : j \in Next1 /\ j.plsn <= lsn
  BY DEF IInv, TypeOK, ScanState
<1>4. i \in Next1 /\ i.blk \in Blocks /\ i.plsn \in Nat /\ i.plsn <= lsn BY <1>3
<1>5. /\ pg \in Page /\ GoodPage(pg) /\ pg.lsn \in Nat /\ pg.lsn <= lsn
      /\ pg.type \in {"new", "leaf", "inner", "deleted"} /\ pg.right \in Blocks \cup {NoBlock}
  BY <1>4 DEF IInv, GoodPages, GoodPage, Page
<1>6. \A j \in GoRight(i) : j \in Next1 /\ j.plsn <= lsn BY <1>4, <1>5 DEF GoRight
<1>7. \A j \in others : j \in Next1 /\ j.plsn <= lsn BY <1>3, <1>6
<1> HIDE DEF others
<1>8. CASE pg.type = "leaf"
  <2>1. \A t \in hits : RowOf(t.ptr) \in Rows BY <1>5, <1>8, RowsAssumption DEF GoodPage, RowOf
  <2>2. {RowOf(t.ptr) : t \in hits} \in SUBSET Rows BY <2>1
  <2>5. scan' = [scan EXCEPT ![s] = leaf] BY <1>0, <1>1, <1>8
  <2> HIDE DEF hits
  <2>3. leaf \in ScanState /\ leaf.queue = others BY <1>3, <1>7, <2>2 DEF ScanState
  <2> HIDE DEF leaf
  <2> QED BY <1>2, <1>7, <2>3, <2>5, ScanStepOK
<1>9. CASE pg.type # "leaf"
  <2>1. \A t \in hits : t.ptr \in Blocks BY <1>5, <1>9 DEF GoodPage
  <2>2. \A j \in down : j \in Next1 /\ j.plsn <= lsn BY <1>5, <2>1
  <2> HIDE DEF down
  <2>3. \A j \in others \cup down : j \in Next1 /\ j.plsn <= lsn BY <1>7, <2>2
  <2>4. inner \in ScanState /\ inner.queue = others \cup down
    BY <1>3, <2>3 DEF ScanState
  <2>5. scan' = [scan EXCEPT ![s] = inner] BY <1>0, <1>1, <1>9 DEF down
  <2> HIDE DEF inner
  <2> QED BY <1>2, <2>3, <2>4, <2>5, ScanStepOK
<1> QED BY <1>8, <1>9

LEMMA ScanEndOK ==
  ASSUME IInv, NEW s \in Scanners, ScanEnd(s) PROVE IInv' /\ Grown
<1> DEFINE q == [scan[s] EXCEPT !.st = "done"]
<1>1. scan[s] \in ScanState /\ \A i \in scan[s].queue : i.plsn <= lsn BY DEF IInv, TypeOK
<1>2. q \in ScanState /\ q.queue = scan[s].queue BY <1>1 DEF ScanState
<1>3. scan' = [scan EXCEPT ![s] = q] /\ UNCHANGED <<treeVars, procVars, aborts, errs>>
  BY DEF ScanEnd
<1> HIDE DEF q
<1> QED BY <1>1, <1>2, <1>3, ScanStepOK
-----------------------------------------------------------------------------
(***************************************************************************)
(* The theorems.                                                           *)
(***************************************************************************)
LEMMA InitPagesOK == ASSUME NEW t \in InitTrees PROVE GoodPages(InitPages(t), BuildLSN)
<1> DEFINE used(b) == [type |-> IF b \in t.inner THEN "inner" ELSE "leaf",
                       items |-> t.items[b], right |-> t.right[b], nsn |-> 0,
                       lsn |-> BuildLSN, follow |-> b \in t.follow]
           D == DOMAIN t.items
<1>1. /\ Root \in D /\ D \subseteq Blocks
      /\ t.items \in [D -> SUBSET Item]
      /\ \A b \in D : \A i \in t.items[b] : i.ptr \in IF b \in t.inner THEN Blocks ELSE Entries
      /\ t.right \in [D -> (D \ {Root}) \cup {NoBlock}] /\ t.right[Root] = NoBlock
      /\ t.follow \subseteq D \ {Root}
      /\ \A b \in D : t.right[b] # NoBlock => (t.right[b] \in t.inner <=> b \in t.inner)
  BY InitAssumption DEF InitTree
<1>2. \A b \in Blocks : InitPages(t)[b] = IF b \in D THEN used(b) ELSE EmptyPage
  BY DEF InitPages
<1>3. InitPages(t) = [b \in Blocks |-> InitPages(t)[b]] BY DEF InitPages
<1>4. BuildLSN \in Nat BY DEF BuildLSN
<1>5. NoBlock # Root BY BlocksAssumption
<1> HIDE DEF D
<1>6. EmptyPage \in Page /\ GoodPage(EmptyPage)
  <2>1. EmptyPage \in Page BY DEF EmptyPage, Page
  <2> QED BY <1>5, <2>1 DEF EmptyPage, GoodPage
<1>7. \A b \in D : used(b) \in Page /\ GoodPage(used(b))
  <2> TAKE b \in D
  <2>1. t.items[b] \in SUBSET Item /\ t.right[b] \in Blocks \cup {NoBlock} /\ t.right[b] # Root
    BY <1>1, <1>5
  <2>2. used(b) \in Page BY <1>4, <2>1 DEF Page
  <2> QED BY <1>1, <1>4, <2>1, <2>2 DEF GoodPage
<1>8. EmptyPage.right = NoBlock /\ EmptyPage.lsn = 0 BY DEF EmptyPage
<1>14. \A b \in D : /\ used(b).type = (IF b \in t.inner THEN "inner" ELSE "leaf") /\ used(b).right = t.right[b]
                     /\ used(b).nsn = 0 /\ used(b).lsn = BuildLSN
                     /\ used(b).follow = (b \in t.follow)
  OBVIOUS
<1> HIDE DEF used
<1>9. \A b \in Blocks :
        /\ InitPages(t)[b] \in Page /\ GoodPage(InitPages(t)[b])
        /\ InitPages(t)[b].lsn <= BuildLSN
  BY <1>2, <1>4, <1>6, <1>7, <1>8, <1>14
<1>10. \A b \in D : /\ InitPages(t)[b].type = (IF b \in t.inner THEN "inner" ELSE "leaf")
                    /\ InitPages(t)[b].right = t.right[b]
  BY <1>1, <1>2, <1>14
<1>11. \A b \in Blocks :
         InitPages(t)[b].right # NoBlock =>
           InitPages(t)[InitPages(t)[b].right].type = InitPages(t)[b].type
  BY <1>1, <1>2, <1>8, <1>10
<1>12. /\ InitPages(t)[Root].type \in InTree /\ InitPages(t)[Root].right = NoBlock
       /\ ~InitPages(t)[Root].follow /\ InitPages(t)[Root].nsn = 0
  <2>1. InitPages(t)[Root] = used(Root) BY <1>1, <1>2
  <2>2. InitPages(t)[Root].type \in InTree BY <1>1, <1>10 DEF InTree
  <2>3. Root \notin t.follow BY <1>1
  <2>4. used(Root).follow = (Root \in t.follow) BY <1>1, <1>14
  <2> QED BY <1>1, <1>10, <1>14, <2>1, <2>2, <2>3, <2>4
<1>13. InitPages(t) \in [Blocks -> Page] BY <1>3, <1>9
<1> QED BY <1>4, <1>9, <1>11, <1>12, <1>13 DEF GoodPages

LEMMA InitOK == Init => IInv
<1> SUFFICES ASSUME Init PROVE IInv OBVIOUS
<1>1. PICK t \in InitTrees :
        /\ pages = InitPages(t)
        /\ rowst = [r \in Rows |-> IF r \in t.rows THEN "present" ELSE "absent"]
  BY DEF Init
<1>2. lsn = BuildLSN BY DEF Init
<1>3. GoodPages(pages, lsn) BY <1>1, <1>2, InitPagesOK
<1>4. AnyRow \in Rows /\ AnyKey \in Keys BY RowsAssumption DEF AnyRow, AnyKey
<1>5. ReadyScan \in ScanState /\ ReadyScan.queue = {} BY <1>4 DEF ReadyScan, ScanState
<1>6. TypeOK
  <2>1. rowst \in [Rows -> {"absent", "inserting", "present", "aborted", "dead"}] BY <1>1
  <2>2. pages \in [Blocks -> Page] /\ lsn \in Nat BY <1>3 DEF GoodPages
  <2>3. scan \in [Scanners -> ScanState] BY <1>5 DEF Init
  <2>4. aborts \in 0..MaxAborts BY BoundAssumption DEF Init
  <2>5. /\ row \in [Inserters -> Rows] /\ pos \in [Inserters -> Nat]
        /\ pc \in [Inserters -> PCs] /\ xheld \in [Inserters -> BOOLEAN]
        /\ child \in [Inserters -> Blocks] /\ ret \in [Inserters -> {"leaf", "inner", "fix"}]
    BY <1>4, BlocksAssumption DEF Init, PCs
  <2>6. /\ stack \in [Inserters -> Seq(Frame)] /\ fin \in [Inserters -> Seq(Call)]
        /\ bfs \in [Inserters -> SUBSET Seq(Frame)]
        /\ xlock \in [Blocks -> Lockers \cup {NoProc}]
    BY DEF Init
  <2> QED BY <2>1, <2>2, <2>3, <2>4, <2>5, <2>6 DEF Init, TypeOK
<1>7. ASSUME NEW p \in Inserters PROVE ProcOK(p)
  <2>1. stack[p] = <<>> /\ pc[p] = "idle" /\ fin[p] = <<>> /\ bfs[p] = {} BY DEF Init
  <2>2. GoodCalls(<<>>, 0, 2, pages) BY CallsNone
  <2> QED BY <2>1, <2>2 DEF ProcOK, SeenUpTo, Splitting, KindOK
<1>8. \A s \in Scanners : scan[s].queue = {} BY <1>5 DEF Init
<1> QED BY <1>3, <1>6, <1>7, <1>8 DEF IInv

\* Every step preserves the invariant and logs at most one record.
LEMMA TreeStepOK ==
  ASSUME IInv, NEW p \in Inserters, Step(p) PROVE IInv' /\ Grown /\ OthersSame(p)
BY PopRetryOK, VisitStaleOK, VisitInnerOK, VisitAdjustOK, VisitLeafOK, VisitFollowOK,
   LockInnerOK, LockLeafOK, LockFixOK, FixChainOK, FinishLockOK, FinishMoveRightOK,
   FindPathStepOK, FindPathErrorOK, InsertDownlinkOK, InsertDownlinkErrorOK,
   FinishReturnOK DEF Step

LEMMA NextOK == IInv /\ [Next]_vars => IInv' /\ Grown
<1> SUFFICES ASSUME IInv, [Next]_vars PROVE IInv' /\ Grown OBVIOUS
<1>1. CASE UNCHANGED vars
  <2>1. UNCHANGED <<treeVars, procVars, scan, aborts, errs>> BY <1>1 DEF vars
  <2>2. TypeOK' BY <2>1 DEF IInv, TypeOK, treeVars, procVars
  <2>3. \A p \in Inserters : ProcOK(p)' BY <2>1 DEF IInv, ProcOK, treeVars, procVars
  <2>4. pages' = pages /\ lsn' = lsn /\ scan' = scan BY <2>1 DEF treeVars
  <2> QED BY <2>2, <2>3, <2>4 DEF IInv, Grown
<1>2. ASSUME NEW p \in Inserters, NEW r \in Rows, BeginRow(p, r) PROVE IInv' /\ Grown
  BY <1>2, BeginRowOK
<1>3. ASSUME NEW p \in Inserters, Step(p) PROVE IInv' /\ Grown
  BY <1>3, TreeStepOK
<1>4. ASSUME NEW p \in Inserters, Fail(p) PROVE IInv' /\ Grown
  <2>1. pc[p] # "idle" BY <1>4 DEF Fail
  <2> QED BY <1>4, <2>1, FailOK
<1>5. CASE Crash BY <1>5, CrashOK
<1>6. ASSUME NEW s \in Scanners, NEW k \in Keys, ScanStart(s, k) PROVE IInv' /\ Grown
  BY <1>6, ScanStartOK
<1>7. ASSUME NEW s \in Scanners, ScanStep(s) PROVE IInv' /\ Grown
  BY <1>7, ScanPageOK, ScanEndOK DEF ScanStep
<1> QED BY <1>1, <1>2, <1>3, <1>4, <1>5, <1>6, <1>7 DEF Next

\* The inductive invariant holds.
THEOREM Inductive == Spec => []IInv
<1>1. IInv /\ [Next]_vars => IInv' BY NextOK
<1> QED BY <1>1, InitOK, PTL DEF Spec

\* Type correctness of the tree: no stack is popped empty, every downlink and right
\* link that is followed leads to a page.
THEOREM TypeCorrect == Spec => []TypeOK
<1>1. IInv => TypeOK BY DEF IInv
<1> QED BY <1>1, Inductive, PTL

\* The order of LSNs and NSNs the LSN-NSN interlock rests on (mgistScanPage and
\* mgistdoinsert compare a parent's LSN with a child's NSN).
THEOREM LsnsOrdered == Spec => []LsnOrder
<1>1. IInv => LsnOrder
  <2> SUFFICES ASSUME IInv PROVE LsnOrder OBVIOUS
  <2>1. \A b \in Blocks : pages[b].nsn <= pages[b].lsn /\ pages[b].lsn <= lsn
    BY DEF IInv, GoodPages, GoodPage
  <2>2. ASSUME NEW p \in Inserters PROVE \A i \in DOMAIN stack[p] : stack[p][i].lsn <= lsn
    <3>1. stack[p] \in Seq(Frame) /\ SeenUpTo(stack[p], lsn) BY DEF IInv, TypeOK, ProcOK
    <3> QED BY <3>1 DEF SeenUpTo
  <2>3. ASSUME NEW p \in Inserters, NEW w \in bfs[p]
        PROVE \A i \in DOMAIN w : w[i].lsn <= lsn
    <3>1. w \in Seq(Frame) /\ SeenUpTo(w, lsn)
      BY <2>3 DEF IInv, ProcOK, GoodStack, Anchored
    <3> QED BY <3>1 DEF SeenUpTo
  <2> QED BY <2>1, <2>2, <2>3 DEF IInv, LsnOrder
<1> QED BY <1>1, Inductive, PTL

\* LSNs never move backwards and no page changes without a new LSN: what makes it
\* sound to recheck a page by its LSN after its lock was swapped.
THEOREM LsnsGrow == Spec => LsnMonotone
<1> DEFINE Mono ==
      /\ lsn <= lsn'
      /\ \A b \in Blocks :
           /\ pages[b].lsn <= pages'[b].lsn /\ pages[b].nsn <= pages'[b].nsn
           /\ pages'[b] # pages[b] => pages'[b].lsn > pages[b].lsn
<1>1. IInv /\ [Next]_vars => Mono
  <2> SUFFICES ASSUME IInv, [Next]_vars PROVE Mono OBVIOUS
  <2>1. Grown BY NextOK
  <2>2. lsn \in Nat /\ \A b \in Blocks : pages[b].lsn \in Nat /\ pages[b].nsn \in Nat
                                         /\ pages[b].lsn <= lsn
    BY DEF IInv, GoodPages, Page
  <2>3. CASE UNCHANGED <<pages, lsn>> BY <2>2, <2>3
  <2>4. CASE lsn' = lsn + 1 /\ GoodPages(pages', lsn') /\ Written(pages', lsn')
    <3>1. \A b \in Blocks : \/ pages'[b] = pages[b]
                            \/ pages'[b].lsn = lsn + 1 /\ pages[b].nsn <= pages'[b].nsn
      BY <2>4 DEF Written
    <3> QED BY <2>2, <2>4, <3>1
  <2> QED BY <2>1, <2>3, <2>4 DEF Grown
<1>2. IInv /\ [Next]_vars => [Mono]_vars BY <1>1
<1> QED BY <1>2, Inductive, PTL DEF Spec, LsnMonotone
-----------------------------------------------------------------------------
(***************************************************************************)
(* The steps of IndexContract.  What a reader of the tree finds on a leaf  *)
(* is an entry of a row that was given to the index, so no answer has a    *)
(* row without the key; that no row is missing is the one thing about the  *)
(* data the refinement needs besides.                                      *)
(***************************************************************************)
\* Whatever a finished scan had to find it has found.
AnswersComplete == \A s \in Scanners : scan[s].st = "done" => scan[s].must \subseteq scan[s].found

LeafItems(pgs) == UNION {pgs[b].items : b \in {c \in Blocks : pgs[c].type = "leaf"}}
Given(r) == rowst[r] # "absent"
\* A busy backend works on a row of its own.
OwnRows ==
  /\ \A p \in Inserters : pc[p] # "idle" => rowst[row[p]] = "inserting"
  /\ \A p, q \in Inserters : p # q /\ pc[p] # "idle" /\ pc[q] # "idle" => row[p] # row[q]
LeavesIndexed == \A i \in LeafItems(pages) : i = LeafItem(i.ptr) /\ Given(RowOf(i.ptr))
Matching(k) == {r \in Rows : k \in RowKeys(r) /\ Given(r)}
ScansSound ==
  \A s \in Scanners : /\ scan[s].st = "ready" => scan[s] = ReadyScan
                      /\ scan[s].found \subseteq Matching(scan[s].key)
ContractInv == OwnRows /\ LeavesIndexed /\ ScansSound

\* The row of an entry.
LEMMA EntryRow ==
  ASSUME NEW e \in Entries
  PROVE  RowOf(e) \in Rows /\ KeyOf[e] \in RowKeys(RowOf(e))
<1>1. \E r \in Rows : \E i \in DOMAIN EntriesOf[r] : EntriesOf[r][i] = e BY RowsAssumption
<1>2. RowOf(e) \in Rows /\ \E i \in DOMAIN EntriesOf[RowOf(e)] : EntriesOf[RowOf(e)][i] = e
  BY <1>1 DEF RowOf
<1> QED BY <1>2 DEF RowKeys

LEMMA RowOfEntry ==
  ASSUME NEW r \in Rows, NEW n \in DOMAIN EntriesOf[r]
  PROVE  RowOf(EntriesOf[r][n]) = r
<1>1. \E q \in Rows : \E i \in DOMAIN EntriesOf[q] : EntriesOf[q][i] = EntriesOf[r][n] OBVIOUS
<1>2. /\ RowOf(EntriesOf[r][n]) \in Rows
      /\ \E i \in DOMAIN EntriesOf[RowOf(EntriesOf[r][n])] :
           EntriesOf[RowOf(EntriesOf[r][n])][i] = EntriesOf[r][n]
  BY <1>1 DEF RowOf
<1> QED BY <1>2, OwnersAssumption

\* What a record adds to the leaves: nothing but the tuples it is about.
LEMMA LeftChildLeaves ==
  ASSUME NEW pgs, pgs = [x \in Blocks |-> pgs[x]], NEW left \in Blocks \cup {NoBlock},
         left # NoBlock => pgs[left] \in Page, NEW l
  PROVE  LeafItems(WithLeftChild(pgs, left, l)) = LeafItems(pgs)
<1> DEFINE new == WithLeftChild(pgs, left, l)
<1>1. \A b \in Blocks : new[b].type = pgs[b].type /\ new[b].items = pgs[b].items
  <2>1. CASE left = NoBlock BY <2>1 DEF WithLeftChild
  <2>2. CASE left # NoBlock
    <3> DEFINE pg == [pgs[left] EXCEPT !.nsn = l, !.follow = FALSE, !.lsn = l]
    <3>1. left \in Blocks /\ new = [pgs EXCEPT ![left] = pg] BY <2>2 DEF WithLeftChild
    <3>2. pg.type = pgs[left].type /\ pg.items = pgs[left].items BY <3>1 DEF Page
    <3> HIDE DEF pg
    <3>3. \A b \in Blocks : new[b] = IF b = left THEN pg ELSE pgs[b] BY <3>1
    <3> HIDE DEF new
    <3> QED BY <3>2, <3>3
  <2> QED BY <2>1, <2>2
<1> HIDE DEF new
<1>2. LeafItems(new) = LeafItems(pgs) BY <1>1 DEF LeafItems
<1> QED BY <1>2 DEF new

\* N are the tuples of page b, if that is a leaf.
LEMMA FitLeaves ==
  ASSUME GoodPages(pages, lsn), NEW b \in Blocks, NEW N \in SUBSET Item,
         NEW left \in Blocks \cup {NoBlock}, NEW i \in LeafItems(FitPages(b, N, left))
  PROVE  i \in LeafItems(pages) \/ (pages[b].type = "leaf" /\ i \in N)
<1> DEFINE pg == [pages[b] EXCEPT !.items = N, !.lsn = lsn + 1]
           pgs == [pages EXCEPT ![b] = pg]
<1>1. pages \in [Blocks -> Page] /\ pages[b] \in Page /\ lsn + 1 \in Nat BY DEF GoodPages
<1>2. pg \in Page /\ pg.type = pages[b].type /\ pg.items = N BY <1>1 DEF Page
<1>3. FitPages(b, N, left) = WithLeftChild(pgs, left, lsn + 1) BY DEF FitPages
<1> HIDE DEF pg
<1>4. pgs \in [Blocks -> Page] /\ \A x \in Blocks : pgs[x] = IF x = b THEN pg ELSE pages[x]
  BY <1>1, <1>2
<1> HIDE DEF pgs
<1>5. i \in LeafItems(pgs) BY <1>3, <1>4, LeftChildLeaves
<1>6. PICK x \in Blocks : pgs[x].type = "leaf" /\ i \in pgs[x].items BY <1>5 DEF LeafItems
<1>7. CASE x = b BY <1>2, <1>4, <1>6, <1>7
<1>8. CASE x # b BY <1>4, <1>6, <1>8 DEF LeafItems
<1> QED BY <1>7, <1>8

LEMMA HalfLeaves ==
  ASSUME GoodPages(pages, lsn), NEW b \in Blocks, pages[b].type \in InTree, NEW N,
         NEW P \in Partitions(b, N), NEW blks, SplitBlocks(b, P, blks),
         NEW i \in LeafItems(HalfPages(b, P, blks))
  PROVE  i \in LeafItems(pages) \/ (pages[b].type = "leaf" /\ i \in N)
<1> DEFINE pgs == HalfPages(b, P, blks)
<1>1. PICK x \in Blocks : pgs[x].type = "leaf" /\ i \in pgs[x].items BY DEF LeafItems
<1>2. CASE \E n \in DOMAIN blks : blks[n] = x
  <2>1. IndexIn(blks, x) \in DOMAIN blks BY <1>2 DEF IndexIn
  <2>2. DOMAIN blks = 1..Len(P) BY PartitionFacts DEF SplitBlocks
  <2>3. P[IndexIn(blks, x)] \subseteq N BY <2>1, <2>2, PartitionFacts
  <2>4. pgs[x].type = pages[b].type /\ pgs[x].items = P[IndexIn(blks, x)]
    BY <1>2 DEF HalfPages
  <2> QED BY <1>1, <2>3, <2>4
<1>3. CASE ~\E n \in DOMAIN blks : blks[n] = x
  <2>1. pgs[x] = pages[x] BY <1>3 DEF HalfPages
  <2> QED BY <1>1, <2>1 DEF LeafItems
<1> QED BY <1>2, <1>3

LEMMA SplitLeaves ==
  ASSUME GoodPages(pages, lsn), NEW b \in Blocks \ {Root}, pages[b].type \in InTree,
         NEW N, TuplesFor(b, N), NEW P \in Partitions(b, N),
         NEW new \in FreshBlocks(Len(P) - 1), NEW left \in Blocks \cup {NoBlock},
         NEW i \in LeafItems(SplitPages(b, P, <<b>> \o new, left))
  PROVE  i \in LeafItems(pages) \/ (pages[b].type = "leaf" /\ i \in N)
<1> DEFINE blks == <<b>> \o new
<1>1. SplitBlocks(b, P, blks) BY PartitionFacts, PageBlocks
<1> HIDE DEF blks
<1>2. HalfPages(b, P, blks) \in [Blocks -> Page] BY <1>1, HalvesOK DEF GoodPages
<1>3. i \in LeafItems(HalfPages(b, P, blks)) BY <1>2, LeftChildLeaves DEF SplitPages, blks
<1> QED BY <1>1, <1>3, HalfLeaves

LEMMA RootSplitLeaves ==
  ASSUME GoodPages(pages, lsn), NEW N, TuplesFor(Root, N), NEW P \in Partitions(Root, N),
         NEW blks \in FreshBlocks(Len(P)), NEW left \in (Blocks \ {Root}) \cup {NoBlock},
         left # NoBlock => pages[left].type \in InTree,
         NEW i \in LeafItems(RootSplitPages(P, blks, left))
  PROVE  i \in LeafItems(pages) \/ (pages[Root].type = "leaf" /\ i \in N)
<1> DEFINE half == HalfPages(Root, P, blks)
           root == [type |-> "inner", items |-> {Downlink(blks[n], P[n]) : n \in DOMAIN blks},
                    right |-> NoBlock, nsn |-> 0, lsn |-> lsn + 1, follow |-> FALSE]
           pgs == [half EXCEPT ![Root] = root]
<1>1. Root \in Blocks /\ pages[Root].type \in InTree BY BlocksAssumption DEF GoodPages
<1>2. SplitBlocks(Root, P, blks) BY <1>1, PartitionFacts, RootBlocks
<1>3. half \in [Blocks -> Page] BY <1>1, <1>2, HalvesOK DEF GoodPages
<1>4. RootSplitPages(P, blks, left) = WithLeftChild(pgs, left, lsn + 1) BY DEF RootSplitPages
<1>5. root.type = "inner" OBVIOUS
<1> HIDE DEF half, root
<1>6. \A x \in Blocks : pgs[x] = IF x = Root THEN root ELSE half[x] BY <1>3
<1>7. pgs = [x \in Blocks |-> pgs[x]] BY <1>3
<1>8. left # NoBlock => pgs[left] \in Page BY <1>3, <1>6
<1> HIDE DEF pgs
<1>9. i \in LeafItems(pgs) BY <1>4, <1>7, <1>8, LeftChildLeaves
<1>10. PICK x \in Blocks : pgs[x].type = "leaf" /\ i \in pgs[x].items BY <1>9 DEF LeafItems
<1>11. x # Root /\ pgs[x] = half[x] BY <1>5, <1>6, <1>10
<1>12. i \in LeafItems(half) BY <1>10, <1>11 DEF LeafItems
<1> QED BY <1>1, <1>2, <1>12, HalfLeaves DEF half

\* A backend adds the entry it inserts, and nothing else, to the leaves.
NewItem(p) == LeafItem(EntriesOf[row[p]][pos[p]])
LeavesKept(p) == \A i \in LeafItems(pages') : i \in LeafItems(pages) \/ i = NewItem(p)

LEMMA PlaceDownlinkLeaves ==
  ASSUME IInv, NEW p \in Inserters, pc[p] \in {"visit", "lockinner"},
         TopPage(p).type = "inner", NEW d \in TopPage(p).items, PlaceDownlink(p, d)
  PROVE  LeavesKept(p)
<1> DEFINE b == Top(p).blk
           N == (TopPage(p).items \ {d}) \cup {[d EXCEPT !.pred = @ \cup {Key(p)}]}
<1>1. /\ pc[p] # "idle" /\ GoodPages(pages, lsn) /\ b \in Blocks /\ pages[b].type = "inner"
      /\ pages[b] \in Page /\ GoodPage(pages[b]) /\ pages[b] = TopPage(p)
  BY TopFacts DEF IInv, GoodPages, Splitting, TopPage
<1>2. TuplesFor(b, N)
  <2>1. pages[b].items \subseteq Item /\ \A i \in pages[b].items : i.ptr \in Blocks
    BY <1>1 DEF Page, GoodPage
  <2>2. d \in Item /\ d.ptr \in Blocks BY <1>1, <2>1
  <2>3. /\ [d EXCEPT !.pred = @ \cup {Key(p)}] \in Item
        /\ [d EXCEPT !.pred = @ \cup {Key(p)}].ptr \in Blocks
    BY <1>1, <2>2, EntryFacts DEF Item
  <2> QED BY <1>1, <2>1, <2>3 DEF TuplesFor
<1> HIDE DEF N
<1>3. SUFFICES ASSUME NEW i \in LeafItems(pages') PROVE i \in LeafItems(pages)
  BY DEF LeavesKept
<1>4. CASE pages' = FitPages(b, N, NoBlock)
  BY <1>1, <1>2, <1>4, FitLeaves DEF TuplesFor
<1>5. CASE b = Root /\ \E P \in Partitions(b, N) : \E blks \in FreshBlocks(Len(P)) :
             pages' = RootSplitPages(P, blks, NoBlock)
  BY <1>1, <1>2, <1>5, RootSplitLeaves
<1>6. CASE b # Root /\ \E P \in Partitions(b, N) : \E new \in FreshBlocks(Len(P) - 1) :
             pages' = SplitPages(b, P, <<b>> \o new, NoBlock)
  BY <1>1, <1>2, <1>6, SplitLeaves DEF InTree
<1> QED BY <1>4, <1>5, <1>6 DEF PlaceDownlink, N

LEMMA PlaceEntryLeaves ==
  ASSUME IInv, NEW p \in Inserters, pc[p] \in {"visit", "lockleaf"},
         TopPage(p).type = "leaf", PlaceEntry(p)
  PROVE  LeavesKept(p)
<1> DEFINE b == Top(p).blk
           N == TopPage(p).items \cup {NewItem(p)}
<1>1. /\ pc[p] # "idle" /\ GoodPages(pages, lsn) /\ b \in Blocks /\ pages[b].type = "leaf"
      /\ pages[b] \in Page /\ GoodPage(pages[b]) /\ pages[b] = TopPage(p)
  BY TopFacts DEF IInv, GoodPages, Splitting, TopPage
<1>2. TuplesFor(b, N)
  <2>1. pages[b].items \subseteq Item /\ \A i \in pages[b].items : i.ptr \in Entries
    BY <1>1 DEF Page, GoodPage
  <2>2. ASSUME NEW e \in Entries PROVE LeafItem(e) \in Item /\ LeafItem(e).ptr \in Entries
    BY RowsAssumption DEF LeafItem, Item
  <2>3. EntriesOf[row[p]][pos[p]] \in Entries BY <1>1, EntryFacts
  <2> QED BY <1>1, <2>1, <2>2, <2>3 DEF TuplesFor, NewItem
<1>3. \A i \in N : i \in LeafItems(pages) \/ i = NewItem(p) BY <1>1 DEF LeafItems
<1>7. PlaceEntry(p) => \/ pages' = FitPages(b, N, NoBlock)
                       \/ b = Root /\ \E P \in Partitions(b, N) : \E blks \in FreshBlocks(Len(P)) :
                                         pages' = RootSplitPages(P, blks, NoBlock)
                       \/ b # Root /\ \E P \in Partitions(b, N) : \E new \in FreshBlocks(Len(P) - 1) :
                                         pages' = SplitPages(b, P, <<b>> \o new, NoBlock)
  BY DEF PlaceEntry, NewItem
<1> HIDE DEF N
<1>4. CASE pages' = FitPages(b, N, NoBlock)
  BY <1>1, <1>2, <1>3, <1>4, FitLeaves DEF TuplesFor, LeavesKept
<1>5. CASE b = Root /\ \E P \in Partitions(b, N) : \E blks \in FreshBlocks(Len(P)) :
             pages' = RootSplitPages(P, blks, NoBlock)
  BY <1>1, <1>2, <1>3, <1>5, RootSplitLeaves DEF LeavesKept
<1>6. CASE b # Root /\ \E P \in Partitions(b, N) : \E new \in FreshBlocks(Len(P) - 1) :
             pages' = SplitPages(b, P, <<b>> \o new, NoBlock)
  BY <1>1, <1>2, <1>3, <1>6, SplitLeaves DEF InTree, LeavesKept
<1> QED BY <1>4, <1>5, <1>6, <1>7

LEMMA InsertDownlinkLeaves ==
  ASSUME IInv, NEW p \in Inserters, InsertDownlink(p) PROVE LeavesKept(p)
<1> DEFINE hs == fin[p][1].halves
           b == ParentBlk(p)
           N == ParentItems(p)
           left == hs[Len(hs) - 1].blk
<1>1. pc[p] = "finish" /\ DownlinksOn(b, ChildBlk(p)) # {}
  BY DEF InsertDownlink, Finishing
<1>2. pages[b].type = "inner" /\ TuplesFor(b, N) BY <1>1, ParentItemsOK
<1>3. /\ b \in Blocks /\ hs \in Seq(Half) /\ Len(hs) \in Nat /\ Len(hs) >= 2
      /\ \A h \in 1..Len(hs) : hs[h].blk \in Blocks /\ InUse(hs[h].blk, pages)
  BY <1>1, CallFacts DEF Splitting
<1>4. Len(hs) - 1 \in 1..Len(hs) BY <1>3
<1>5. left \in Blocks \ {Root} /\ pages[left].type \in InTree BY <1>3, <1>4 DEF InUse
<1>6. GoodPages(pages, lsn) BY DEF IInv
<1>10. \/ pages' = FitPages(b, N, left)
       \/ b = Root /\ \E P \in Partitions(b, N) : \E blks \in FreshBlocks(Len(P)) :
                         pages' = RootSplitPages(P, blks, left)
       \/ b # Root /\ \E P \in Partitions(b, N) : \E new \in FreshBlocks(Len(P) - 1) :
                         pages' = SplitPages(b, P, <<b>> \o new, left)
  BY DEF InsertDownlink
<1> HIDE DEF N, left, b
<1>11. SUFFICES ASSUME NEW i \in LeafItems(pages') PROVE i \in LeafItems(pages)
  BY DEF LeavesKept
<1>7. CASE pages' = FitPages(b, N, left)
  BY <1>2, <1>3, <1>5, <1>6, <1>7, FitLeaves DEF TuplesFor
<1>8. CASE b = Root /\ \E P \in Partitions(b, N) : \E blks \in FreshBlocks(Len(P)) :
             pages' = RootSplitPages(P, blks, left)
  BY <1>2, <1>5, <1>6, <1>8, RootSplitLeaves
<1>9. CASE b # Root /\ \E P \in Partitions(b, N) : \E new \in FreshBlocks(Len(P) - 1) :
             pages' = SplitPages(b, P, <<b>> \o new, left)
  BY <1>2, <1>3, <1>5, <1>6, <1>9, SplitLeaves DEF InTree
<1> QED BY <1>7, <1>8, <1>9, <1>10

\* A backend goes on with its row, or is done with it one way or the other.
GoesOnWithRow(p) == rowst' = rowst /\ row' = row /\ pc'[p] # "idle"
EndsRow(p, st) == rowst' = [rowst EXCEPT ![row[p]] = st] /\ pc'[p] = "idle"
RowEffect(p) ==
  /\ pc[p] # "idle" /\ scan' = scan
  /\ LeavesKept(p)
  /\ GoesOnWithRow(p) \/ EndsRow(p, "present") \/ EndsRow(p, "aborted")

LEMMA SamePagesLeaves == ASSUME NEW p, pages' = pages PROVE LeavesKept(p)
BY DEF LeavesKept, LeafItems

LEMMA EntryDoneEffect ==
  ASSUME IInv, NEW p \in Inserters, EntryDone(p) PROVE GoesOnWithRow(p) \/ EndsRow(p, "present")
<1>1. pc \in [Inserters -> PCs] BY DEF IInv, TypeOK
<1> QED BY <1>1 DEF EntryDone, Proceed, GoesOnWithRow, EndsRow

LEMMA AbandonEffect ==
  ASSUME IInv, NEW p \in Inserters, pc[p] # "idle", Abandon(p) PROVE RowEffect(p)
<1>1. pc \in [Inserters -> PCs] BY DEF IInv, TypeOK
<1> QED BY <1>1, SamePagesLeaves DEF Abandon, Proceed, RowEffect, EndsRow

LEMMA PlaceDownlinkEffect ==
  ASSUME IInv, NEW p \in Inserters, pc[p] \in {"visit", "lockinner"},
         TopPage(p).type = "inner", NEW d \in TopPage(p).items, PlaceDownlink(p, d)
  PROVE  RowEffect(p)
<1>1. pc \in [Inserters -> PCs] BY DEF IInv, TypeOK
<1>2. rowst' = rowst /\ row' = row /\ scan' = scan BY DEF PlaceDownlink
<1>3. pc'[p] # "idle" BY <1>1 DEF PlaceDownlink, Proceed, StartFinish
<1> QED BY <1>2, <1>3, PlaceDownlinkLeaves DEF RowEffect, GoesOnWithRow

LEMMA PlaceEntryEffect ==
  ASSUME IInv, NEW p \in Inserters, pc[p] \in {"visit", "lockleaf"},
         TopPage(p).type = "leaf", PlaceEntry(p)
  PROVE  RowEffect(p)
<1>1. pc \in [Inserters -> PCs] BY DEF IInv, TypeOK
<1>2. scan' = scan BY DEF PlaceEntry
<1>3. EntryDone(p) \/ (rowst' = rowst /\ row' = row /\ pc' = [pc EXCEPT ![p] = "finish"])
  BY DEF PlaceEntry, StartFinish, Proceed
<1>4. GoesOnWithRow(p) \/ EndsRow(p, "present")
  BY <1>1, <1>3, EntryDoneEffect DEF GoesOnWithRow
<1> QED BY <1>2, <1>4, PlaceEntryLeaves DEF RowEffect

LEMMA VisitAdjustEffect == ASSUME IInv, NEW p \in Inserters, VisitAdjust(p) PROVE RowEffect(p)
<1>1. pc \in [Inserters -> PCs] /\ pc[p] = "visit" /\ TopPage(p).type = "inner"
  BY DEF VisitAdjust, Visiting, IInv, TypeOK
<1>2. PICK d \in TopPage(p).items :
        \/ PlaceDownlink(p, d)
        \/ pages' = pages /\ rowst' = rowst /\ row' = row /\ scan' = scan
           /\ pc' = [pc EXCEPT ![p] = "lockinner"]
  BY DEF VisitAdjust, Proceed, treeVars
<1> QED BY <1>1, <1>2, PlaceDownlinkEffect, SamePagesLeaves DEF RowEffect, GoesOnWithRow

LEMMA LockInnerEffect == ASSUME IInv, NEW p \in Inserters, LockInner(p) PROVE RowEffect(p)
<1>1. pc \in [Inserters -> PCs] /\ pc[p] = "lockinner" BY DEF LockInner, IInv, TypeOK
<1>2. TopPage(p).type = "inner" BY <1>1 DEF IInv, ProcOK, KindOK, TopPage, Top, Depth
<1>3. \/ \E d \in TopPage(p).items : PlaceDownlink(p, d)
      \/ pages' = pages /\ rowst' = rowst /\ row' = row /\ scan' = scan
         /\ pc' = [pc EXCEPT ![p] = "visit"]
  BY DEF LockInner, Proceed
<1> QED BY <1>1, <1>2, <1>3, PlaceDownlinkEffect, SamePagesLeaves DEF RowEffect, GoesOnWithRow

LEMMA VisitLeafEffect == ASSUME IInv, NEW p \in Inserters, VisitLeaf(p) PROVE RowEffect(p)
<1>1. pc \in [Inserters -> PCs] /\ pc[p] = "visit" /\ TopPage(p).type = "leaf"
  BY DEF VisitLeaf, Visiting, IInv, TypeOK
<1>2. \/ PlaceEntry(p)
      \/ pages' = pages /\ rowst' = rowst /\ row' = row /\ scan' = scan
         /\ pc' = [pc EXCEPT ![p] = "lockleaf"]
  BY DEF VisitLeaf, Proceed, treeVars
<1> QED BY <1>1, <1>2, PlaceEntryEffect, SamePagesLeaves DEF RowEffect, GoesOnWithRow

LEMMA LockLeafEffect == ASSUME IInv, NEW p \in Inserters, LockLeaf(p) PROVE RowEffect(p)
<1>1. pc \in [Inserters -> PCs] /\ pc[p] = "lockleaf" BY DEF LockLeaf, IInv, TypeOK
<1>2. \/ (IF Top(p).blk = Root THEN TopPage(p).type = "leaf" ELSE ~LeafMoved(p)) /\ PlaceEntry(p)
      \/ pages' = pages /\ rowst' = rowst /\ row' = row /\ scan' = scan
         /\ pc' = [pc EXCEPT ![p] = "visit"]
  BY DEF LockLeaf, Proceed, treeVars
<1>3. TopPage(p).type \in {"leaf", "deleted"} \/ Top(p).blk = Root
  BY <1>1 DEF IInv, ProcOK, KindOK, TopPage, Top, Depth
<1>4. (IF Top(p).blk = Root THEN TopPage(p).type = "leaf" ELSE ~LeafMoved(p)) =>
        TopPage(p).type = "leaf"
  BY <1>3 DEF LeafMoved, Stale
<1> QED BY <1>1, <1>2, <1>4, PlaceEntryEffect, SamePagesLeaves DEF RowEffect, GoesOnWithRow

LEMMA InsertDownlinkEffect ==
  ASSUME IInv, NEW p \in Inserters, InsertDownlink(p) PROVE RowEffect(p)
<1>1. pc \in [Inserters -> PCs] /\ pc[p] = "finish" BY DEF InsertDownlink, Finishing, IInv, TypeOK
<1>2. rowst' = rowst /\ row' = row /\ scan' = scan BY DEF InsertDownlink
<1>3. pc'[p] # "idle" BY <1>1 DEF InsertDownlink, Proceed
<1> QED BY <1>1, <1>2, <1>3, InsertDownlinkLeaves DEF RowEffect, GoesOnWithRow

LEMMA FinishReturnEffect ==
  ASSUME IInv, NEW p \in Inserters, FinishReturn(p) PROVE RowEffect(p)
<1>1. pc \in [Inserters -> PCs] /\ pc[p] = "return" BY DEF FinishReturn, IInv, TypeOK
<1>2. pages' = pages /\ scan' = scan BY DEF FinishReturn
<1>3. EntryDone(p) \/ (rowst' = rowst /\ row' = row /\ pc' = [pc EXCEPT ![p] = "visit"])
  BY DEF FinishReturn, Proceed
<1>4. GoesOnWithRow(p) \/ EndsRow(p, "present")
  BY <1>1, <1>3, EntryDoneEffect DEF GoesOnWithRow
<1> QED BY <1>1, <1>2, <1>4, SamePagesLeaves DEF RowEffect

\* The other steps write no page and keep the row.
LEMMA MovesEffect ==
  ASSUME IInv, NEW p \in Inserters,
         \/ PopRetry(p) \/ VisitStale(p) \/ VisitInner(p) \/ VisitFollow(p) \/ LockFix(p)
         \/ FixChain(p) \/ FinishLock(p) \/ FinishMoveRight(p) \/ FindPathStep(p)
  PROVE  RowEffect(p)
<1>1. pc \in [Inserters -> PCs] BY DEF IInv, TypeOK
<1>2. CASE PopRetry(p) BY <1>2, SamePagesLeaves DEF PopRetry, RowEffect, GoesOnWithRow
<1>3. CASE VisitStale(p) BY <1>3, SamePagesLeaves DEF VisitStale, Visiting, RowEffect, GoesOnWithRow
<1>4. CASE VisitInner(p) BY <1>4, SamePagesLeaves DEF VisitInner, Visiting, RowEffect, GoesOnWithRow
<1>5. CASE VisitFollow(p)
  BY <1>1, <1>5, SamePagesLeaves
     DEF VisitFollow, StartFix, Visiting, Proceed, treeVars, RowEffect, GoesOnWithRow
<1>6. CASE LockFix(p)
  BY <1>1, <1>6, SamePagesLeaves DEF LockFix, StartFix, Proceed, RowEffect, GoesOnWithRow
<1>7. CASE FixChain(p)
  BY <1>1, <1>7, SamePagesLeaves DEF FixChain, Proceed, RowEffect, GoesOnWithRow
<1>8. CASE FinishLock(p)
  BY <1>8, SamePagesLeaves DEF FinishLock, Finishing, RowEffect, GoesOnWithRow
<1>9. CASE FinishMoveRight(p)
  BY <1>1, <1>9, SamePagesLeaves DEF FinishMoveRight, Finishing, Proceed, RowEffect, GoesOnWithRow
<1>10. CASE FindPathStep(p)
  <2>1. pc[p] = "findpath" /\ pages' = pages /\ rowst' = rowst /\ row' = row /\ scan' = scan
    BY <1>10 DEF FindPathStep, treeVars
  <2>2. pc' = [pc EXCEPT ![p] = "finish"] \/ pc' = pc BY <1>10 DEF FindPathStep, Proceed
  <2> QED BY <1>1, <2>1, <2>2, SamePagesLeaves DEF RowEffect, GoesOnWithRow
<1> QED BY <1>2, <1>3, <1>4, <1>5, <1>6, <1>7, <1>8, <1>9, <1>10

LEMMA StepEffect == ASSUME IInv, NEW p \in Inserters, Step(p) PROVE RowEffect(p)
<1>1. CASE \/ PopRetry(p) \/ VisitStale(p) \/ VisitInner(p) \/ VisitFollow(p) \/ LockFix(p)
           \/ FixChain(p) \/ FinishLock(p) \/ FinishMoveRight(p) \/ FindPathStep(p)
  BY <1>1, MovesEffect
<1>2. CASE FindPathError(p)
  <2>1. pc[p] # "idle" /\ Abandon(p) BY <1>2 DEF FindPathError
  <2> QED BY <2>1, AbandonEffect
<1>3. CASE InsertDownlinkError(p)
  <2>1. pc[p] # "idle" /\ Abandon(p) BY <1>3 DEF InsertDownlinkError, Finishing
  <2> QED BY <2>1, AbandonEffect
<1> QED BY <1>1, <1>2, <1>3, VisitAdjustEffect, LockInnerEffect, VisitLeafEffect,
           LockLeafEffect, InsertDownlinkEffect, FinishReturnEffect DEF Step

LEMMA FailEffect == ASSUME IInv, NEW p \in Inserters, Fail(p) PROVE RowEffect(p)
BY AbandonEffect DEF Fail

\* The parts of ContractInv, one step at a time.  Nothing given to the index is
\* taken back.
NoneTakenBack == \A r \in Rows : Given(r) => Given(r)'

LEMMA LeafItemFacts ==
  ASSUME IInv, NEW i \in LeafItems(pages) PROVE i.ptr \in Entries
BY DEF LeafItems, IInv, GoodPages, GoodPage

LEMMA LeavesStayIndexed ==
  ASSUME IInv, LeavesIndexed, NoneTakenBack, pages' = pages PROVE LeavesIndexed'
<1>1. \A i \in LeafItems(pages) : RowOf(i.ptr) \in Rows BY LeafItemFacts, EntryRow
<1> QED BY <1>1 DEF LeavesIndexed, NoneTakenBack, LeafItems, Given

LEMMA ScansStaySound ==
  ASSUME ScansSound, NoneTakenBack, scan' = scan PROVE ScansSound'
BY DEF ScansSound, NoneTakenBack, Matching, Given

LEMMA RowEffectOK ==
  ASSUME IInv, ContractInv, NEW p \in Inserters, RowEffect(p), OthersSame(p)
  PROVE  ContractInv' /\ rowst[row[p]] = "inserting" /\ row[p] \in Rows
<1>1. /\ rowst \in [Rows -> {"absent", "inserting", "present", "aborted", "dead"}]
      /\ row \in [Inserters -> Rows] /\ row[p] \in Rows
      /\ pc[p] # "idle" /\ rowst[row[p]] = "inserting"
  BY DEF IInv, TypeOK, ContractInv, OwnRows, RowEffect
<1>2. GoesOnWithRow(p) \/ \E st \in {"present", "aborted"} : EndsRow(p, st)
  BY DEF RowEffect
<1>3. \A q \in Inserters \ {p} : pc'[q] = pc[q] /\ row'[q] = row[q] BY DEF OthersSame
<1>4. \A r \in Rows : rowst'[r] = rowst[r] \/ (r = row[p] /\ pc'[p] = "idle" /\ rowst'[r] \in {"present", "aborted"})
  BY <1>1, <1>2 DEF GoesOnWithRow, EndsRow
<1>5. NoneTakenBack BY <1>1, <1>4 DEF NoneTakenBack, Given
<1>6. OwnRows'
  <2>1. ASSUME NEW q \in Inserters, pc'[q] # "idle"
        PROVE  pc[q] # "idle" /\ row'[q] = row[q] /\ rowst'[row[q]] = "inserting"
    <3>1. CASE q = p BY <1>1, <1>2, <2>1, <3>1 DEF GoesOnWithRow, EndsRow
    <3>2. CASE q # p
      <4>1. pc[q] # "idle" /\ row'[q] = row[q] /\ row[q] \in Rows BY <1>1, <1>3, <2>1, <3>2
      <4>2. rowst[row[q]] = "inserting" /\ row[q] # row[p]
        BY <1>1, <3>2, <4>1 DEF ContractInv, OwnRows
      <4> QED BY <1>4, <4>1, <4>2
    <3> QED BY <3>1, <3>2
  <2> QED BY <2>1 DEF ContractInv, OwnRows
<1>7. LeavesIndexed'
  <2>1. ASSUME NEW i \in LeafItems(pages') PROVE i = LeafItem(i.ptr) /\ Given(RowOf(i.ptr))'
    <3>1. CASE i \in LeafItems(pages)
      <4>1. RowOf(i.ptr) \in Rows BY <3>1, LeafItemFacts, EntryRow
      <4> QED BY <1>5, <3>1, <4>1 DEF ContractInv, LeavesIndexed, NoneTakenBack
    <3>2. CASE i = NewItem(p)
      <4> DEFINE e == EntriesOf[row[p]][pos[p]]
      <4>1. e \in Entries BY <1>1, EntryFacts
      <4>2. pos[p] \in DOMAIN EntriesOf[row[p]]
        <5>1. EntriesOf[row[p]] \in Seq(Entries) BY <1>1, RowsAssumption
        <5>2. pos[p] \in 1..Len(EntriesOf[row[p]]) BY <1>1 DEF IInv, ProcOK
        <5> QED BY <5>1, <5>2
      <4>3. RowOf(e) = row[p] BY <1>1, <4>1, <4>2, RowOfEntry
      <4>4. i = LeafItem(e) /\ i.ptr = e BY <3>2 DEF NewItem, LeafItem
      <4>5. rowst'[row[p]] # "absent" BY <1>1, <1>4
      <4> HIDE DEF e
      <4> QED BY <4>3, <4>4, <4>5 DEF Given
    <3> QED BY <3>1, <3>2 DEF RowEffect, LeavesKept
  <2> QED BY <2>1 DEF LeavesIndexed
<1>8. ScansSound' BY <1>5, ScansStaySound DEF ContractInv, RowEffect
<1> QED BY <1>1, <1>6, <1>7, <1>8 DEF ContractInv

LEMMA BeginRowContractOK ==
  ASSUME IInv, ContractInv, NEW p \in Inserters, NEW r \in Rows, BeginRow(p, r) PROVE ContractInv'
<1>1. /\ rowst \in [Rows -> {"absent", "inserting", "present", "aborted", "dead"}]
      /\ row \in [Inserters -> Rows] /\ pc \in [Inserters -> PCs]
      /\ rowst[r] = "absent" /\ pc[p] = "idle"
      /\ rowst' = [rowst EXCEPT ![r] = "inserting"] /\ row' = [row EXCEPT ![p] = r]
      /\ pc' = [pc EXCEPT ![p] = "visit"] /\ pages' = pages /\ scan' = scan
  BY DEF IInv, TypeOK, BeginRow, Proceed, treeVars
<1>2. NoneTakenBack BY <1>1 DEF NoneTakenBack, Given
<1>3. OwnRows'
  <2>1. ASSUME NEW q \in Inserters, q # p, pc'[q] # "idle"
        PROVE  pc[q] # "idle" /\ row'[q] = row[q] /\ row[q] # r /\ rowst'[row[q]] = "inserting"
    <3>1. pc[q] # "idle" /\ row'[q] = row[q] /\ row[q] \in Rows BY <1>1, <2>1
    <3>2. rowst[row[q]] = "inserting" BY <3>1 DEF ContractInv, OwnRows
    <3> QED BY <1>1, <3>1, <3>2
  <2>2. row'[p] = r /\ rowst'[r] = "inserting" BY <1>1
  <2> QED BY <2>1, <2>2 DEF ContractInv, OwnRows
<1> QED BY <1>1, <1>2, <1>3, LeavesStayIndexed, ScansStaySound DEF ContractInv

LEMMA CrashContractOK == ASSUME IInv, ContractInv, Crash PROVE ContractInv'
<1>1. /\ rowst' = [r \in Rows |-> IF rowst[r] = "inserting" THEN "aborted" ELSE rowst[r]]
      /\ pc' = [p \in Inserters |-> "idle"] /\ pages' = pages
      /\ scan' = [s \in Scanners |-> ReadyScan]
  BY DEF Crash
<1>2. NoneTakenBack BY <1>1 DEF NoneTakenBack, Given
<1>3. OwnRows' BY <1>1 DEF OwnRows
<1>4. ReadyScan.found = {} BY DEF ReadyScan
<1>5. ScansSound' BY <1>1, <1>4 DEF ScansSound
<1> QED BY <1>1, <1>2, <1>3, <1>5, LeavesStayIndexed DEF ContractInv

\* A scan that has begun, and found nothing but matching rows.
LEMMA ScanContractOK ==
  ASSUME IInv, ContractInv, UNCHANGED <<treeVars, procVars>>, NEW s \in Scanners,
         NEW q, q.st # "ready", q.found \subseteq Matching(q.key), scan' = [scan EXCEPT ![s] = q]
  PROVE  ContractInv'
<1>1. rowst' = rowst /\ row' = row /\ pc' = pc /\ pages' = pages BY DEF treeVars, procVars
<1>2. OwnRows' BY <1>1 DEF ContractInv, OwnRows
<1>3. NoneTakenBack BY <1>1 DEF NoneTakenBack, Given
<1>4. \A k : Matching(k)' = Matching(k) BY <1>1 DEF Matching, Given
<1>5. \A t \in Scanners : scan'[t] = IF t = s THEN q ELSE scan[t] BY DEF IInv, TypeOK
<1>6. ScansSound' BY <1>4, <1>5 DEF ContractInv, ScansSound
<1> QED BY <1>1, <1>2, <1>3, <1>6, LeavesStayIndexed DEF ContractInv

LEMMA ScanStartContractOK ==
  ASSUME IInv, ContractInv, NEW s \in Scanners, NEW k \in Keys, ScanStart(s, k) PROVE ContractInv'
<1> DEFINE q == [st |-> "running", key |-> k, queue |-> {[blk |-> Root, plsn |-> 0]},
                 found |-> {},
                 must |-> {r \in Rows : rowst[r] = "present" /\ k \in RowKeys(r)}]
<1>1. scan' = [scan EXCEPT ![s] = q] /\ UNCHANGED <<treeVars, procVars>> BY DEF ScanStart
<1>2. q.st # "ready" /\ q.found = {} OBVIOUS
<1> HIDE DEF q
<1>3. q.found \subseteq Matching(q.key) BY <1>2
<1> QED BY <1>1, <1>2, <1>3, ScanContractOK

LEMMA ScanPageEffect ==
  ASSUME IInv, ContractInv, NEW s \in Scanners, ScanPage(s)
  PROVE  \E q \in ScanState :
           /\ scan' = [scan EXCEPT ![s] = q] /\ q.found \subseteq Matching(q.key)
           /\ q.st = scan[s].st /\ q.key = scan[s].key /\ q.must = scan[s].must
<1>1. PICK i \in scan[s].queue : scan' = [scan EXCEPT ![s] = Examined(scan[s], i)]
  BY DEF ScanPage
<1> DEFINE pg == pages[i.blk]
           hits == {t \in pg.items : scan[s].key \in t.pred}
           q == Examined(scan[s], i)
<1>2. scan[s] \in ScanState /\ scan[s].found \subseteq Matching(scan[s].key) /\ i.blk \in Blocks
  BY DEF IInv, TypeOK, ScanState, ContractInv, ScansSound
<1>3. q.st = scan[s].st /\ q.key = scan[s].key /\ q.must = scan[s].must
  BY <1>2 DEF Examined, ScanState
<1>4. q \in ScanState
  <2>1. TypeOK' /\ scan \in [Scanners -> ScanState] BY ScanPageOK DEF IInv, TypeOK
  <2>2. scan'[s] = q /\ scan'[s] \in ScanState BY <1>1, <2>1 DEF TypeOK
  <2> QED BY <2>2
<1>5. q.found \subseteq Matching(q.key)
  <2>1. CASE pg.type = "leaf"
    <3>1. q.found = scan[s].found \cup {RowOf(t.ptr) : t \in hits}
      BY <1>2, <2>1 DEF Examined, ScanState
    <3>2. ASSUME NEW t \in hits PROVE RowOf(t.ptr) \in Matching(scan[s].key)
      <4>1. t \in LeafItems(pages) BY <1>2, <2>1 DEF LeafItems
      <4>2. t = LeafItem(t.ptr) /\ Given(RowOf(t.ptr)) /\ t.ptr \in Entries
        BY <4>1, LeafItemFacts DEF ContractInv, LeavesIndexed
      <4>3. t.pred = {KeyOf[t.ptr]} BY <4>2 DEF LeafItem
      <4>4. scan[s].key = KeyOf[t.ptr] BY <4>3
      <4> QED BY <4>2, <4>4, EntryRow DEF Matching
    <3> QED BY <1>2, <1>3, <3>1, <3>2
  <2>2. CASE pg.type # "leaf"
    <3>1. q.found = scan[s].found BY <1>2, <2>2 DEF Examined, ScanState
    <3> QED BY <1>2, <1>3, <3>1
  <2> QED BY <2>1, <2>2
<1> QED BY <1>1, <1>3, <1>4, <1>5

LEMMA ScanStepContractOK ==
  ASSUME IInv, ContractInv, NEW s \in Scanners, ScanStep(s) PROVE ContractInv'
<1>1. CASE ScanPage(s)
  <2>1. PICK q \in ScanState :
           /\ scan' = [scan EXCEPT ![s] = q] /\ q.found \subseteq Matching(q.key)
           /\ q.st = scan[s].st
    BY <1>1, ScanPageEffect
  <2>2. scan[s].st = "running" /\ UNCHANGED <<treeVars, procVars>> BY <1>1 DEF ScanPage
  <2> QED BY <2>1, <2>2, ScanContractOK
<1>2. CASE ScanEnd(s)
  <2> DEFINE q == [scan[s] EXCEPT !.st = "done"]
  <2>1. scan' = [scan EXCEPT ![s] = q] /\ UNCHANGED <<treeVars, procVars>> BY <1>2 DEF ScanEnd
  <2>2. q.st = "done" /\ q.found = scan[s].found /\ q.key = scan[s].key
    BY DEF IInv, TypeOK, ScanState
  <2>3. scan[s].found \subseteq Matching(scan[s].key) BY DEF ContractInv, ScansSound
  <2> HIDE DEF q
  <2> QED BY <2>1, <2>2, <2>3, ScanContractOK
<1> QED BY <1>1, <1>2 DEF ScanStep

LEMMA ContractNextOK == IInv /\ ContractInv /\ [Next]_vars => ContractInv'
<1> SUFFICES ASSUME IInv, ContractInv, [Next]_vars PROVE ContractInv' OBVIOUS
<1>1. CASE UNCHANGED vars
  <2>1. rowst' = rowst /\ row' = row /\ pc' = pc /\ pages' = pages /\ scan' = scan
    BY <1>1 DEF vars, treeVars, procVars
  <2>2. NoneTakenBack BY <2>1 DEF NoneTakenBack, Given
  <2>3. OwnRows' BY <2>1 DEF ContractInv, OwnRows
  <2> QED BY <2>1, <2>2, <2>3, LeavesStayIndexed, ScansStaySound DEF ContractInv
<1>2. ASSUME NEW p \in Inserters, NEW r \in Rows, BeginRow(p, r) PROVE ContractInv'
  BY <1>2, BeginRowContractOK
<1>3. ASSUME NEW p \in Inserters, Step(p) PROVE ContractInv'
  BY <1>3, StepEffect, TreeStepOK, RowEffectOK
<1>4. ASSUME NEW p \in Inserters, Fail(p) PROVE ContractInv'
  BY <1>4, FailEffect, FailOK, RowEffectOK
<1>5. CASE Crash BY <1>5, CrashContractOK
<1>6. ASSUME NEW s \in Scanners, NEW k \in Keys, ScanStart(s, k) PROVE ContractInv'
  BY <1>6, ScanStartContractOK
<1>7. ASSUME NEW s \in Scanners, ScanStep(s) PROVE ContractInv'
  BY <1>7, ScanStepContractOK
<1> QED BY <1>1, <1>2, <1>3, <1>4, <1>5, <1>6, <1>7 DEF Next

LEMMA ContractInitOK == Init => ContractInv
<1> SUFFICES ASSUME Init PROVE ContractInv OBVIOUS
<1>1. PICK t \in InitTrees :
        /\ pages = InitPages(t)
        /\ rowst = [r \in Rows |-> IF r \in t.rows THEN "present" ELSE "absent"]
  BY DEF Init
<1>2. pc = [p \in Inserters |-> "idle"] /\ scan = [s \in Scanners |-> ReadyScan] BY DEF Init
<1>3. OwnRows BY <1>2 DEF OwnRows
<1>4. ScansSound BY <1>2 DEF ScansSound, ReadyScan
<1>5. ASSUME NEW i \in LeafItems(pages) PROVE i = LeafItem(i.ptr) /\ Given(RowOf(i.ptr))
  <2>1. PICK b \in Blocks : pages[b].type = "leaf" /\ i \in pages[b].items BY DEF LeafItems
  <2>2. b \in DOMAIN t.items \ t.inner /\ i \in t.items[b]
    BY <1>1, <2>1 DEF InitPages, EmptyPage
  <2>3. i = LeafItem(i.ptr) /\ \E r \in t.rows : \E n \in DOMAIN EntriesOf[r] : EntriesOf[r][n] = i.ptr
    BY <2>2, IndexedAssumption DEF IndexedTree
  <2>4. PICK r \in t.rows : \E n \in DOMAIN EntriesOf[r] : EntriesOf[r][n] = i.ptr BY <2>3
  <2>5. PICK n \in DOMAIN EntriesOf[r] : EntriesOf[r][n] = i.ptr BY <2>4
  <2>6. r \in Rows BY InitAssumption DEF InitTree
  <2>7. i.ptr \in Entries BY LeafItemFacts, InitOK
  <2>8. RowOf(i.ptr) = r BY <2>5, <2>6, <2>7, RowOfEntry
  <2> QED BY <1>1, <2>3, <2>6, <2>8 DEF Given
<1> QED BY <1>3, <1>4, <1>5 DEF ContractInv, LeavesIndexed
-----------------------------------------------------------------------------
\* Every step of the tree is a step of the contract or changes nothing it speaks of.
Query == [s \in Scanners |-> Hidden(scan[s])]
ContractStep == [Contract!Next]_<<rowst, Query>>

LEMMA SameQueries == ASSUME scan' = scan PROVE Query' = Query
BY DEF Query, Hidden

LEMMA QueryUpdate ==
  ASSUME IInv, NEW s \in Scanners, NEW q, scan' = [scan EXCEPT ![s] = q]
  PROVE  Query' = [Query EXCEPT ![s] = Hidden(q)]
<1>1. \A t \in Scanners : scan'[t] = IF t = s THEN q ELSE scan[t] BY DEF IInv, TypeOK
<1> QED BY <1>1 DEF Query, Hidden

LEMMA RowContractStep ==
  ASSUME IInv, ContractInv, NEW p \in Inserters, RowEffect(p), OthersSame(p)
  PROVE  ContractStep
<1>1. rowst[row[p]] = "inserting" /\ row[p] \in Rows BY RowEffectOK
<1>2. Query' = Query BY SameQueries DEF RowEffect
<1>3. CASE rowst' = rowst BY <1>2, <1>3 DEF ContractStep
<1>4. CASE rowst' = [rowst EXCEPT ![row[p]] = "present"]
  <2>1. Contract!Commit(row[p]) BY <1>1, <1>2, <1>4 DEF Contract!Commit, Query
  <2> QED BY <1>1, <2>1 DEF ContractStep, Contract!Next
<1>5. CASE rowst' = [rowst EXCEPT ![row[p]] = "aborted"]
  <2>1. Contract!Abort(row[p]) BY <1>1, <1>2, <1>5 DEF Contract!Abort, Query
  <2> QED BY <1>1, <2>1 DEF ContractStep, Contract!Next
<1> QED BY <1>3, <1>4, <1>5 DEF RowEffect, GoesOnWithRow, EndsRow

LEMMA BeginRowContractStep ==
  ASSUME NEW p \in Inserters, NEW r \in Rows, BeginRow(p, r) PROVE ContractStep
<1>1. scan' = scan /\ rowst[r] = "absent" /\ rowst' = [rowst EXCEPT ![r] = "inserting"]
  BY DEF BeginRow
<1>2. Query' = Query BY <1>1, SameQueries
<1>3. Contract!Begin(r) BY <1>1, <1>2 DEF Contract!Begin, Query
<1> QED BY <1>3 DEF ContractStep, Contract!Next

LEMMA CrashContractStep == ASSUME Crash PROVE ContractStep
<1>1. /\ rowst' = [r \in Rows |-> IF rowst[r] = "inserting" THEN "aborted" ELSE rowst[r]]
      /\ scan' = [s \in Scanners |-> ReadyScan]
  BY DEF Crash
<1>2. Query' = [s \in Scanners |-> Hidden(ReadyScan)] BY <1>1 DEF Query, Hidden
<1>3. Contract!Crash BY <1>1, <1>2 DEF Contract!Crash, Query
<1> QED BY <1>3 DEF ContractStep, Contract!Next

LEMMA ScanStartContractStep ==
  ASSUME IInv, ContractInv, NEW s \in Scanners, NEW k \in Keys, ScanStart(s, k) PROVE ContractStep
<1> DEFINE must == {r \in Rows : rowst[r] = "present" /\ k \in RowKeys(r)}
           q == [st |-> "running", key |-> k, queue |-> {[blk |-> Root, plsn |-> 0]},
                 found |-> {}, must |-> must]
<1>1. scan[s].st = "ready" /\ scan' = [scan EXCEPT ![s] = q] /\ rowst' = rowst
  BY DEF ScanStart, procVars
<1>2. Query[s] = Hidden(ReadyScan) BY <1>1 DEF Query, ContractInv, ScansSound
<1>3. Hidden(q) = [st |-> "running", key |-> k, found |-> {}, must |-> must] BY DEF Hidden
<1>4. must = {r \in Rows : rowst[r] = "present" /\ k \in [x \in Rows |-> RowKeys(x)][r]} OBVIOUS
<1> HIDE DEF q, must
<1>5. Query' = [Query EXCEPT ![s] = [st |-> "running", key |-> k, found |-> {}, must |-> must]]
  BY <1>1, <1>3, QueryUpdate
<1>6. Contract!Start(s, k) BY <1>1, <1>2, <1>4, <1>5 DEF Contract!Start, Query
<1> QED BY <1>6 DEF ContractStep, Contract!Next

LEMMA ScanPageContractStep ==
  ASSUME IInv, ContractInv, NEW s \in Scanners, ScanPage(s) PROVE ContractStep
<1>1. PICK q \in ScanState :
        /\ scan' = [scan EXCEPT ![s] = q]
        /\ q.st = scan[s].st /\ q.key = scan[s].key /\ q.must = scan[s].must
  BY ScanPageEffect
<1>2. scan[s].st = "running" /\ rowst' = rowst BY DEF ScanPage, procVars
<1>3. Hidden(q) = Query[s] BY <1>1, <1>2 DEF Hidden, Query
<1>4. Query' = [Query EXCEPT ![s] = Query[s]] BY <1>1, <1>3, QueryUpdate
<1>5. Query' = Query BY <1>4 DEF Query
<1> QED BY <1>2, <1>5 DEF ContractStep

LEMMA AnsweredQuery ==
  ASSUME NEW k, NEW must, NEW found
  PROVE  [[st |-> "running", key |-> k, must |-> must, found |-> {}]
            EXCEPT !.st = "done", !.found = found]
         = [st |-> "done", key |-> k, must |-> must, found |-> found]
<1> DEFINE r == [st |-> "running", key |-> k, must |-> must, found |-> {}]
           q == [st |-> "done", key |-> k, must |-> must, found |-> found]
           a == [r EXCEPT !.st = "done", !.found = found]
           Queries == [st : {"running", "done"}, key : {k}, must : {must}, found : {{}, found}]
<1>1. r \in Queries /\ q \in Queries OBVIOUS
<1>2. a \in Queries BY <1>1
<1>3. \A x, y \in Queries : x.st = y.st /\ x.found = y.found => x = y OBVIOUS
<1>4. a.st = "done" /\ a.found = found OBVIOUS
<1> QED BY <1>1, <1>2, <1>3, <1>4

LEMMA ScanEndContractStep ==
  ASSUME IInv, ContractInv, AnswersComplete', NEW s \in Scanners, ScanEnd(s) PROVE ContractStep
<1> DEFINE q == [scan[s] EXCEPT !.st = "done"]
           found == scan[s].found
<1>1. /\ scan[s].st = "running" /\ scan' = [scan EXCEPT ![s] = q] /\ rowst' = rowst
  BY DEF ScanEnd, procVars
<1>2. /\ q.st = "done" /\ q.found = found /\ q.key = scan[s].key /\ q.must = scan[s].must
      /\ scan'[s] = q
  BY <1>1 DEF IInv, TypeOK, ScanState
<1>3. scan[s].must \subseteq found BY <1>2 DEF AnswersComplete
<1>4. found \subseteq Matching(scan[s].key) BY DEF ContractInv, ScansSound
<1> HIDE DEF q, found
<1>5. Query' = [Query EXCEPT ![s] = Hidden(q)] BY <1>1, QueryUpdate
<1>6. /\ Query[s] = [st |-> "running", key |-> scan[s].key, must |-> scan[s].must, found |-> {}]
      /\ Hidden(q) = [st |-> "done", key |-> scan[s].key, must |-> scan[s].must, found |-> found]
  BY <1>1, <1>2 DEF Query, Hidden
<1>7. Query' = [Query EXCEPT ![s] = [@ EXCEPT !.st = "done", !.found = found]]
  <2>1. [Query[s] EXCEPT !.st = "done", !.found = found] = Hidden(q)
    <3>1. Query[s] = [st |-> "running", key |-> scan[s].key, must |-> scan[s].must, found |-> {}]
      BY <1>6
    <3>2. Hidden(q) = [st |-> "done", key |-> scan[s].key, must |-> scan[s].must, found |-> found]
      BY <1>6
    <3>3. [[st |-> "running", key |-> scan[s].key, must |-> scan[s].must, found |-> {}]
             EXCEPT !.st = "done", !.found = found]
          = [st |-> "done", key |-> scan[s].key, must |-> scan[s].must, found |-> found]
      BY AnsweredQuery
    <3> QED BY <3>1, <3>2, <3>3
  <2>2. s \in DOMAIN Query BY DEF Query
  <2> QED BY <1>5, <2>1, <2>2
<1>8. found \in SUBSET {r \in Rows : Query[s].key \in [x \in Rows |-> RowKeys(x)][r] /\ rowst[r] # "absent"}
  BY <1>4, <1>6 DEF Matching, Given
<1>9. Query[s].st = "running" /\ Query[s].must \subseteq found BY <1>3, <1>6
<1>10. Contract!Answer(s) BY <1>1, <1>7, <1>8, <1>9 DEF Contract!Answer, Query
<1> QED BY <1>10 DEF ContractStep, Contract!Next

LEMMA NextContractStep == IInv /\ ContractInv /\ AnswersComplete' /\ [Next]_vars => ContractStep
<1> SUFFICES ASSUME IInv, ContractInv, AnswersComplete', [Next]_vars PROVE ContractStep OBVIOUS
<1>1. CASE UNCHANGED vars
  <2>1. rowst' = rowst /\ scan' = scan BY <1>1 DEF vars, procVars
  <2> QED BY <2>1, SameQueries DEF ContractStep
<1>2. ASSUME NEW p \in Inserters, NEW r \in Rows, BeginRow(p, r) PROVE ContractStep
  BY <1>2, BeginRowContractStep
<1>3. ASSUME NEW p \in Inserters, Step(p) PROVE ContractStep
  BY <1>3, StepEffect, TreeStepOK, RowContractStep
<1>4. ASSUME NEW p \in Inserters, Fail(p) PROVE ContractStep
  BY <1>4, FailEffect, FailOK, RowContractStep
<1>5. CASE Crash BY <1>5, CrashContractStep
<1>6. ASSUME NEW s \in Scanners, NEW k \in Keys, ScanStart(s, k) PROVE ContractStep
  BY <1>6, ScanStartContractStep
<1>7. ASSUME NEW s \in Scanners, ScanStep(s) PROVE ContractStep
  BY <1>7, ScanPageContractStep, ScanEndContractStep DEF ScanStep
<1> QED BY <1>1, <1>2, <1>3, <1>4, <1>5, <1>6, <1>7 DEF Next

LEMMA InitContract == Init => Contract!Init
<1> SUFFICES ASSUME Init PROVE Contract!Init OBVIOUS
<1>1. PICK t \in InitTrees : rowst = [r \in Rows |-> IF r \in t.rows THEN "present" ELSE "absent"]
  BY DEF Init
<1>2. rowst \in [Rows -> {"absent", "present", "aborted"}] BY <1>1
<1>3. scan = [s \in Scanners |-> ReadyScan] BY DEF Init
<1>4. Query = [s \in Scanners |-> Hidden(ReadyScan)] BY <1>3 DEF Query
<1> QED BY <1>2, <1>4 DEF Contract!Init, Query

\* The contract in turn demands that answers are complete.
LEMMA ContractAnswers ==
  /\ Contract!Init => AnswersComplete
  /\ AnswersComplete /\ ContractStep => AnswersComplete'
<1>1. ASSUME NEW s \in Scanners
      PROVE  /\ Query[s].st = scan[s].st /\ Query[s].must = scan[s].must
             /\ scan[s].st = "done" => Query[s].found = scan[s].found
  BY DEF Query, Hidden
<1>2. AnswersComplete <=> \A s \in Scanners : Query[s].st = "done" => Query[s].must \subseteq Query[s].found
  BY <1>1 DEF AnswersComplete
<1>3. ASSUME NEW s \in Scanners
      PROVE  /\ Query'[s].st = scan'[s].st /\ Query'[s].must = scan'[s].must
             /\ scan'[s].st = "done" => Query'[s].found = scan'[s].found
  BY DEF Query, Hidden
<1>4. AnswersComplete' <=> \A s \in Scanners : Query'[s].st = "done" => Query'[s].must \subseteq Query'[s].found
  BY <1>3 DEF AnswersComplete
<1>5. Hidden(ReadyScan).st = "ready" BY DEF Hidden, ReadyScan
<1>6. Contract!Init => AnswersComplete
  <2>1. Contract!Init => Query = [s \in Scanners |-> Hidden(ReadyScan)] BY DEF Contract!Init, Query
  <2> QED BY <1>2, <1>5, <2>1
<1>7. ASSUME AnswersComplete, ContractStep PROVE AnswersComplete'
  <2>1. CASE Query' = Query BY <1>2, <1>4, <1>7, <2>1
  <2>2. ASSUME NEW s \in Scanners, NEW k \in Keys, Contract!Start(s, k) PROVE AnswersComplete'
    <3> DEFINE q == [st |-> "running", key |-> k, found |-> {},
                     must |-> {r \in Rows : rowst[r] = "present" /\ k \in [x \in Rows |-> RowKeys(x)][r]}]
    <3>1. Query' = [Query EXCEPT ![s] = q] BY <2>2 DEF Contract!Start, Query
    <3>2. q.st = "running" OBVIOUS
    <3> HIDE DEF q
    <3>3. \A x \in Scanners : Query'[x] = IF x = s THEN q ELSE Query[x] BY <3>1 DEF Query
    <3> QED BY <1>2, <1>4, <1>7, <3>2, <3>3
  <2>3. ASSUME NEW s \in Scanners, Contract!Answer(s) PROVE AnswersComplete'
    <3>1. PICK answer : /\ Query[s].must \subseteq answer
                        /\ Query' = [Query EXCEPT ![s] = [@ EXCEPT !.st = "done", !.found = answer]]
      BY <2>3 DEF Contract!Answer, Query
    <3> DEFINE q == [Query[s] EXCEPT !.st = "done", !.found = answer]
    <3>2. q.must = Query[s].must /\ q.found = answer BY DEF Query, Hidden
    <3> HIDE DEF q
    <3>3. \A x \in Scanners : Query'[x] = IF x = s THEN q ELSE Query[x] BY <3>1 DEF Query, q
    <3> QED BY <1>2, <1>4, <1>7, <3>1, <3>2, <3>3
  <2>4. ASSUME Contract!Crash PROVE AnswersComplete'
    <3>1. Query' = [s \in Scanners |-> Hidden(ReadyScan)] BY <2>4 DEF Contract!Crash, Query
    <3> QED BY <1>4, <1>5, <3>1
  <2>5. ASSUME NEW r \in Rows,
               Contract!Begin(r) \/ Contract!Commit(r) \/ Contract!Abort(r) \/ Contract!Kill(r)
        PROVE Query' = Query
    BY <2>5 DEF Contract!Begin, Contract!Commit, Contract!Abort, Contract!Kill, Query
  <2> QED BY <1>7, <2>1, <2>2, <2>3, <2>4, <2>5 DEF ContractStep, Contract!Next
<1> QED BY <1>6, <1>7

\* The steps of mgistinsert and mgistgetbitmap are those of the contract: a row is
\* begun and ended once, whatever splits, retries and repairs it takes, and a scan
\* answers once, with rows that were given to the index under the key it asked for.
\* The contract asks for nothing else but that the answer misses no row
\* (mgistScanPage's way through the splits).
THEOREM Refines == Spec => (ImplementsContract <=> []AnswersComplete)
<1>1. Spec => [](IInv /\ ContractInv)
  <2>1. IInv /\ ContractInv /\ [Next]_vars => (IInv /\ ContractInv)' BY NextOK, ContractNextOK
  <2>2. Init => IInv /\ ContractInv BY InitOK, ContractInitOK
  <2> QED BY <2>1, <2>2, PTL DEF Spec
<1>2. Contract!Init /\ [][ContractStep]_<<rowst, Query>> <=> ImplementsContract
  BY PTL DEF ImplementsContract, Contract!Spec, ContractStep, Query
<1>3. Spec /\ []AnswersComplete => ImplementsContract
  BY <1>1, <1>2, InitContract, NextContractStep, PTL DEF Spec, ContractStep
<1>4. ImplementsContract => []AnswersComplete
  BY <1>2, ContractAnswers, PTL DEF ContractStep
<1> QED BY <1>3, <1>4
=============================================================================
