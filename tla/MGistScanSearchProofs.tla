----------------------- MODULE MGistScanSearchProofs -----------------------
(***************************************************************************)
(* Proofs about MGistScan: a scan that ended has found every row of its    *)
(* snapshot that satisfies the query, and an ordered scan has returned     *)
(* them nearest first.                                                     *)
(***************************************************************************)
EXTENDS MGistScanProofs

(***************************************************************************)
(* The pages that a queued item leads to.                                  *)
(***************************************************************************)
\* The scan goes on from page b, reached from a parent read at LSN p, to its sibling.
Follows(pgs, b, p) == (pgs[b].follow \/ p < pgs[b].nsn) /\ pgs[b].right # NoBlock
Closed(pgs, S, p) == \A b \in S : Follows(pgs, b, p) => pgs[b].right \in S

\* The pages it gets to that way: those in every set that holds b and their siblings.
Chain(pgs, b, p) ==
  {c \in Blocks : \A S \in SUBSET Blocks : b \in S /\ Closed(pgs, S, p) => c \in S}

LEMMA ChainFacts ==
  ASSUME NEW pgs \in [Blocks -> Page], NEW b \in Blocks, NEW p
  PROVE  /\ b \in Chain(pgs, b, p) /\ Chain(pgs, b, p) \in SUBSET Blocks
         /\ Closed(pgs, Chain(pgs, b, p), p)
         /\ \A S \in SUBSET Blocks : b \in S /\ Closed(pgs, S, p) => Chain(pgs, b, p) \subseteq S
<1>1. ASSUME NEW c \in Chain(pgs, b, p), Follows(pgs, c, p)
      PROVE  pgs[c].right \in Chain(pgs, b, p)
  <2>1. c \in Blocks BY DEF Chain
  <2>2. pgs[c].right \in Blocks BY <2>1, <1>1 DEF Follows, Page
  <2>3. ASSUME NEW S \in SUBSET Blocks, b \in S, Closed(pgs, S, p) PROVE pgs[c].right \in S
    <3>1. c \in S BY <2>3 DEF Chain
    <3> QED BY <3>1, <2>3, <1>1 DEF Closed
  <2> QED BY <2>2, <2>3 DEF Chain
<1> QED BY <1>1 DEF Chain, Closed

\* What an item leads to is its page and what the item of the sibling leads to.
LEMMA ChainStep ==
  ASSUME NEW pgs \in [Blocks -> Page], NEW b \in Blocks, NEW p, NEW c \in Chain(pgs, b, p),
         c # b
  PROVE  Follows(pgs, b, p) /\ c \in Chain(pgs, pgs[b].right, p)
<1>1. CASE Follows(pgs, b, p)
  <2> DEFINE r == pgs[b].right
             S == {b} \cup Chain(pgs, r, p)
  <2>1. r \in Blocks BY <1>1 DEF Follows, Page
  <2>2. r \in Chain(pgs, r, p) /\ Chain(pgs, r, p) \in SUBSET Blocks /\ Closed(pgs, Chain(pgs, r, p), p)
    BY <2>1, ChainFacts
  <2>3. S \in SUBSET Blocks /\ b \in S /\ Closed(pgs, S, p) BY <2>2 DEF Closed
  <2> HIDE DEF S
  <2>4. c \in S BY <2>3 DEF Chain
  <2> QED BY <2>4, <1>1 DEF S
<1>2. CASE ~Follows(pgs, b, p)
  <2>1. Closed(pgs, {b}, p) BY <1>2 DEF Closed
  <2>2. c \in {b} BY <2>1 DEF Chain
  <2> QED BY <2>2
<1> QED BY <1>1, <1>2

(***************************************************************************)
(* What the index owes a scan.                                             *)
(***************************************************************************)
\* Entry e is on leaf b; a link leads to b, perhaps over an unfinished split.
HasEntry(pgs, b, e) ==
  pgs[b].type = "leaf" /\ \E o \in DOMAIN pgs[b].items : pgs[b].items[o] = e
LeadsTo(pgs, k, b) == k.blk = b \/ (pgs[k.blk].follow /\ pgs[k.blk].right = b)
Covered(pgs, e) ==
  \E b \in Blocks :
    /\ HasEntry(pgs, b, e)
    /\ b = Root \/ \E k \in pgs[Root].links : k.low <= Dist[e] /\ LeadsTo(pgs, k, b)

\* Only the root can be an inner page, and neither link nor right link leads to it; the
\* sibling of an unfinished split has no link, and is the sibling of no other one.
TwoLevels(pgs) ==
  /\ pgs[Root].lsn # 0 /\ pgs[Root].right = NoBlock
  /\ \A b \in Blocks : /\ b # Root => pgs[b].type # "inner"
                       /\ pgs[b].type = "new" => pgs[b].nsn = 0
                       /\ pgs[b].right # Root
  /\ \A k \in pgs[Root].links : k.blk # Root
  /\ \A b \in Blocks : pgs[b].follow =>
       /\ \A k \in pgs[Root].links : k.blk # pgs[b].right
       /\ \A c \in Blocks : pgs[c].follow /\ pgs[c].right = pgs[b].right => c = b

\* Every entry of a live row is where the links lead to, but those not yet inserted.
Wanted(e) == tid[RowOf[e]] = "live" /\ e \notin pend
AllIndexed == \A e \in Entries : Wanted(e) => Covered(pages, e)
IndexInv == TwoLevels(pages) /\ AllIndexed

\* A record moves an entry of a live row at most to the sibling of an unfinished
\* split, and leaves no sibling out that somebody may still be led to.
Keeps(new) ==
  \A b \in Blocks \ {Root}, e \in Entries : Wanted(e) /\ HasEntry(pages, b, e) =>
    \/ HasEntry(new, b, e)
    \/ new[b].follow /\ new[b].right \in Blocks /\ HasEntry(new, new[b].right, e)
Lengthens(new) ==
  \A b \in Blocks, p \in Nat : p <= lsn /\ Follows(pages, b, p) =>
    LET r == pages[b].right
        c == new[b].right
    IN /\ Follows(new, b, p) /\ c \in Blocks
       /\ c = r \/ (Follows(new, c, p) /\ new[c].right = r)
Carries(new) ==
  /\ TwoLevels(new) /\ Keeps(new) /\ Lengthens(new)
  /\ \A e \in Entries : tid[RowOf[e]] = "live" /\ e \notin pend' => Covered(new, e)

LEMMA ChainCarried ==
  ASSUME NEW new \in [Blocks -> Page], pages \in [Blocks -> Page], Lengthens(new),
         NEW b \in Blocks, NEW p \in Nat, p <= lsn
  PROVE  Chain(pages, b, p) \subseteq Chain(new, b, p)
<1> DEFINE S == Chain(new, b, p)
<1>1. b \in S /\ S \in SUBSET Blocks /\ Closed(new, S, p) BY ChainFacts
<1> HIDE DEF S
<1>2. ASSUME NEW x \in S, Follows(pages, x, p) PROVE pages[x].right \in S
  <2>1. x \in Blocks BY <1>1
  <2> DEFINE r == pages[x].right
             c == new[x].right
  <2>2. Follows(new, x, p) /\ (c = r \/ (Follows(new, c, p) /\ new[c].right = r))
    BY <2>1, <1>2 DEF Lengthens
  <2>3. c \in S BY <2>2, <1>1 DEF Closed
  <2>4. Follows(new, c, p) => new[c].right \in S BY <2>3, <1>1 DEF Closed
  <2> QED BY <2>2, <2>3, <2>4
<1>3. Closed(pages, S, p) BY <1>2 DEF Closed
<1> QED BY <1>1, <1>3, ChainFacts DEF S

\* Items that do not stand for the root never lead there.
LEMMA ChainAvoidsRoot ==
  ASSUME NEW pgs \in [Blocks -> Page], TwoLevels(pgs), NEW b \in Blocks, b # Root, NEW p
  PROVE  Root \notin Chain(pgs, b, p)
<1>1. ASSUME NEW x \in Blocks \ {Root}, Follows(pgs, x, p) PROVE pgs[x].right \in Blocks \ {Root}
  BY <1>1 DEF TwoLevels, Follows, Page
<1>2. Closed(pgs, Blocks \ {Root}, p) BY <1>1 DEF Closed
<1> QED BY <1>2 DEF Chain

\* What is not taken from a page is still there.
LEMMA WithoutKeeps ==
  ASSUME NEW items \in Seq(Entries), NEW offs, NEW o \in DOMAIN items, o \notin offs
  PROVE  \E i \in DOMAIN Without(items, offs) : Without(items, offs)[i] = items[o]
<1> DEFINE k == Kept(items, offs)
           S == DOMAIN items \ offs
<1>1. S \subseteq 1..Len(items) /\ Len(items) \in Nat /\ o \in S OBVIOUS
<1>2. DOMAIN k = 1..Len(k) /\ \E i \in 1..Len(k) : k[i] = o
  <2> HIDE DEF S
  <2> QED BY <1>1, AscendingFacts DEF Kept, S
<1>3. PICK i \in DOMAIN k : k[i] = o BY <1>2
<1>4. Without(items, offs) = [j \in DOMAIN k |-> items[k[j]]] BY DEF Without
<1> QED BY <1>3, <1>4

(***************************************************************************)
(* The records of the other backends.                                      *)
(***************************************************************************)
\* A leaf to which a descent may take an entry.
Chooses(b, e) == b = Root \/ \E k \in pages[Root].links : k.blk = b /\ k.low <= Dist[e]

\* A leaf is rewritten in place and keeps the entries of live rows; a new entry is one
\* some link covers.
LEMMA LeafRewrittenCarries ==
  ASSUME GoodIndex(pages, lsn), IndexInv, NEW b \in Blocks, pages[b].type = "leaf",
         NEW items \in Seq(Entries), NEW dead, NEW l \in Nat, l > lsn,
         pages' = [pages EXCEPT ![b] = [@ EXCEPT !.items = items, !.dead = dead, !.lsn = l]],
         \A e \in Entries : Wanted(e) /\ HasEntry(pages, b, e) =>
           \E o \in DOMAIN items : items[o] = e,
         \A e \in Entries : tid[RowOf[e]] = "live" /\ e \notin pend' =>
           Wanted(e) \/ (Chooses(b, e) /\ \E o \in DOMAIN items : items[o] = e)
  PROVE  Carries(pages')
<1> DEFINE pg == [pages[b] EXCEPT !.items = items, !.dead = dead, !.lsn = l]
           new == [pages EXCEPT ![b] = pg]
<1>1. pages \in [Blocks -> Page] /\ pages[b] \in Page /\ Root \in Blocks
  BY BlocksAssumption DEF GoodIndex
<1>2. /\ pg.type = "leaf" /\ pg.items = items /\ pg.lsn = l
      /\ pg.links = pages[b].links /\ pg.right = pages[b].right /\ pg.follow = pages[b].follow
      /\ pg.nsn = pages[b].nsn
  BY <1>1 DEF Page
<1>3. pages' = new OBVIOUS
<1> HIDE DEF pg
<1>4. new[b] = pg /\ \A x \in Blocks \ {b} : new[x] = pages[x] BY <1>1
<1> HIDE DEF new
<1>5. \A x \in Blocks : /\ new[x].type = pages[x].type /\ new[x].follow = pages[x].follow
                        /\ new[x].right = pages[x].right /\ new[x].links = pages[x].links
                        /\ new[x].nsn = pages[x].nsn
  BY <1>2, <1>4
<1>6. pages[Root].links \subseteq Link /\ lsn \in Nat BY <1>1, PageFacts
<1>7. new[Root].lsn # 0
  <2>1. CASE b = Root BY <2>1, <1>2, <1>4, <1>6
  <2>2. CASE b # Root BY <2>2, <1>1, <1>4 DEF IndexInv, TwoLevels
  <2> QED BY <2>1, <2>2
<1>8. TwoLevels(new) BY <1>1, <1>5, <1>7 DEF IndexInv, TwoLevels
<1>9. ASSUME NEW x \in Blocks, NEW e \in Entries, Wanted(e), HasEntry(pages, x, e)
      PROVE  HasEntry(new, x, e)
  <2>1. CASE x = b
    <3>1. \E o \in DOMAIN items : items[o] = e BY <2>1, <1>9
    <3> QED BY <2>1, <3>1, <1>2, <1>4 DEF HasEntry
  <2>2. CASE x # b BY <2>2, <1>4, <1>9 DEF HasEntry
  <2> QED BY <2>1, <2>2
<1>10. Keeps(new) BY <1>9 DEF Keeps
<1>11. Lengthens(new)
  <2>1. ASSUME NEW x \in Blocks, NEW p \in Nat, Follows(pages, x, p)
        PROVE  Follows(new, x, p) /\ new[x].right = pages[x].right /\ new[x].right \in Blocks
    BY <2>1, <1>5, PageFacts DEF Follows
  <2> QED BY <2>1 DEF Lengthens
<1>12. ASSUME NEW e \in Entries, Covered(pages, e), Wanted(e) PROVE Covered(new, e)
  <2>1. PICK x \in Blocks :
          /\ HasEntry(pages, x, e)
          /\ x = Root \/ \E k \in pages[Root].links : k.low <= Dist[e] /\ LeadsTo(pages, k, x)
    BY <1>12 DEF Covered
  <2>2. HasEntry(new, x, e) BY <2>1, <1>9, <1>12
  <2>3. ASSUME NEW k \in pages[Root].links, LeadsTo(pages, k, x)
        PROVE  k \in new[Root].links /\ LeadsTo(new, k, x)
    <3>1. k.blk \in Blocks BY <1>6 DEF Link
    <3> QED BY <3>1, <2>3, <1>1, <1>5 DEF LeadsTo
  <2> QED BY <2>1, <2>2, <2>3 DEF Covered
<1>13. ASSUME NEW e \in Entries, \E o \in DOMAIN items : items[o] = e, Chooses(b, e)
       PROVE  Covered(new, e)
  <2>1. HasEntry(new, b, e) BY <1>2, <1>4, <1>13 DEF HasEntry
  <2> QED BY <2>1, <1>1, <1>5, <1>13 DEF Covered, LeadsTo, Chooses
<1>14. \A e \in Entries : tid[RowOf[e]] = "live" /\ e \notin pend' => Covered(new, e)
  BY <1>12, <1>13 DEF IndexInv, AllIndexed
<1> QED BY <1>3, <1>8, <1>10, <1>11, <1>14 DEF Carries

\* The entry that is appended has a link; pruning takes flagged entries only, and these
\* are of dead rows.
LEMMA AddEntryCarries ==
  ASSUME GoodIndex(pages, lsn), IndexInv, AllFlagsDead, NEW e \in Entries, NEW b \in Blocks,
         AddEntry(e, b)
  PROVE  Carries(pages')
<1> DEFINE full == Len(pages[b].items) >= Cap
           cut == Without(pages[b].items, pages[b].dead)
           kept == IF full THEN cut ELSE pages[b].items
           items == Append(kept, e)
           dead == IF full THEN {} ELSE pages[b].dead
           l == lsn + 2
<1>1. l \in Nat /\ l > lsn BY PageFacts, BlocksAssumption
<1>2. pages[b].type = "leaf" /\ pend' = pend \ {e} BY DEF AddEntry, Chosen
<1>3. pages' = [pages EXCEPT ![b] = [@ EXCEPT !.items = items, !.dead = dead, !.lsn = l]]
  <2>1. pages' = [pages EXCEPT ![b] = [@ EXCEPT !.items = items, !.lsn = l, !.dead = dead]]
    BY DEF AddEntry
  <2>2. [pages[b] EXCEPT !.items = items, !.lsn = l, !.dead = dead] =
        [pages[b] EXCEPT !.items = items, !.dead = dead, !.lsn = l]
    BY PageFacts DEF Page
  <2> QED BY <2>1, <2>2
<1>4. pages[b].items \in Seq(Entries) BY PageFacts
<1>5. kept \in Seq(Entries) BY <1>4, WithoutFacts
<1>6. /\ items \in Seq(Entries) /\ \E o \in DOMAIN items : items[o] = e
      /\ \A o \in DOMAIN kept : o \in DOMAIN items /\ items[o] = kept[o]
  <2> HIDE DEF kept
  <2>1. Len(kept) + 1 \in DOMAIN items /\ items[Len(kept) + 1] = e BY <1>5
  <2> QED BY <2>1, <1>5
<1>7. ASSUME NEW g \in Entries, Wanted(g), HasEntry(pages, b, g)
      PROVE  \E o \in DOMAIN items : items[o] = g
  <2>1. PICK o \in DOMAIN pages[b].items : pages[b].items[o] = g BY <1>7 DEF HasEntry
  <2>2. o \notin pages[b].dead BY <2>1, <1>7 DEF AllFlagsDead, FlagsDead, Wanted
  <2>3. \E i \in DOMAIN kept : kept[i] = g
    <3>1. CASE full
      <4>1. \E i \in DOMAIN cut : cut[i] = g BY <2>1, <2>2, <1>4, WithoutKeeps
      <4> QED BY <4>1, <3>1
    <3>2. CASE ~full BY <3>2, <2>1
    <3> QED BY <3>1, <3>2
  <2> HIDE DEF kept, items
  <2> QED BY <2>3, <1>6
<1>8. Chooses(b, e) BY DEF AddEntry, Chosen, Chooses
<1>9. \A g \in Entries : tid[RowOf[g]] = "live" /\ g \notin pend' => Wanted(g) \/ g = e
  BY <1>2 DEF Wanted
<1> HIDE DEF items, dead, l, kept
<1>10. \A g \in Entries : tid[RowOf[g]] = "live" /\ g \notin pend' =>
         Wanted(g) \/ (Chooses(b, g) /\ \E o \in DOMAIN items : items[o] = g)
  BY <1>6, <1>8, <1>9
<1>11. \A g \in Entries : Wanted(g) /\ HasEntry(pages, b, g) =>
         \E o \in DOMAIN items : items[o] = g
  BY <1>7
<1> QED BY <1>1, <1>2, <1>3, <1>6, <1>10, <1>11, LeafRewrittenCarries

\* Vacuum takes only entries of dead rows.
LEMMA VacuumLeafCarries ==
  ASSUME GoodIndex(pages, lsn), IndexInv, NEW b \in Blocks, VacuumLeaf(b)
  PROVE  Carries(pages')
<1> DEFINE gone == {o \in DOMAIN pages[b].items : tid[RowOf[pages[b].items[o]]] = "dead"}
           items == Without(pages[b].items, gone)
           dead == DeadWithout(pages[b], gone)
           l == lsn + 1
<1>1. l \in Nat /\ l > lsn BY PageFacts, BlocksAssumption
<1>2. /\ pages[b].type = "leaf" /\ pend' = pend
      /\ pages' = [pages EXCEPT ![b] = [@ EXCEPT !.items = items, !.dead = dead, !.lsn = l]]
  BY DEF VacuumLeaf
<1>3. pages[b].items \in Seq(Entries) BY PageFacts
<1>4. ASSUME NEW e \in Entries, Wanted(e), HasEntry(pages, b, e)
      PROVE  \E o \in DOMAIN items : items[o] = e
  <2>1. PICK o \in DOMAIN pages[b].items : pages[b].items[o] = e BY <1>4 DEF HasEntry
  <2>2. o \notin gone BY <2>1, <1>4 DEF Wanted
  <2> HIDE DEF gone
  <2> QED BY <2>1, <2>2, <1>3, WithoutKeeps
<1>5. items \in Seq(Entries)
  <2> HIDE DEF gone
  <2> QED BY <1>3, WithoutFacts
<1>6. \A e \in Entries : tid[RowOf[e]] = "live" /\ e \notin pend' => Wanted(e)
  BY <1>2 DEF Wanted
<1> HIDE DEF items, dead, l
<1> QED BY <1>1, <1>2, <1>4, <1>5, <1>6, LeafRewrittenCarries

\* No sibling is left out when right links stay and pages are marked at most as split now.
LEMMA SiblingsStay ==
  ASSUME GoodIndex(pages, lsn), NEW new,
         \A x \in Blocks : /\ new[x].right = pages[x].right
                           /\ \/ new[x].follow = pages[x].follow /\ new[x].nsn = pages[x].nsn
                              \/ new[x].nsn = lsn + 1
  PROVE  Lengthens(new)
<1>1. ASSUME NEW x \in Blocks, NEW p \in Nat, p <= lsn, Follows(pages, x, p)
      PROVE  Follows(new, x, p) /\ new[x].right = pages[x].right /\ new[x].right \in Blocks
  <2>1. lsn \in Nat /\ pages[x].right \in Blocks \cup {NoBlock} BY PageFacts, BlocksAssumption
  <2>2. p < lsn + 1 BY <2>1, <1>1
  <2> QED BY <2>1, <2>2, <1>1 DEF Follows
<1> QED BY <1>1 DEF Lengthens

\* The link that is widened still covers what it covered.
LEMMA AdjustLinkCarries ==
  ASSUME GoodIndex(pages, lsn), IndexInv, NEW e \in Entries, NEW k \in pages[Root].links,
         AdjustLink(e, k)
  PROVE  Carries(pages')
<1> DEFINE m == [k EXCEPT !.low = Dist[e]]
           links == (pages[Root].links \ {k}) \cup {m}
           l == lsn + 1
           new == [pages EXCEPT ![Root].links = links, ![Root].lsn = l]
<1>1. /\ pages \in [Blocks -> Page] /\ pages[Root] \in Page /\ pages[Root].links \subseteq Link
      /\ Root \in Blocks /\ lsn \in Nat /\ LocalOK(pages, lsn, Root)
  BY PageFacts, BlocksAssumption DEF GoodIndex
<1>2. l # 0 /\ pend' = pend /\ pages' = new /\ Dist[e] < k.low BY <1>1 DEF AdjustLink
<1>3. m.blk = k.blk /\ m.low = Dist[e] /\ k \in Link BY <1>1 DEF Link
<1>4. \A j \in pages[Root].links : j \in links \/ j = k OBVIOUS
<1>5. m \in links /\ \A j \in links : \E i \in pages[Root].links : i.blk = j.blk BY <1>3
<1> HIDE DEF links, m, l
<1>6. /\ \A b \in Blocks \ {Root} : new[b] = pages[b]
      /\ new[Root] = [pages[Root] EXCEPT !.links = links, !.lsn = l]
  BY <1>1
<1> HIDE DEF new
<1>7. /\ \A b \in Blocks : /\ new[b].type = pages[b].type /\ new[b].items = pages[b].items
                           /\ new[b].right = pages[b].right /\ new[b].nsn = pages[b].nsn
                           /\ new[b].follow = pages[b].follow
      /\ new[Root].links = links /\ new[Root].lsn = l
  <2>1. /\ new[Root].type = pages[Root].type /\ new[Root].items = pages[Root].items
        /\ new[Root].right = pages[Root].right /\ new[Root].nsn = pages[Root].nsn
        /\ new[Root].follow = pages[Root].follow
        /\ new[Root].links = links /\ new[Root].lsn = l
    BY <1>1, <1>6 DEF Page
  <2> QED BY <2>1, <1>6
<1>8. TwoLevels(new) BY <1>1, <1>2, <1>5, <1>7 DEF IndexInv, TwoLevels
<1>9. Keeps(new) BY <1>7 DEF Keeps, HasEntry
<1>10. Lengthens(new) BY <1>7, SiblingsStay
<1>11. pages[Root].type # "leaf" BY <1>1 DEF LocalOK
<1>12. ASSUME NEW g \in Entries, Covered(pages, g) PROVE Covered(new, g)
  <2>1. PICK x \in Blocks :
          /\ HasEntry(pages, x, g)
          /\ x = Root \/ \E j \in pages[Root].links : j.low <= Dist[g] /\ LeadsTo(pages, j, x)
    BY <1>12 DEF Covered
  <2>2. HasEntry(new, x, g) /\ x # Root BY <2>1, <1>7, <1>11 DEF HasEntry
  <2>3. PICK j \in pages[Root].links : j.low <= Dist[g] /\ LeadsTo(pages, j, x) BY <2>1, <2>2
  <2>4. j \in Link /\ LeadsTo(new, j, x)
    <3>1. j \in Link BY <1>1
    <3>2. j.blk \in Blocks BY <3>1 DEF Link
    <3> QED BY <3>1, <3>2, <2>3, <1>7 DEF LeadsTo
  <2>5. CASE j \in links BY <2>2, <2>3, <2>4, <2>5, <1>7 DEF Covered
  <2>6. CASE j = k
    <3>1. k.low \in Nat /\ Dist[e] \in Nat /\ Dist[g] \in Nat
      BY <1>3, EntriesAssumption DEF Link
    <3>2. m.low <= Dist[g] BY <3>1, <2>3, <2>6, <1>2, <1>3
    <3>3. LeadsTo(new, m, x) BY <2>4, <2>6, <1>3 DEF LeadsTo
    <3> QED BY <3>2, <3>3, <2>2, <1>5, <1>7 DEF Covered
  <2> QED BY <2>5, <2>6, <1>4
<1>13. \A g \in Entries : tid[RowOf[g]] = "live" /\ g \notin pend' => Covered(new, g)
  BY <1>2, <1>12 DEF IndexInv, AllIndexed, Wanted
<1> QED BY <1>2, <1>8, <1>9, <1>10, <1>13 DEF Carries

\* A page that is deleted has no entries, and no split of it is unfinished.
LEMMA DeleteLeafCarries ==
  ASSUME GoodIndex(pages, lsn), IndexInv, NEW b \in Blocks, DeleteLeaf(b)
  PROVE  Carries(pages')
<1> DEFINE links == {k \in pages[Root].links : k.blk # b}
           l == lsn + 1
           new == [pages EXCEPT ![Root].links = links, ![Root].lsn = l,
                                ![b].type = "deleted", ![b].lsn = l]
<1>1. /\ pages \in [Blocks -> Page] /\ pages[Root] \in Page /\ pages[Root].links \subseteq Link
      /\ Root \in Blocks /\ lsn \in Nat /\ LocalOK(pages, lsn, Root) /\ pages[b] \in Page
  BY PageFacts, BlocksAssumption DEF GoodIndex
<1>16. pages' = new BY DEF DeleteLeaf
<1>2. /\ l # 0 /\ pend' = pend /\ pages' = new /\ pages[b].items = <<>> /\ ~pages[b].follow
      /\ pages[b].type = "leaf"
  <2>1. l # 0 BY <1>1
  <2>2. /\ pend' = pend /\ pages[b].items = <<>> /\ ~pages[b].follow /\ pages[b].type = "leaf"
    BY DEF DeleteLeaf
  <2> HIDE DEF new, l
  <2> QED BY <2>1, <2>2, <1>16
<1>3. pages[Root].links # {} BY DEF DeleteLeaf
<1>4. b # Root /\ pages[Root].type # "leaf" BY <1>2, <1>3, <1>1 DEF LocalOK
<1>5. \A k \in pages[Root].links : k.blk # b <=> k \in links OBVIOUS
<1>6. links \subseteq pages[Root].links OBVIOUS
<1> HIDE DEF links, l
<1>7. /\ \A x \in Blocks \ {Root, b} : new[x] = pages[x]
      /\ new[Root] = [pages[Root] EXCEPT !.links = links, !.lsn = l]
      /\ new[b] = [pages[b] EXCEPT !.type = "deleted", !.lsn = l]
  BY <1>1, <1>4
<1> HIDE DEF new
<1>8. /\ \A x \in Blocks : /\ new[x].items = pages[x].items
                           /\ new[x].right = pages[x].right /\ new[x].nsn = pages[x].nsn
                           /\ new[x].follow = pages[x].follow
      /\ \A x \in Blocks \ {b} : new[x].type = pages[x].type
      /\ new[b].type = "deleted" /\ new[Root].links = links /\ new[Root].lsn = l
  <2>1. /\ new[Root].type = pages[Root].type /\ new[Root].items = pages[Root].items
        /\ new[Root].right = pages[Root].right /\ new[Root].nsn = pages[Root].nsn
        /\ new[Root].follow = pages[Root].follow
        /\ new[Root].links = links /\ new[Root].lsn = l
    BY <1>1, <1>7 DEF Page
  <2>2. /\ new[b].type = "deleted" /\ new[b].items = pages[b].items
        /\ new[b].right = pages[b].right /\ new[b].nsn = pages[b].nsn
        /\ new[b].follow = pages[b].follow
    BY <1>1, <1>7 DEF Page
  <2> QED BY <2>1, <2>2, <1>7
<1>9. TwoLevels(new) BY <1>1, <1>2, <1>6, <1>8 DEF IndexInv, TwoLevels
<1>10. \A g : ~HasEntry(pages, b, g) BY <1>2 DEF HasEntry
<1>11. \A x \in Blocks, g \in Entries : HasEntry(pages, x, g) => HasEntry(new, x, g)
  BY <1>8, <1>10 DEF HasEntry
<1>12. Keeps(new) BY <1>11 DEF Keeps
<1>13. Lengthens(new) BY <1>8, SiblingsStay
<1>14. ASSUME NEW g \in Entries, Covered(pages, g) PROVE Covered(new, g)
  <2>1. PICK x \in Blocks :
          /\ HasEntry(pages, x, g)
          /\ x = Root \/ \E j \in pages[Root].links : j.low <= Dist[g] /\ LeadsTo(pages, j, x)
    BY <1>14 DEF Covered
  <2>2. HasEntry(new, x, g) /\ x # Root /\ x # b BY <2>1, <1>4, <1>10, <1>11 DEF HasEntry
  <2>3. PICK j \in pages[Root].links : j.low <= Dist[g] /\ LeadsTo(pages, j, x) BY <2>1, <2>2
  <2>4. j.blk # b BY <2>2, <2>3, <1>2 DEF LeadsTo
  <2>5. j.blk \in Blocks BY <1>1 DEF Link
  <2>6. j \in links /\ LeadsTo(new, j, x) BY <2>3, <2>4, <2>5, <1>5, <1>8 DEF LeadsTo
  <2> QED BY <2>2, <2>3, <2>6, <1>8 DEF Covered
<1>15. \A g \in Entries : tid[RowOf[g]] = "live" /\ g \notin pend' => Covered(new, g)
  BY <1>2, <1>14 DEF IndexInv, AllIndexed, Wanted
<1> QED BY <1>2, <1>9, <1>12, <1>13, <1>15 DEF Carries

\* The links to both halves of a split cover what the one to the left half covered.
LEMMA PostDownlinkCarries ==
  ASSUME GoodIndex(pages, lsn), IndexInv, NEW b \in Blocks, PostDownlink(b)
  PROVE  Carries(pages')
<1> DEFINE l == lsn + 1
           c == pages[b].right
           old == {k \in pages[Root].links : k.blk = b}
           lows(x) == Lows(pages[x].items) \cup {k.low : k \in old}
           two == {[blk |-> x, low |-> Least(lows(x))] : x \in {b, c}}
           links == (pages[Root].links \ old) \cup two
           new == [pages EXCEPT ![Root].links = links, ![Root].lsn = l,
                                ![b].nsn = l, ![b].lsn = l, ![b].follow = FALSE]
<1>1. /\ pages \in [Blocks -> Page] /\ pages[Root] \in Page /\ pages[Root].links \subseteq Link
      /\ Root \in Blocks /\ lsn \in Nat /\ pages[b] \in Page /\ LocalOK(pages, lsn, b)
      /\ pages[b].follow /\ b # Root /\ pages[Root].type = "inner" /\ c \in Blocks
      /\ pages[b].type # "new" /\ c # Root /\ \E k \in pages[Root].links : k.blk = b
  BY PageFacts, BlocksAssumption DEF GoodIndex, PostDownlink, LocalOK, IndexInv, TwoLevels
<1>12. pages' = new BY DEF PostDownlink
<1>2. l # 0 /\ l \in Nat /\ pend' = pend /\ pages' = new
  <2>1. l # 0 /\ l \in Nat BY <1>1
  <2>2. pend' = pend BY DEF PostDownlink
  <2> HIDE DEF new, l
  <2> QED BY <2>1, <2>2, <1>12
<1>3. ASSUME NEW x \in {b, c}, NEW k \in old
      PROVE  \E j \in links : j.blk = x /\ j.low <= k.low /\ j.low \in Nat
  <2>1. Lows(pages[x].items) \in SUBSET Nat BY <1>1, PageFacts, LowsFacts
  <2>2. {j.low : j \in old} \in SUBSET Nat BY <1>1 DEF Link
  <2>3. lows(x) \in SUBSET Nat /\ k.low \in lows(x) BY <2>1, <2>2
  <2>4. [blk |-> x, low |-> Least(lows(x))] \in links OBVIOUS
  <2> HIDE DEF lows, links, old
  <2>5. Least(lows(x)) <= k.low /\ Least(lows(x)) \in Nat BY <2>3, LeastIn
  <2> QED BY <2>4, <2>5
<1>4. /\ \A k \in links : k \in pages[Root].links \/ k.blk \in {b, c}
      /\ \A k \in pages[Root].links : k.blk # b => k \in links
      /\ \A k \in pages[Root].links : k.blk = b => k \in old
  OBVIOUS
<1> HIDE DEF links, l, two, lows, old
<1>5. /\ \A x \in Blocks \ {Root, b} : new[x] = pages[x]
      /\ new[Root] = [pages[Root] EXCEPT !.links = links, !.lsn = l]
      /\ new[b] = [pages[b] EXCEPT !.nsn = l, !.lsn = l, !.follow = FALSE]
  BY <1>1
<1> HIDE DEF new
<1>6. /\ \A x \in Blocks : /\ new[x].items = pages[x].items /\ new[x].type = pages[x].type
                           /\ new[x].right = pages[x].right
      /\ \A x \in Blocks \ {b} : new[x].nsn = pages[x].nsn /\ new[x].follow = pages[x].follow
      /\ new[b].nsn = l /\ ~new[b].follow /\ new[Root].links = links /\ new[Root].lsn = l
  <2>1. /\ new[Root].type = pages[Root].type /\ new[Root].items = pages[Root].items
        /\ new[Root].right = pages[Root].right /\ new[Root].nsn = pages[Root].nsn
        /\ new[Root].follow = pages[Root].follow
        /\ new[Root].links = links /\ new[Root].lsn = l
    BY <1>1, <1>5 DEF Page
  <2>2. /\ new[b].type = pages[b].type /\ new[b].items = pages[b].items
        /\ new[b].right = pages[b].right /\ new[b].nsn = l /\ ~new[b].follow
    BY <1>1, <1>5 DEF Page
  <2> QED BY <2>1, <2>2, <1>5
<1>7. TwoLevels(new)
  <2>1. \A k \in links : k.blk # Root BY <1>1, <1>4 DEF IndexInv, TwoLevels
  <2>2. ASSUME NEW x \in Blocks, new[x].follow
        PROVE  /\ \A k \in links : k.blk # new[x].right
               /\ \A y \in Blocks : new[y].follow /\ new[y].right = new[x].right => y = x
    <3>1. x # b /\ pages[x].follow /\ new[x].right = pages[x].right BY <2>2, <1>6
    <3>2. \A y \in Blocks : pages[y].follow /\ pages[y].right = pages[x].right => y = x
      BY <3>1 DEF IndexInv, TwoLevels
    <3>3. pages[x].right # c BY <3>1, <3>2, <1>1
    <3>4. \A k \in pages[Root].links : k.blk # pages[x].right
      BY <3>1 DEF IndexInv, TwoLevels
    <3>5. pages[x].right # b BY <3>4, <1>1
    <3> QED BY <3>1, <3>2, <3>3, <3>4, <3>5, <1>4, <1>6
  <2> QED BY <2>1, <2>2, <1>1, <1>2, <1>6 DEF IndexInv, TwoLevels
<1>8. Keeps(new) BY <1>6 DEF Keeps, HasEntry
<1>9. Lengthens(new)
  <2>1. \A x \in Blocks : /\ new[x].right = pages[x].right
                          /\ \/ new[x].follow = pages[x].follow /\ new[x].nsn = pages[x].nsn
                             \/ new[x].nsn = lsn + 1
    BY <1>6 DEF l
  <2> QED BY <2>1, SiblingsStay
<1>10. ASSUME NEW g \in Entries, Covered(pages, g) PROVE Covered(new, g)
  <2>1. PICK x \in Blocks :
          /\ HasEntry(pages, x, g)
          /\ x = Root \/ \E j \in pages[Root].links : j.low <= Dist[g] /\ LeadsTo(pages, j, x)
    BY <1>10 DEF Covered
  <2>2. HasEntry(new, x, g) /\ x # Root BY <2>1, <1>1, <1>6 DEF HasEntry
  <2>3. PICK j \in pages[Root].links : j.low <= Dist[g] /\ LeadsTo(pages, j, x) BY <2>1, <2>2
  <2>4. j \in Link /\ j.blk \in Blocks /\ j.low \in Nat /\ Dist[g] \in Nat
    BY <1>1, EntriesAssumption DEF Link
  <2>5. CASE j.blk # b
    <3>1. LeadsTo(new, j, x) BY <2>3, <2>4, <2>5, <1>6 DEF LeadsTo
    <3> QED BY <3>1, <2>2, <2>3, <2>5, <1>4, <1>6 DEF Covered
  <2>6. CASE j.blk = b
    <3>1. x \in {b, c} /\ j \in old BY <2>3, <2>6, <1>4 DEF LeadsTo
    <3>2. PICK i \in links : i.blk = x /\ i.low <= j.low /\ i.low \in Nat BY <3>1, <1>3
    <3>3. i.low <= Dist[g] BY <3>2, <2>3, <2>4
    <3> QED BY <3>2, <3>3, <2>2, <1>6 DEF Covered, LeadsTo
  <2> QED BY <2>5, <2>6
<1>11. \A g \in Entries : tid[RowOf[g]] = "live" /\ g \notin pend' => Covered(new, g)
  BY <1>2, <1>10 DEF IndexInv, AllIndexed, Wanted
<1> QED BY <1>2, <1>7, <1>8, <1>9, <1>11 DEF Carries

\* Each tuple of a page that is split is on one of the halves.
LEMMA HalvesKeep ==
  ASSUME NEW all \in Seq(Entries), NEW L \in SUBSET DOMAIN all, NEW o \in DOMAIN all
  PROVE  LET left == Without(all, DOMAIN all \ L)
             right == Without(all, L)
         IN \/ \E i \in DOMAIN left : left[i] = all[o]
            \/ \E i \in DOMAIN right : right[i] = all[o]
<1>1. CASE o \in L
  <2>1. o \notin DOMAIN all \ L BY <1>1
  <2> QED BY <2>1, WithoutKeeps
<1>2. CASE o \notin L BY <1>2, WithoutKeeps
<1> QED BY <1>1, <1>2

\* A tuple of a leaf that is split stays or moves to the new sibling, which inherits the
\* old sibling and the NSN by which scans know that they have to go on there.
LEMMA SplitLeafCarries ==
  ASSUME GoodIndex(pages, lsn), IndexInv, NEW e \in Entries, NEW b \in Blocks, SplitLeaf(e, b)
  PROVE  Carries(pages')
<1> DEFINE all == Append(pages[b].items, e)
           l == lsn + 1
           c == NextBlock
<1>1. /\ pages \in [Blocks -> Page] /\ Root \in Blocks /\ NoBlock \notin Blocks /\ lsn \in Nat
      /\ pages[b].items \in Seq(Entries) /\ pages[b].right \in Blocks \cup {NoBlock}
      /\ pages[b].nsn \in Nat /\ LocalOK(pages, lsn, Root) /\ pages[Root].links \subseteq Link
  BY PageFacts, BlocksAssumption DEF GoodIndex
<1>2. /\ pages[b].type = "leaf" /\ ~pages[b].follow /\ b # Root /\ pend' = pend \ {e}
      /\ \E k \in pages[Root].links : k.blk = b /\ k.low <= Dist[e]
      /\ \E x \in Blocks : pages[x].type = "new"
  BY DEF SplitLeaf, Chosen
<1>3. PICK L \in (SUBSET DOMAIN all) \ {{}, DOMAIN all} :
        pages' = [pages EXCEPT
          ![b] = Leaf(Without(all, DOMAIN all \ L), c, @.nsn, l, TRUE),
          ![c] = Leaf(Without(all, L), pages[b].right, pages[b].nsn, l, FALSE)]
  BY DEF SplitLeaf
<1>4. c \in Blocks /\ pages[c].type = "new" /\ c # Root /\ c # b /\ c # NoBlock
  BY <1>1, <1>2, NextBlockFacts
<1>5. /\ all \in Seq(Entries) /\ \E o \in DOMAIN all : all[o] = e
      /\ \A o \in DOMAIN pages[b].items : o \in DOMAIN all /\ all[o] = pages[b].items[o]
  <2>1. Len(pages[b].items) + 1 \in DOMAIN all /\ all[Len(pages[b].items) + 1] = e BY <1>1
  <2> QED BY <2>1, <1>1
<1> DEFINE litems == Without(all, DOMAIN all \ L)
           ritems == Without(all, L)
           left == Leaf(litems, c, pages[b].nsn, l, TRUE)
           right == Leaf(ritems, pages[b].right, pages[b].nsn, l, FALSE)
           new == [pages EXCEPT ![b] = left, ![c] = right]
<1>6. pages' = new BY <1>3, <1>4
<1>7. \A g : g = e \/ HasEntry(pages, b, g) =>
        \/ \E i \in DOMAIN litems : litems[i] = g
        \/ \E i \in DOMAIN ritems : ritems[i] = g
  <2> SUFFICES ASSUME NEW g, g = e \/ HasEntry(pages, b, g)
               PROVE  \/ \E i \in DOMAIN litems : litems[i] = g
                      \/ \E i \in DOMAIN ritems : ritems[i] = g
    OBVIOUS
  <2> HIDE DEF all
  <2>1. PICK o \in DOMAIN all : all[o] = g BY <1>5 DEF HasEntry
  <2> QED BY <2>1, <1>5, HalvesKeep
<1> HIDE DEF c, l, all, litems, ritems
<1>8. /\ left.type = "leaf" /\ left.items = litems /\ left.right = c /\ left.nsn = pages[b].nsn
      /\ left.follow
  BY DEF Leaf, EmptyPage
<1>9. /\ right.type = "leaf" /\ right.items = ritems /\ right.right = pages[b].right
      /\ right.nsn = pages[b].nsn /\ ~right.follow
  BY DEF Leaf, EmptyPage
<1> HIDE DEF left, right
<1>10. new[b] = left /\ new[c] = right /\ \A x \in Blocks \ {b, c} : new[x] = pages[x]
  BY <1>1, <1>4
<1> HIDE DEF new
<1>11. new[Root] = pages[Root] BY <1>1, <1>2, <1>4, <1>10
<1>12. /\ \A x \in Blocks : pages[x].right # c
       /\ \A k \in pages[Root].links : k.blk # c
       /\ pages[c].nsn = 0 /\ ~pages[c].follow
  <2>1. \A x \in Blocks : pages[x].right # c
    <3> TAKE x \in Blocks
    <3>1. LocalOK(pages, lsn, x) BY PageFacts
    <3> QED BY <3>1, <1>4 DEF LocalOK
  <2>2. \A k \in pages[Root].links : k.blk # c BY <1>1, <1>4 DEF LocalOK
  <2>3. LocalOK(pages, lsn, c) BY <1>4, PageFacts
  <2> QED BY <2>1, <2>2, <2>3, <1>4 DEF IndexInv, TwoLevels, LocalOK
<1>13. \A x \in Blocks : pages[x].follow => pages[x].right # b
  BY <1>2 DEF IndexInv, TwoLevels
<1>14. TwoLevels(new)
  <2>1. ASSUME NEW x \in Blocks, new[x].follow
        PROVE  /\ \A k \in pages[Root].links : k.blk # new[x].right
               /\ \A y \in Blocks : new[y].follow /\ new[y].right = new[x].right => y = x
    <3>1. x # c BY <2>1, <1>9, <1>10
    <3>2. CASE x = b BY <3>2, <1>8, <1>9, <1>10, <1>12
    <3>3. CASE x # b
      <4>1. new[x] = pages[x] BY <3>1, <3>3, <1>10
      <4>2. pages[x].right # c BY <1>12
      <4> QED BY <4>1, <4>2, <2>1, <1>8, <1>9, <1>10 DEF IndexInv, TwoLevels
    <3> QED BY <3>2, <3>3
  <2>2. ASSUME NEW x \in Blocks
        PROVE  /\ x # Root => new[x].type # "inner"
               /\ new[x].type = "new" => new[x].nsn = 0
               /\ new[x].right # Root
    <3>1. CASE x \in {b, c} BY <3>1, <1>4, <1>8, <1>9, <1>10 DEF IndexInv, TwoLevels
    <3>2. CASE x \notin {b, c} BY <3>2, <1>10 DEF IndexInv, TwoLevels
    <3> QED BY <3>1, <3>2
  <2> QED BY <2>1, <2>2, <1>11 DEF IndexInv, TwoLevels
<1>15. ASSUME NEW g \in Entries, g = e \/ HasEntry(pages, b, g)
       PROVE  HasEntry(new, b, g) \/ HasEntry(new, c, g)
  BY <1>7, <1>8, <1>9, <1>10, <1>15 DEF HasEntry
<1>16. \A x \in Blocks, g \in Entries : x # b /\ HasEntry(pages, x, g) => HasEntry(new, x, g)
  BY <1>4, <1>10 DEF HasEntry
<1>17. new[b].follow /\ new[b].right = c /\ new[c].right = pages[b].right
       /\ new[c].nsn = pages[b].nsn
  BY <1>8, <1>9, <1>10
<1>18. Keeps(new)
  <2>1. ASSUME NEW x \in Blocks, NEW g \in Entries, HasEntry(pages, x, g)
        PROVE  \/ HasEntry(new, x, g)
               \/ new[x].follow /\ new[x].right \in Blocks /\ HasEntry(new, new[x].right, g)
    <3>1. CASE x = b BY <3>1, <2>1, <1>4, <1>15, <1>17
    <3>2. CASE x # b BY <3>2, <2>1, <1>16
    <3> QED BY <3>1, <3>2
  <2> QED BY <2>1 DEF Keeps
<1>19. Lengthens(new)
  <2>1. ASSUME NEW x \in Blocks, NEW p \in Nat, Follows(pages, x, p)
        PROVE  /\ Follows(new, x, p) /\ new[x].right \in Blocks
               /\ \/ new[x].right = pages[x].right
                  \/ /\ Follows(new, new[x].right, p)
                     /\ new[new[x].right].right = pages[x].right
    <3>1. CASE x = b
      <4>1. p < pages[b].nsn /\ pages[b].right # NoBlock BY <3>1, <2>1, <1>2 DEF Follows
      <4> QED BY <4>1, <3>1, <1>4, <1>17 DEF Follows
    <3>2. x # c
      <4> SUFFICES ASSUME x = c PROVE FALSE OBVIOUS
      <4>1. p < 0 BY <2>1, <1>12 DEF Follows
      <4> QED BY <4>1
    <3>3. CASE x # b
      <4>1. new[x] = pages[x] BY <3>2, <3>3, <1>10
      <4>2. pages[x].right \in Blocks \cup {NoBlock} BY PageFacts
      <4> QED BY <4>1, <4>2, <2>1 DEF Follows
    <3> QED BY <3>1, <3>3
  <2> QED BY <2>1 DEF Lengthens
<1>20. Covered(new, e)
  <2>1. PICK k \in pages[Root].links : k.blk = b /\ k.low <= Dist[e] BY <1>2
  <2>2. LeadsTo(new, k, b) /\ LeadsTo(new, k, c) BY <2>1, <1>17 DEF LeadsTo
  <2> QED BY <2>1, <2>2, <1>4, <1>11, <1>15 DEF Covered
<1>21. ASSUME NEW g \in Entries, Covered(pages, g) PROVE Covered(new, g)
  <2>1. PICK x \in Blocks :
          /\ HasEntry(pages, x, g)
          /\ x = Root \/ \E j \in pages[Root].links : j.low <= Dist[g] /\ LeadsTo(pages, j, x)
    BY <1>21 DEF Covered
  <2>2. x # Root
    <3>1. pages[Root].links # {} BY <1>2
    <3>2. pages[Root].type # "leaf" BY <3>1, <1>1 DEF LocalOK
    <3> QED BY <3>2, <2>1 DEF HasEntry
  <2>3. PICK j \in pages[Root].links : j.low <= Dist[g] /\ LeadsTo(pages, j, x) BY <2>1, <2>2
  <2>4. j.blk \in Blocks /\ j.blk # c BY <1>1, <1>12 DEF Link
  <2>5. CASE x = b
    <3>1. j.blk = b BY <2>3, <2>4, <2>5, <1>13 DEF LeadsTo
    <3>2. LeadsTo(new, j, b) /\ LeadsTo(new, j, c) BY <3>1, <1>17 DEF LeadsTo
    <3> QED BY <3>2, <2>1, <2>3, <2>5, <1>4, <1>11, <1>15 DEF Covered
  <2>6. CASE x # b
    <3>1. HasEntry(new, x, g) BY <2>1, <2>6, <1>16
    <3>2. LeadsTo(new, j, x)
      <4>1. CASE j.blk = x BY <4>1 DEF LeadsTo
      <4>2. CASE j.blk # x
        <5>1. pages[j.blk].follow /\ pages[j.blk].right = x BY <4>2, <2>3 DEF LeadsTo
        <5>2. new[j.blk] = pages[j.blk] BY <5>1, <2>4, <1>2, <1>10
        <5> QED BY <5>1, <5>2 DEF LeadsTo
      <4> QED BY <4>1, <4>2
    <3> QED BY <3>1, <3>2, <2>3, <1>11 DEF Covered
  <2> QED BY <2>5, <2>6
<1>22. \A g \in Entries : tid[RowOf[g]] = "live" /\ g \notin pend' => Covered(new, g)
  BY <1>2, <1>20, <1>21 DEF IndexInv, AllIndexed, Wanted
<1> QED BY <1>6, <1>14, <1>18, <1>19, <1>22 DEF Carries

\* Before the root is split it holds all entries and nobody is led anywhere; afterwards
\* its links cover them.
LEMMA SplitRootCarries ==
  ASSUME GoodIndex(pages, lsn), IndexInv, NEW e \in Entries, SplitRoot(e)
  PROVE  Carries(pages')
<1> DEFINE all == Append(pages[Root].items, e)
           l == lsn + 1
           unused == {x \in Blocks : pages[x].type = "new"}
           b == NextBlock
           c == Least(unused \ {b})
<1>1. /\ pages \in [Blocks -> Page] /\ Root \in Blocks /\ NoBlock \notin Blocks /\ lsn \in Nat
      /\ pages[Root].items \in Seq(Entries) /\ pages[Root].type = "leaf"
      /\ pages[Root].right = NoBlock /\ pend' = pend \ {e} /\ Cardinality(unused) >= 2
      /\ \A x \in Blocks \ {Root} : pages[x].type = "new" /\ ~pages[x].follow /\ pages[x].nsn = 0
  BY PageFacts, BlocksAssumption DEF GoodIndex, PageOK, SplitRoot, Chosen, IndexInv, TwoLevels
<1>2. PICK L \in (SUBSET DOMAIN all) \ {{}, DOMAIN all} :
        pages' = [pages EXCEPT
          ![Root] = Inner({LinkTo(b, Without(all, DOMAIN all \ L)), LinkTo(c, Without(all, L))}, l),
          ![b] = Leaf(Without(all, DOMAIN all \ L), c, 0, l, FALSE),
          ![c] = Leaf(Without(all, L), NoBlock, 0, l, FALSE)]
  BY DEF SplitRoot
<1>3. unused # {} /\ unused \ {b} # {}
  <2>1. ASSUME unused \ {b} = {} PROVE FALSE
    <3>1. unused = {} \/ unused = {b} BY <2>1
    <3> HIDE DEF unused, b
    <3>2. Cardinality({}) = 0 /\ Cardinality({b}) = 1 BY FS_EmptySet, FS_Singleton
    <3>3. Cardinality(unused) # 0 /\ Cardinality(unused) # 1 BY <1>1
    <3> QED BY <3>1, <3>2, <3>3
  <2> QED BY <2>1
<1>4. b \in Blocks /\ b # Root /\ b # NoBlock BY <1>1, <1>3, NextBlockFacts
<1>5. c \in Blocks /\ c # Root /\ c # NoBlock /\ c # b
  <2>1. unused \ {b} \in SUBSET Nat BY BlocksAssumption
  <2>2. \A x \in unused \ {b} : x \in Blocks /\ x # Root /\ x # b BY <1>1
  <2> HIDE DEF unused, b
  <2>3. c \in unused \ {b} BY <2>1, <1>3, LeastIn
  <2> QED BY <2>2, <2>3, <1>1
<1>6. /\ all \in Seq(Entries) /\ \E o \in DOMAIN all : all[o] = e
      /\ \A o \in DOMAIN pages[Root].items : o \in DOMAIN all /\ all[o] = pages[Root].items[o]
  <2>1. Len(pages[Root].items) + 1 \in DOMAIN all /\ all[Len(pages[Root].items) + 1] = e
    BY <1>1
  <2> QED BY <2>1, <1>1
<1>21. l # 0 BY <1>1
<1> DEFINE litems == Without(all, DOMAIN all \ L)
           ritems == Without(all, L)
           links == {LinkTo(b, litems), LinkTo(c, ritems)}
           left == Leaf(litems, c, 0, l, FALSE)
           right == Leaf(ritems, NoBlock, 0, l, FALSE)
           root == Inner(links, l)
           new == [pages EXCEPT ![Root] = root, ![b] = left, ![c] = right]
<1>7. pages' = new BY <1>2
<1> HIDE DEF b, c, l, all
<1>8. \A g : g = e \/ HasEntry(pages, Root, g) =>
        \/ \E i \in DOMAIN litems : litems[i] = g
        \/ \E i \in DOMAIN ritems : ritems[i] = g
  <2> SUFFICES ASSUME NEW g, g = e \/ HasEntry(pages, Root, g)
               PROVE  \/ \E i \in DOMAIN litems : litems[i] = g
                      \/ \E i \in DOMAIN ritems : ritems[i] = g
    OBVIOUS
  <2>1. PICK o \in DOMAIN all : all[o] = g BY <1>6 DEF HasEntry
  <2> QED BY <2>1, <1>6, HalvesKeep
<1>9. litems \in Seq(Entries) /\ ritems \in Seq(Entries) BY <1>6, HalvesFacts
<1> HIDE DEF litems, ritems
<1>10. \A x, items, o : items \in Seq(Entries) /\ o \in DOMAIN items =>
         LinkTo(x, items).blk = x /\ LinkTo(x, items).low <= Dist[items[o]]
  <2> SUFFICES ASSUME NEW x, NEW items \in Seq(Entries), NEW o \in DOMAIN items
               PROVE  LinkTo(x, items).blk = x /\ LinkTo(x, items).low <= Dist[items[o]]
    OBVIOUS
  <2>1. Lows(items) \in SUBSET Nat /\ Dist[items[o]] \in Lows(items) BY LowsFacts DEF Lows
  <2>2. Least(Lows(items)) <= Dist[items[o]] BY <2>1, LeastIn
  <2> QED BY <2>2 DEF LinkTo
<1>11. LinkTo(b, litems).blk = b /\ LinkTo(c, ritems).blk = c BY DEF LinkTo
<1>12. /\ left.type = "leaf" /\ left.items = litems /\ left.right = c /\ left.nsn = 0
       /\ ~left.follow
  BY DEF Leaf, EmptyPage
<1>13. /\ right.type = "leaf" /\ right.items = ritems /\ right.right = NoBlock
       /\ right.nsn = 0 /\ ~right.follow
  BY DEF Leaf, EmptyPage
<1>14. /\ root.type = "inner" /\ root.links = links /\ root.right = NoBlock /\ root.lsn = l
       /\ ~root.follow
  BY DEF Inner, EmptyPage
<1> HIDE DEF left, right, root, links
<1>15. /\ new[Root] = root /\ new[b] = left /\ new[c] = right
       /\ \A x \in Blocks \ {Root, b, c} : new[x] = pages[x]
  BY <1>1, <1>4, <1>5
<1> HIDE DEF new
<1>16. TwoLevels(new)
  <2>1. \A x \in Blocks : ~new[x].follow BY <1>1, <1>12, <1>13, <1>14, <1>15
  <2>2. \A k \in links : k.blk # Root BY <1>4, <1>5, <1>11 DEF links
  <2>3. ASSUME NEW x \in Blocks
        PROVE  /\ x # Root => new[x].type # "inner"
               /\ new[x].type = "new" => new[x].nsn = 0
               /\ new[x].right # Root
    <3>1. CASE x \in {Root, b, c} BY <3>1, <1>1, <1>4, <1>5, <1>12, <1>13, <1>14, <1>15
    <3>2. CASE x \notin {Root, b, c} BY <3>2, <1>15 DEF IndexInv, TwoLevels
    <3> QED BY <3>1, <3>2
  <2> QED BY <2>1, <2>2, <2>3, <1>14, <1>15, <1>21 DEF TwoLevels
<1>17. \A x \in Blocks \ {Root}, g \in Entries : ~HasEntry(pages, x, g) BY <1>1 DEF HasEntry
<1>18. Keeps(new) BY <1>17 DEF Keeps
<1>19. Lengthens(new)
  <2>1. ASSUME NEW x \in Blocks, NEW p \in Nat, Follows(pages, x, p) PROVE FALSE
    <3>1. x # Root BY <2>1, <1>1 DEF Follows
    <3>2. p < 0 BY <3>1, <2>1, <1>1 DEF Follows
    <3> QED BY <3>2
  <2> QED BY <2>1 DEF Lengthens
<1>20. ASSUME NEW g \in Entries, g = e \/ Covered(pages, g) PROVE Covered(new, g)
  <2>1. g = e \/ HasEntry(pages, Root, g) BY <1>17, <1>20 DEF Covered
  <2>2. CASE \E i \in DOMAIN litems : litems[i] = g
    <3>1. HasEntry(new, b, g) BY <2>2, <1>12, <1>15 DEF HasEntry
    <3>2. LinkTo(b, litems) \in new[Root].links BY <1>14, <1>15 DEF links
    <3>3. PICK i \in DOMAIN litems : litems[i] = g BY <2>2
    <3>4. LinkTo(b, litems).low <= Dist[litems[i]] BY <1>9, <1>10
    <3> QED BY <3>1, <3>2, <3>3, <3>4, <1>4, <1>11 DEF Covered, LeadsTo
  <2>3. CASE \E i \in DOMAIN ritems : ritems[i] = g
    <3>1. HasEntry(new, c, g) BY <2>3, <1>13, <1>15 DEF HasEntry
    <3>2. LinkTo(c, ritems) \in new[Root].links BY <1>14, <1>15 DEF links
    <3>3. PICK i \in DOMAIN ritems : ritems[i] = g BY <2>3
    <3>4. LinkTo(c, ritems).low <= Dist[ritems[i]] BY <1>9, <1>10
    <3> QED BY <3>1, <3>2, <3>3, <3>4, <1>5, <1>11 DEF Covered, LeadsTo
  <2> QED BY <2>1, <2>2, <2>3, <1>8
<1>22. \A g \in Entries : tid[RowOf[g]] = "live" /\ g \notin pend' => Covered(new, g)
  BY <1>1, <1>20 DEF IndexInv, AllIndexed, Wanted
<1> QED BY <1>7, <1>16, <1>18, <1>19, <1>22 DEF Carries

(***************************************************************************)
(* What reading a page finds.                                              *)
(***************************************************************************)
\* The fields of the state after reading page i.
LEMMA ScannedFields ==
  ASSUME mode \in Modes, NEW s \in ScanState, NEW i, NEW t \in Scanned(i, s)
  PROVE  LET pg == pages[i.blk]
             q == (s.queue \ {i}) \cup RightOf(i)
         IN /\ pg.type = "deleted" =>
                 /\ t.queue = q /\ t.heap = s.heap /\ t.tids = s.tids /\ t.best = s.best
                 /\ t.freed = s.freed
            /\ pg.type = "inner" =>
                 /\ t.queue = q \cup {[blk |-> k.blk, plsn |-> pg.lsn, dist |-> k.low] :
                                        k \in pg.links}
                 /\ t.heap = s.heap /\ t.tids = s.tids /\ t.best = s.best
                 /\ t.freed = s.freed
            /\ pg.type = "leaf" /\ mode # "ordered" =>
                 /\ t.queue = q /\ t.heap = s.heap /\ t.best = s.best /\ t.freed = s.freed
            /\ pg.type = "leaf" /\ mode = "plain" =>
                 /\ t.data = NewRows(pg, s)
                 /\ t.tids = s.tids \cup {NewRows(pg, s)[k].tid : k \in DOMAIN NewRows(pg, s)}
            /\ pg.type = "leaf" /\ mode = "bitmap" => t.tids = s.tids \cup RowsOn(pg)
            /\ pg.type = "leaf" /\ mode = "ordered" =>
                 /\ t.queue = q /\ t.tids = s.tids
                 /\ \E f \in Froms(pg, s) : /\ t.heap = Queued(pg, f, s).heap
                                            /\ t.best = Queued(pg, f, s).best
                                            /\ t.freed = Queued(pg, f, s).freed
<1> DEFINE pg == pages[i.blk]
           q == (s.queue \ {i}) \cup RightOf(i)
           a == [s EXCEPT !.queue = q]
           u == [a EXCEPT !.data = <<>>, !.cur = 0, !.lsn = pg.lsn]
           below == {[blk |-> k.blk, plsn |-> pg.lsn, dist |-> k.low] : k \in pg.links}
           seen == {NewRows(pg, s)[k].tid : k \in DOMAIN NewRows(pg, s)}
           b == [u EXCEPT !.queue = @ \cup below]
           c == [u EXCEPT !.data = NewRows(pg, s), !.tids = @ \cup seen]
           d == [u EXCEPT !.tids = @ \cup RowsOn(pg)]
           e(f) == [u EXCEPT !.heap = Queued(pg, f, s).heap, !.best = Queued(pg, f, s).best,
                             !.freed = Queued(pg, f, s).freed]
<1>1. /\ DOMAIN a = DOMAIN s /\ a.queue = q /\ a.heap = s.heap /\ a.tids = s.tids
      /\ a.best = s.best /\ a.freed = s.freed
      /\ DOMAIN s = {"queue", "heap", "first", "tids", "best", "freed", "data", "cur", "killed",
                     "blk", "lsn"}
  <2> HIDE DEF q
  <2> QED BY DEF ScanState
<1>2. Scanned(i, s) = CASE pg.type = "deleted" -> {a}
                        [] pg.type = "inner" -> {b}
                        [] pg.type = "leaf" /\ mode = "plain" -> {c}
                        [] pg.type = "leaf" /\ mode = "bitmap" -> {d}
                        [] pg.type = "leaf" /\ mode = "ordered" -> {e(f) : f \in Froms(pg, s)}
  BY DEF Scanned
<1> HIDE DEF a, q, pg, below, seen
<1>3. /\ DOMAIN u = DOMAIN s /\ u.queue = q /\ u.heap = s.heap /\ u.tids = s.tids
      /\ u.best = s.best /\ u.freed = s.freed
  BY <1>1
<1> HIDE DEF u
<1>4. CASE pg.type = "deleted" BY <1>1, <1>2, <1>4 DEF pg, q
<1>5. CASE pg.type = "inner"
  <2>1. b.queue = q \cup below /\ b.heap = s.heap /\ b.tids = s.tids /\ b.best = s.best
        /\ b.freed = s.freed
    BY <1>1, <1>3
  <2> HIDE DEF b, c, d, e
  <2>2. t = b BY <1>2, <1>5
  <2> QED BY <2>1, <2>2, <1>5 DEF pg, q, below
<1>6. CASE pg.type = "leaf" /\ mode = "plain"
  <2>1. c.queue = q /\ c.heap = s.heap /\ c.tids = s.tids \cup seen /\ c.best = s.best
        /\ c.freed = s.freed /\ c.data = NewRows(pg, s)
    BY <1>1, <1>3
  <2> HIDE DEF b, c, d, e
  <2>2. t = c BY <1>2, <1>6
  <2> QED BY <2>1, <2>2, <1>6 DEF pg, q, seen
<1>7. CASE pg.type = "leaf" /\ mode = "bitmap"
  <2>1. d.queue = q /\ d.heap = s.heap /\ d.tids = s.tids \cup RowsOn(pg) /\ d.best = s.best
        /\ d.freed = s.freed
    BY <1>1, <1>3
  <2> HIDE DEF b, c, d, e
  <2>2. t = d BY <1>2, <1>7
  <2> QED BY <2>1, <2>2, <1>7 DEF pg, q
<1>8. CASE pg.type = "leaf" /\ mode = "ordered"
  <2>1. ASSUME NEW f
        PROVE  /\ e(f).queue = q /\ e(f).tids = s.tids /\ e(f).heap = Queued(pg, f, s).heap
               /\ e(f).best = Queued(pg, f, s).best /\ e(f).freed = Queued(pg, f, s).freed
    BY <1>1, <1>3
  <2> HIDE DEF b, c, d, e
  <2>2. t \in {e(f) : f \in Froms(pg, s)} BY <1>2, <1>8
  <2>3. PICK f \in Froms(pg, s) : t = e(f) BY <2>2
  <2>4. /\ t.queue = q /\ t.tids = s.tids /\ t.heap = Queued(pg, f, s).heap
        /\ t.best = Queued(pg, f, s).best /\ t.freed = Queued(pg, f, s).freed
    BY <2>1, <2>3
  <2> QED BY <2>4, <1>8 DEF pg, q
<1>9. CASE pg.type \notin {"deleted", "inner", "leaf"} BY <1>9 DEF pg
<1> QED BY <1>4, <1>5, <1>6, <1>7, <1>8, <1>9 DEF Modes

\* The matching offsets in order.
LEMMA HitsFacts ==
  ASSUME NEW pg \in Page
  PROVE  LET hits == Hits(pg)
             n == Len(hits)
         IN /\ n \in Nat /\ DOMAIN hits = 1..n
            /\ \A j \in 1..n : hits[j] \in HitSet(pg)
            /\ \A o \in HitSet(pg) : \E j \in 1..n : hits[j] = o
<1> DEFINE S == HitSet(pg)
           n == Len(pg.items)
<1>1. S \subseteq 1..n /\ n \in Nat BY HitFacts
<1>2. Hits(pg) = Ascending(S) BY DEF Hits
<1> HIDE DEF S, n
<1>3. LET hits == Ascending(S)
          m == Len(hits)
      IN /\ m \in Nat /\ DOMAIN hits = 1..m
         /\ \A j \in 1..m : hits[j] \in S
         /\ \A o \in S : \E j \in 1..m : hits[j] = o
  BY <1>1, AscendingFacts
<1> QED BY <1>2, <1>3 DEF S

LEMMA AscendingHas ==
  ASSUME NEW n \in Nat, NEW S, S \subseteq 1..n, NEW j \in S
  PROVE  \E k \in DOMAIN Ascending(S) : Ascending(S)[k] = j
<1> DEFINE e == Ascending(S)
<1>1. DOMAIN e = 1..Len(e) /\ \A a \in S : \E i \in 1..Len(e) : e[i] = a BY AscendingFacts
<1> HIDE DEF e
<1>2. \E k \in DOMAIN e : e[k] = j BY <1>1
<1> QED BY <1>2 DEF e

\* A plain scan takes note of every row that has a matching entry on the page.
LEMMA NewRowsCover ==
  ASSUME NEW pg \in Page, NEW s, NEW o \in HitSet(pg)
  PROVE  \/ RowOf[pg.items[o]] \in s.tids
         \/ \E k \in DOMAIN NewRows(pg, s) : NewRows(pg, s)[k].tid = RowOf[pg.items[o]]
<1> DEFINE hits == Hits(pg)
           n == Len(hits)
           RowAt(j) == RowOf[pg.items[hits[j]]]
           S == {j \in 1..n : RowAt(j) \notin s.tids /\ \A i \in 1..(j - 1) : RowAt(i) # RowAt(j)}
           firsts == Ascending(S)
           r == RowOf[pg.items[o]]
           same == {j \in 1..n : RowAt(j) = r}
<1> SUFFICES ASSUME r \notin s.tids
             PROVE  \E k \in DOMAIN NewRows(pg, s) : NewRows(pg, s)[k].tid = r
  OBVIOUS
<1>1. n \in Nat /\ DOMAIN hits = 1..n /\ \E j \in 1..n : hits[j] = o BY HitsFacts
<1> HIDE DEF hits, n
<1>2. same \in SUBSET Nat /\ same # {} BY <1>1
<1>3. PICK j \in same : \A i \in same : j <= i BY <1>2, LeastExists
<1>4. ASSUME NEW i \in 1..(j - 1) PROVE RowAt(i) # r
  <2>1. i \in 1..n /\ ~(j <= i) BY <1>1
  <2>2. i \notin same BY <2>1, <1>3
  <2> QED BY <2>1, <2>2
<1>5. j \in S BY <1>4
<1>6. S \subseteq 1..n OBVIOUS
<1>7. NewRows(pg, s) = [k \in DOMAIN firsts |-> [tid |-> RowAt(firsts[k]), off |-> hits[firsts[k]]]]
  BY <1>1 DEF NewRows, hits
<1>8. \E k \in DOMAIN firsts : firsts[k] = j
  <2>1. n \in Nat /\ j \in S /\ S \subseteq 1..n BY <1>1, <1>5, <1>6
  <2> HIDE DEF S, same, RowAt
  <2>2. \E k \in DOMAIN Ascending(S) : Ascending(S)[k] = j BY <2>1, AscendingHas
  <2> QED BY <2>2
<1>9. RowAt(j) = r OBVIOUS
<1> HIDE DEF S, firsts, same
<1>10. PICK k \in DOMAIN firsts : firsts[k] = j BY <1>8
<1>11. k \in DOMAIN NewRows(pg, s) /\ NewRows(pg, s)[k].tid = RowAt(firsts[k]) BY <1>7, <1>10
<1> QED BY <1>9, <1>10, <1>11

\* The m distances at which a page has a row.
DistsAre(pg, r, m) ==
  /\ DOMAIN DistsOn(pg, r) = 1..m
  /\ \A j \in 1..m : \E o \in HitSet(pg) : /\ RowOf[pg.items[o]] = r
                                           /\ DistsOn(pg, r)[j] = Dist[pg.items[o]]
  /\ \A o \in HitSet(pg) : RowOf[pg.items[o]] = r =>
       \E j \in 1..m : DistsOn(pg, r)[j] = Dist[pg.items[o]]

LEMMA DistsFacts ==
  ASSUME NEW pg \in Page, NEW r
  PROVE  \E m \in Nat : DistsAre(pg, r, m)
<1> DEFINE S == {o \in HitSet(pg) : RowOf[pg.items[o]] = r}
           n == Len(pg.items)
           hits == Ascending(S)
           m == Len(hits)
           ds == DistsOn(pg, r)
<1>1. S \subseteq 1..n /\ n \in Nat BY HitFacts
<1>2. ds = [j \in DOMAIN hits |-> Dist[pg.items[hits[j]]]] BY DEF DistsOn
<1>3. /\ m \in Nat /\ DOMAIN hits = 1..m /\ \A j \in 1..m : hits[j] \in S
      /\ \A o \in S : \E j \in 1..m : hits[j] = o
  <2> HIDE DEF S, n
  <2> QED BY <1>1, AscendingFacts
<1> HIDE DEF hits, m, ds
<1>4. DOMAIN ds = 1..m /\ \A j \in 1..m : ds[j] = Dist[pg.items[hits[j]]] BY <1>2, <1>3
<1>5. \A j \in 1..m : \E o \in HitSet(pg) : RowOf[pg.items[o]] = r /\ ds[j] = Dist[pg.items[o]]
  BY <1>3, <1>4
<1>6. \A o \in HitSet(pg) : RowOf[pg.items[o]] = r => \E j \in 1..m : ds[j] = Dist[pg.items[o]]
  BY <1>3, <1>4
<1> QED BY <1>3, <1>4, <1>5, <1>6 DEF ds, DistsAre

\* The table of queued rows: a row whose item was freed was returned, any other row
\* that has a distance is queued at it.
TableOK(s) ==
  /\ s.freed \subseteq s.tids
  /\ \A r \in Rows \ s.freed : s.best[r] < NoDist => [tid |-> r, dist |-> s.best[r]] \in s.heap
  /\ \A r \in Rows : s.best[r] <= NoDist
\* A queued row is at the distance of an entry of it.
HeapOfRows(s) == \A h \in s.heap : \E e \in EntriesOf(h.tid) : h.dist = Dist[e]

\* A row that is met at a distance is returned or queued at that distance or nearer.
LEMMA QueuedCover ==
  ASSUME NEW pg \in Page, NEW s \in ScanState, NEW f \in Froms(pg, s), NEW o \in HitSet(pg),
         TableOK(s)
  PROVE  \/ RowOf[pg.items[o]] \in s.tids
         \/ \E h \in Queued(pg, f, s).heap : /\ h.tid = RowOf[pg.items[o]]
                                            /\ h.dist <= Dist[pg.items[o]]
<1> DEFINE r == RowOf[pg.items[o]]
           d == Dist[pg.items[o]]
           ds == DistsOn(pg, r)
           near == Nearer(pg, r, f[r], s)
           all == [x \in RowsOn(pg) |-> Nearer(pg, x, f[x], s)]
           again == {x \in RowsOn(pg) : all[x] # {}}
           new == UNION {{[tid |-> x, dist |-> y] : y \in all[x]} : x \in again}
           q == Queued(pg, f, s)
<1>1. r \in Rows /\ d \in Nat /\ pg.items[o] \in Entries /\ d < NoDist /\ NoDist \in Nat
  <2>1. r \in Rows /\ d \in Nat /\ pg.items[o] \in Entries BY HitFacts
  <2> QED BY <2>1, NoDistFacts
<1> SUFFICES ASSUME r \notin s.tids PROVE \E h \in q.heap : h.tid = r /\ h.dist <= d OBVIOUS
<1>2. r \notin s.freed /\ s.best[r] \in Nat BY <1>1 DEF TableOK, ScanState
<1>3. q.heap = s.heap \cup new
  <2> HIDE DEF all
  <2>1. DOMAIN s = {"queue", "heap", "first", "tids", "best", "freed", "data", "cur", "killed",
                    "blk", "lsn"}
    BY DEF ScanState
  <2> QED BY <2>1 DEF Queued, all
<1>4. r \in RowsOn(pg) /\ f[r] = 1
  <2>1. r \in RowsOn(pg) BY DEF RowsOn
  <2>2. f[r] \in 1..(Cap + 1) /\ f[r] <= 1 BY <2>1, <1>2 DEF Froms
  <2> QED BY <2>1, <2>2, BoundAssumption
<1>5. CASE s.best[r] <= d
  <2>1. [tid |-> r, dist |-> s.best[r]] \in s.heap BY <1>1, <1>2, <1>5 DEF TableOK
  <2> HIDE DEF q, r, d
  <2> QED BY <2>1, <1>3, <1>5
<1>6. CASE d < s.best[r]
  <2> HIDE DEF near, all, again, new, q, d, r
  <2>1. PICK m \in Nat : DistsAre(pg, r, m) BY DistsFacts
  <2> USE DEF near, all, again, new, q, d, r
  <2>2. PICK k \in 1..m : ds[k] = d BY <2>1 DEF DistsAre
  <2>3. DOMAIN ds = 1..m /\ \A j \in 1..m : ds[j] \in Nat BY <2>1, HitFacts DEF DistsAre
  <2> HIDE DEF ds
  <2> DEFINE D == {ds[j] : j \in 1..m}
             least == Least(D)
             I == {j \in 1..m : ds[j] = least}
             n == Least(I)
  <2>4. least \in D /\ \A y \in D : least <= y
    <3>1. D \in SUBSET Nat /\ D # {} BY <2>2, <2>3
    <3> HIDE DEF D
    <3> QED BY <3>1, LeastIn
  <2>5. n \in I /\ \A j \in I : n <= j
    <3>1. \E j \in 1..m : ds[j] = least
      <4> HIDE DEF least
      <4> QED BY <2>4
    <3>2. I \in SUBSET Nat /\ I # {}
      <4> HIDE DEF least
      <4> QED BY <3>1
    <3> HIDE DEF I
    <3> QED BY <3>2, LeastIn
  <2>6. n \in 1..m /\ ds[n] = least BY <2>5
  <2>7. \A j \in 1..m : ds[n] <= ds[j] BY <2>4, <2>6
  <2>8. \A j \in 1..m : ds[j] = ds[n] => n <= j BY <2>5, <2>6
  <2> HIDE DEF n, I, least, D
  <2>9. ds[n] <= d /\ ds[n] < s.best[r]
    <3>1. ds[n] <= ds[k] /\ ds[n] \in Nat BY <2>2, <2>3, <2>6, <2>7
    <3> HIDE DEF d, r
    <3> QED BY <3>1, <2>2, <1>1, <1>2, <1>6
  <2>10. \A i \in 1..(n - 1) : ds[n] < ds[i]
    <3> TAKE i \in 1..(n - 1)
    <3>1. i \in 1..m /\ ~(n <= i) BY <2>6
    <3>2. ds[n] <= ds[i] /\ ds[i] # ds[n] /\ ds[i] \in Nat /\ ds[n] \in Nat
      BY <3>1, <2>3, <2>6, <2>7, <2>8
    <3> QED BY <3>2
  <2>11. ds[n] \in near
    <3>1. near = {ds[j] : j \in {x \in DOMAIN ds : x >= 1 /\ ds[x] < s.best[r]
                                                   /\ \A i \in 1..(x - 1) : ds[x] < ds[i]}}
      BY <1>2, <1>4 DEF Nearer, ds
    <3>2. n \in DOMAIN ds /\ n >= 1 BY <2>3, <2>6
    <3> HIDE DEF near, r
    <3> QED BY <3>1, <3>2, <2>9, <2>10
  <2>12. all[r] = near BY <1>4
  <2> HIDE DEF near, all, r, d, q
  <2>13. r \in again BY <2>11, <2>12, <1>4
  <2>14. [tid |-> r, dist |-> ds[n]] \in new BY <2>11, <2>12, <2>13
  <2> HIDE DEF new
  <2> QED BY <2>9, <2>14, <1>3
<1> QED BY <1>1, <1>2, <1>5, <1>6

\* The table stays right when rows are queued.
LEMMA QueuedTables ==
  ASSUME NEW pg \in Page, NEW s \in ScanState, NEW f, TableOK(s), HeapOfRows(s)
  PROVE  LET q == Queued(pg, f, s) IN
         /\ q.freed \subseteq s.tids
         /\ \A r \in Rows \ q.freed : q.best[r] < NoDist => [tid |-> r, dist |-> q.best[r]] \in q.heap
         /\ \A r \in Rows : q.best[r] <= NoDist
         /\ s.heap \subseteq q.heap
         /\ HeapOfRows(q)
<1> DEFINE near == [x \in RowsOn(pg) |-> Nearer(pg, x, f[x], s)]
           again == {x \in RowsOn(pg) : near[x] # {}}
           new == UNION {{[tid |-> x, dist |-> y] : y \in near[x]} : x \in again}
           best == [x \in Rows |-> IF x \in again THEN Least(near[x]) ELSE s.best[x]]
           q == Queued(pg, f, s)
<1>1. /\ q.heap = s.heap \cup new /\ q.freed = s.freed \ again /\ q.best = best
  <2> HIDE DEF near
  <2>1. DOMAIN s = {"queue", "heap", "first", "tids", "best", "freed", "data", "cur", "killed",
                    "blk", "lsn"}
    BY DEF ScanState
  <2> QED BY <2>1 DEF Queued, near
<1>2. ASSUME NEW r \in RowsOn(pg), NEW d \in near[r]
      PROVE  d \in Nat /\ \E e \in EntriesOf(r) : d = Dist[e]
  <2>1. d \in Nearer(pg, r, f[r], s) BY <1>2
  <2>2. PICK j \in DOMAIN DistsOn(pg, r) : d = DistsOn(pg, r)[j] BY <2>1 DEF Nearer
  <2>3. PICK o \in HitSet(pg) : RowOf[pg.items[o]] = r /\ d = Dist[pg.items[o]]
    BY <2>2, DistsFacts DEF DistsAre
  <2>4. pg.items[o] \in EntriesOf(r) /\ d \in Nat BY <2>3, HitFacts DEF EntriesOf
  <2> QED BY <2>3, <2>4
<1>3. ASSUME NEW r \in again
      PROVE  /\ Least(near[r]) \in near[r] /\ Least(near[r]) \in Nat
             /\ \E e \in EntriesOf(r) : Least(near[r]) = Dist[e]
  <2>1. near[r] \in SUBSET Nat /\ near[r] # {} /\ r \in RowsOn(pg) BY <1>3, <1>2
  <2> HIDE DEF near
  <2>2. Least(near[r]) \in near[r] /\ Least(near[r]) \in Nat BY <2>1, LeastIn
  <2> QED BY <2>1, <2>2, <1>2
<1> HIDE DEF near, q
<1>4. ASSUME NEW r \in Rows \ q.freed, q.best[r] < NoDist
      PROVE  [tid |-> r, dist |-> q.best[r]] \in q.heap
  <2>1. CASE r \in again
    <3>1. q.best[r] = Least(near[r]) BY <2>1, <1>1, <1>4
    <3>2. [tid |-> r, dist |-> q.best[r]] \in new BY <2>1, <3>1, <1>3
    <3> HIDE DEF new
    <3> QED BY <3>2, <1>1
  <2>2. CASE r \notin again
    <3>1. q.best[r] = s.best[r] BY <2>2, <1>1
    <3>2. r \in Rows \ s.freed BY <2>2, <1>1, <1>4
    <3> HIDE DEF new, again, best
    <3> QED BY <3>1, <3>2, <1>1, <1>4 DEF TableOK
  <2> QED BY <2>1, <2>2
<1>5. ASSUME NEW r \in Rows PROVE q.best[r] <= NoDist
  <2>1. CASE r \in again
    <3>1. PICK e \in EntriesOf(r) : Least(near[r]) = Dist[e] BY <2>1, <1>3
    <3>2. e \in Entries /\ Dist[e] \in Nat BY EntriesAssumption DEF EntriesOf
    <3>3. Dist[e] < NoDist /\ NoDist \in Nat BY <3>2, NoDistFacts
    <3>4. q.best[r] = Dist[e] BY <2>1, <3>1, <1>1
    <3> QED BY <3>2, <3>3, <3>4
  <2>2. CASE r \notin again
    <3>1. q.best[r] = s.best[r] BY <2>2, <1>1
    <3> QED BY <3>1 DEF TableOK
  <2> QED BY <2>1, <2>2
<1>6. ASSUME NEW h \in q.heap PROVE \E e \in EntriesOf(h.tid) : h.dist = Dist[e]
  <2>1. CASE h \in s.heap BY <2>1 DEF HeapOfRows
  <2>2. CASE h \in new
    <3>1. PICK r \in again : \E d \in near[r] : h = [tid |-> r, dist |-> d] BY <2>2
    <3>2. h.tid = r /\ h.dist \in near[r] BY <3>1
    <3> HIDE DEF new
    <3> QED BY <3>1, <3>2, <1>2
  <2> HIDE DEF new
  <2> QED BY <2>1, <2>2, <1>1, <1>6
<1>7. q.freed \subseteq s.tids BY <1>1 DEF TableOK
<1>8. s.heap \subseteq q.heap BY <1>1
<1> HIDE DEF new, again, best
<1> QED BY <1>4, <1>5, <1>6, <1>7, <1>8 DEF HeapOfRows, q

\* What the scan still has of row r and entry e: the row is noted, the page of the entry
\* lies ahead, or the row is queued at least as near.
AheadIn(queue, e) ==
  \E i \in queue : i.dist <= Dist[e] /\ \E b \in Chain(pages, i.blk, i.plsn) : HasEntry(pages, b, e)
FoundIn(s, r, e) ==
  r \in s.tids \/ AheadIn(s.queue, e) \/ \E h \in s.heap : h.tid = r /\ h.dist <= Dist[e]

\* Rows and queued items are never lost by reading a page.
LEMMA ReadGrows ==
  ASSUME mode \in Modes, NEW s \in ScanState, NEW i, NEW t \in Scanned(i, s),
         pages[i.blk] \in Page, pages[i.blk].type # "new"
  PROVE  /\ s.tids \subseteq t.tids /\ s.heap \subseteq t.heap
         /\ s.queue \ {i} \subseteq t.queue /\ RightOf(i) \subseteq t.queue
<1> DEFINE pg == pages[i.blk]
           q == (s.queue \ {i}) \cup RightOf(i)
<1>1. ASSUME NEW f PROVE s.heap \subseteq Queued(pg, f, s).heap
  <2> DEFINE near == [x \in RowsOn(pg) |-> Nearer(pg, x, f[x], s)]
             again == {x \in RowsOn(pg) : near[x] # {}}
             new == UNION {{[tid |-> x, dist |-> y] : y \in near[x]} : x \in again}
  <2>1. Queued(pg, f, s).heap = s.heap \cup new
    <3> HIDE DEF near
    <3>1. DOMAIN s = {"queue", "heap", "first", "tids", "best", "freed", "data", "cur", "killed",
                      "blk", "lsn"}
      BY DEF ScanState
    <3> QED BY <3>1 DEF Queued, near
  <2> HIDE DEF new
  <2> QED BY <2>1
<1>2. pg.type \in {"deleted", "inner", "leaf"} BY DEF Page
<1> HIDE DEF pg, q
<1>3. s.tids \subseteq t.tids /\ s.heap \subseteq t.heap /\ q \subseteq t.queue
  <2>1. CASE pg.type = "deleted" BY <2>1, ScannedFields DEF pg, q
  <2>2. CASE pg.type = "inner" BY <2>2, ScannedFields DEF pg, q
  <2>3. CASE pg.type = "leaf" /\ mode = "plain" BY <2>3, ScannedFields DEF pg, q
  <2>4. CASE pg.type = "leaf" /\ mode = "bitmap" BY <2>4, ScannedFields DEF pg, q
  <2>5. CASE pg.type = "leaf" /\ mode = "ordered" BY <2>5, <1>1, ScannedFields DEF pg, q
  <2> QED BY <1>2, <2>1, <2>2, <2>3, <2>4, <2>5 DEF Modes
<1> QED BY <1>3 DEF q

\* A matching entry of a live row that is on the page is found.
LEMMA LeafRead ==
  ASSUME GoodIndex(pages, lsn), AllFlagsDead, mode \in Modes, NEW s \in ScanState,
         mode = "ordered" => TableOK(s), NEW i, i.blk \in Blocks, NEW t \in Scanned(i, s),
         NEW e \in Entries, tid[RowOf[e]] = "live", KeyTest(e), HasEntry(pages, i.blk, e)
  PROVE  FoundIn(t, RowOf[e], e)
<1> DEFINE pg == pages[i.blk]
<1>1. pg \in Page /\ pg.type = "leaf" BY PageFacts DEF HasEntry
<1>2. PICK o \in DOMAIN pg.items : pg.items[o] = e BY DEF HasEntry
<1>3. o \notin pg.dead BY <1>2 DEF AllFlagsDead, FlagsDead
<1>4. o \in HitSet(pg) BY <1>2, <1>3 DEF HitSet
<1> HIDE DEF pg
<1>5. CASE mode = "plain"
  <2>1. t.tids = s.tids \cup {NewRows(pg, s)[k].tid : k \in DOMAIN NewRows(pg, s)}
    BY <1>1, <1>5, ScannedFields DEF pg
  <2>2. RowOf[e] \in s.tids \/ \E k \in DOMAIN NewRows(pg, s) : NewRows(pg, s)[k].tid = RowOf[e]
    BY <1>1, <1>2, <1>4, NewRowsCover
  <2> QED BY <2>1, <2>2 DEF FoundIn
<1>6. CASE mode = "bitmap"
  <2>1. t.tids = s.tids \cup RowsOn(pg) BY <1>1, <1>6, ScannedFields DEF pg
  <2>2. RowOf[e] \in RowsOn(pg) BY <1>2, <1>4 DEF RowsOn
  <2> QED BY <2>1, <2>2 DEF FoundIn
<1>7. CASE mode = "ordered"
  <2>1. t.tids = s.tids /\ \E f \in Froms(pg, s) : t.heap = Queued(pg, f, s).heap
    BY <1>1, <1>7, ScannedFields DEF pg
  <2>2. PICK f \in Froms(pg, s) : t.heap = Queued(pg, f, s).heap BY <2>1
  <2>3. \/ RowOf[e] \in s.tids
        \/ \E h \in Queued(pg, f, s).heap : h.tid = RowOf[e] /\ h.dist <= Dist[e]
    BY <1>1, <1>2, <1>4, <1>7, QueuedCover
  <2> QED BY <2>1, <2>2, <2>3 DEF FoundIn
<1> QED BY <1>5, <1>6, <1>7 DEF Modes

\* Reading a page that was queued loses nothing.
LEMMA ReadFinds ==
  ASSUME GoodIndex(pages, lsn), AllFlagsDead, mode \in Modes, NEW s \in ScanState,
         mode = "ordered" => TableOK(s), NEW i \in QueueItem, i.plsn # 0,
         pages[i.blk].type # "new", NEW t \in Scanned(i, s),
         NEW e \in Entries, tid[RowOf[e]] = "live", KeyTest(e), FoundIn(s, RowOf[e], e)
  PROVE  FoundIn(t, RowOf[e], e)
<1> DEFINE pg == pages[i.blk]
<1>1. i.blk \in Blocks /\ pg \in Page /\ pages \in [Blocks -> Page]
  BY PageFacts DEF QueueItem, GoodIndex
<1>2. /\ s.tids \subseteq t.tids /\ s.heap \subseteq t.heap
      /\ s.queue \ {i} \subseteq t.queue /\ RightOf(i) \subseteq t.queue
  BY <1>1, ReadGrows
<1>3. CASE ~AheadIn(s.queue, e) BY <1>2, <1>3 DEF FoundIn
<1>4. CASE AheadIn(s.queue, e)
  <2>1. PICK j \in s.queue :
          j.dist <= Dist[e] /\ \E b \in Chain(pages, j.blk, j.plsn) : HasEntry(pages, b, e)
    BY <1>4 DEF AheadIn
  <2>2. CASE j # i
    <3>1. j \in t.queue BY <2>2, <1>2
    <3> QED BY <3>1, <2>1 DEF FoundIn, AheadIn
  <2>3. CASE j = i
    <3>1. PICK b \in Chain(pages, i.blk, i.plsn) : HasEntry(pages, b, e) BY <2>1, <2>3
    <3>2. CASE b = i.blk BY <3>1, <3>2, <1>1, LeafRead
    <3>3. CASE b # i.blk
      <4>1. Follows(pages, i.blk, i.plsn) /\ b \in Chain(pages, pg.right, i.plsn)
        BY <3>3, <1>1, ChainStep
      <4> DEFINE n == [i EXCEPT !.blk = pg.right]
      <4>2. n \in RightOf(i) BY <4>1 DEF RightOf, Follows
      <4>3. n.blk = pg.right /\ n.plsn = i.plsn /\ n.dist = i.dist BY DEF QueueItem
      <4> HIDE DEF n, pg
      <4>4. n \in t.queue /\ n.dist <= Dist[e] BY <4>2, <4>3, <1>2, <2>1, <2>3
      <4>5. \E c \in Chain(pages, n.blk, n.plsn) : HasEntry(pages, c, e) BY <3>1, <4>1, <4>3
      <4>6. AheadIn(t.queue, e) BY <4>4, <4>5 DEF AheadIn
      <4> QED BY <4>6 DEF FoundIn
    <3> QED BY <3>2, <3>3
  <2> QED BY <2>2, <2>3
<1> QED BY <1>3, <1>4

\* Reading the root finds every covered entry, or where it is.
LEMMA RootFinds ==
  ASSUME GoodIndex(pages, lsn), TwoLevels(pages), AllFlagsDead, mode \in Modes,
         NEW s \in ScanState, mode = "ordered" => TableOK(s), NEW t \in Scanned(RootItem, s),
         NEW e \in Entries, tid[RowOf[e]] = "live", KeyTest(e), Covered(pages, e)
  PROVE  FoundIn(t, RowOf[e], e)
<1> DEFINE pg == pages[Root]
<1>1. /\ RootItem.blk = Root /\ Root \in Blocks /\ pages \in [Blocks -> Page]
      /\ pg.links \subseteq Link /\ pg.type \in {"leaf", "inner"}
      /\ pg.type = "leaf" => \A b \in Blocks \ {Root} : pages[b].type = "new"
  BY PageFacts, BlocksAssumption DEF RootItem, GoodIndex
<1>2. PICK b \in Blocks :
        /\ HasEntry(pages, b, e)
        /\ b = Root \/ \E k \in pg.links : k.low <= Dist[e] /\ LeadsTo(pages, k, b)
  BY DEF Covered
<1>3. CASE b = Root BY <1>1, <1>2, <1>3, LeafRead
<1>4. CASE b # Root
  <2>1. PICK k \in pg.links : k.low <= Dist[e] /\ LeadsTo(pages, k, b) BY <1>2, <1>4
  <2>2. pg.type = "inner" BY <1>1, <1>2, <1>4 DEF HasEntry
  <2> DEFINE n == [blk |-> k.blk, plsn |-> pg.lsn, dist |-> k.low]
             C == Chain(pages, k.blk, pg.lsn)
  <2>3. n \in t.queue BY <1>1, <2>2, ScannedFields
  <2>4. b \in C
    <3>1. k.blk \in Blocks BY <1>1 DEF Link
    <3>2. k.blk \in C /\ Closed(pages, C, pg.lsn) BY <1>1, <3>1, ChainFacts
    <3>3. CASE k.blk = b BY <3>2, <3>3
    <3>4. CASE pages[k.blk].follow /\ pages[k.blk].right = b
      <4>1. Follows(pages, k.blk, pg.lsn) BY <3>4, BlocksAssumption DEF Follows
      <4> QED BY <4>1, <3>2, <3>4 DEF Closed
    <3> QED BY <2>1, <3>3, <3>4 DEF LeadsTo
  <2>5. n.blk = k.blk /\ n.plsn = pg.lsn /\ n.dist = k.low OBVIOUS
  <2> HIDE DEF n, C, pg
  <2>6. \E c \in Chain(pages, n.blk, n.plsn) : HasEntry(pages, c, e) BY <1>2, <2>4, <2>5 DEF C
  <2>7. AheadIn(t.queue, e) BY <2>1, <2>3, <2>5, <2>6 DEF AheadIn
  <2> QED BY <2>7 DEF FoundIn
<1> QED BY <1>3, <1>4

\* Queued items stand for pages below the root, with the LSN of the parent they were read in.
QueueBelow(queue) == \A i \in queue : i.plsn # 0 /\ i.plsn <= lsn /\ i.blk # Root

LEMMA ReadQueue ==
  ASSUME GoodIndex(pages, lsn), TwoLevels(pages), mode \in Modes, NEW s \in ScanState,
         QueueBelow(s.queue), NEW i \in QueueItem,
         i.plsn # 0 => i.plsn <= lsn /\ i.blk # Root,
         pages[i.blk].type # "new", NEW t \in Scanned(i, s)
  PROVE  QueueBelow(t.queue)
<1> DEFINE pg == pages[i.blk]
           q == (s.queue \ {i}) \cup RightOf(i)
           below == {[blk |-> k.blk, plsn |-> pg.lsn, dist |-> k.low] : k \in pg.links}
<1>1. /\ i.blk \in Blocks /\ pg.type \in {"new", "leaf", "inner", "deleted"} /\ pg.lsn <= lsn
      /\ pg.right # Root
  BY PageFacts DEF QueueItem, TwoLevels
<1>2. ASSUME NEW j \in RightOf(i) PROVE j.plsn # 0 /\ j.plsn <= lsn /\ j.blk # Root
  <2>1. j = [i EXCEPT !.blk = pg.right] /\ i.plsn # 0 BY DEF RightOf
  <2>2. j.blk = pg.right /\ j.plsn = i.plsn BY <2>1 DEF QueueItem
  <2> QED BY <1>1, <2>1, <2>2
<1>3. QueueBelow(q) BY <1>2 DEF QueueBelow
<1>4. ASSUME pg.type = "inner" PROVE QueueBelow(below)
  <2>1. i.blk = Root BY <1>1, <1>4 DEF TwoLevels
  <2>2. pg.lsn # 0 /\ \A k \in pg.links : k.blk # Root BY <2>1 DEF TwoLevels
  <2> HIDE DEF pg
  <2> QED BY <1>1, <2>2 DEF QueueBelow
<1> HIDE DEF pg, q, below
<1>5. t.queue = q \/ (pg.type = "inner" /\ t.queue = q \cup below)
  <2>1. CASE pg.type = "deleted" BY <2>1, ScannedFields DEF pg, q
  <2>2. CASE pg.type = "inner" BY <2>2, ScannedFields DEF pg, q, below
  <2>3. CASE pg.type = "leaf" /\ mode # "ordered" BY <2>3, ScannedFields DEF pg, q
  <2>4. CASE pg.type = "leaf" /\ mode = "ordered" BY <2>4, ScannedFields DEF pg, q
  <2> QED BY <1>1, <2>1, <2>2, <2>3, <2>4 DEF pg
<1> QED BY <1>3, <1>4, <1>5 DEF QueueBelow

\* Only an ordered scan queues rows, and its table of them stays right.
LEMMA ReadTables ==
  ASSUME mode \in Modes, NEW s \in ScanState, NEW i, pages[i.blk] \in Page,
         pages[i.blk].type # "new", NEW t \in Scanned(i, s),
         mode = "ordered" => TableOK(s) /\ HeapOfRows(s)
  PROVE  /\ mode # "ordered" => t.heap = s.heap
         /\ mode = "ordered" => TableOK(t) /\ HeapOfRows(t) /\ t.tids = s.tids
<1> DEFINE pg == pages[i.blk]
<1>1. pg.type \in {"deleted", "inner", "leaf"} /\ pg \in Page BY DEF Page
<1> HIDE DEF pg
<1>2. CASE pg.type \in {"deleted", "inner"}
  <2>1. t.heap = s.heap /\ t.tids = s.tids /\ t.best = s.best /\ t.freed = s.freed
    <3>1. CASE pg.type = "deleted" BY <3>1, ScannedFields DEF pg
    <3>2. CASE pg.type = "inner" BY <3>2, ScannedFields DEF pg
    <3> QED BY <1>2, <3>1, <3>2
  <2> QED BY <2>1 DEF TableOK, HeapOfRows
<1>3. CASE pg.type = "leaf" /\ mode # "ordered" BY <1>3, ScannedFields DEF pg
<1>4. CASE pg.type = "leaf" /\ mode = "ordered"
  <2>1. /\ t.tids = s.tids
        /\ \E f \in Froms(pg, s) : /\ t.heap = Queued(pg, f, s).heap
                                   /\ t.best = Queued(pg, f, s).best
                                   /\ t.freed = Queued(pg, f, s).freed
    BY <1>4, ScannedFields DEF pg
  <2>2. PICK f \in Froms(pg, s) : /\ t.heap = Queued(pg, f, s).heap
                                  /\ t.best = Queued(pg, f, s).best
                                  /\ t.freed = Queued(pg, f, s).freed
    BY <2>1
  <2> DEFINE q == Queued(pg, f, s)
  <2>3. /\ q.freed \subseteq s.tids
        /\ \A r \in Rows \ q.freed : q.best[r] < NoDist => [tid |-> r, dist |-> q.best[r]] \in q.heap
        /\ \A r \in Rows : q.best[r] <= NoDist
        /\ HeapOfRows(q)
    BY <1>1, <1>4, QueuedTables
  <2>4. t.heap = q.heap /\ t.best = q.best /\ t.freed = q.freed BY <2>2
  <2> HIDE DEF q
  <2> QED BY <1>4, <2>1, <2>3, <2>4 DEF TableOK, HeapOfRows
<1> QED BY <1>1, <1>2, <1>3, <1>4

\* A row that a plain scan notes lies in the page data, to be returned.
LEMMA ReadHands ==
  ASSUME mode = "plain", NEW s \in ScanState, NEW i, pages[i.blk] \in Page,
         pages[i.blk].type # "new", NEW t \in Scanned(i, s), ReadOK(i, s, t)
  PROVE  \A r \in t.tids : r \in s.tids \/ \E k \in t.cur + 1..Len(t.data) : t.data[k].tid = r
<1> DEFINE pg == pages[i.blk]
<1>1. pg.type \in {"deleted", "inner", "leaf"} /\ pg \in Page /\ mode \in Modes BY DEF Page, Modes
<1> HIDE DEF pg
<1>2. CASE pg.type = "deleted" BY <1>1, <1>2, ScannedFields DEF pg
<1>3. CASE pg.type = "inner" BY <1>1, <1>3, ScannedFields DEF pg
<1>4. CASE pg.type = "leaf"
  <2>1. /\ t.data = NewRows(pg, s)
        /\ t.tids = s.tids \cup {NewRows(pg, s)[k].tid : k \in DOMAIN NewRows(pg, s)}
    BY <1>1, <1>4, ScannedFields DEF pg
  <2>2. t.cur = 0 /\ t.data \in Seq(Hit) BY <1>4 DEF ReadOK, ScanState, pg
  <2>3. DOMAIN t.data = t.cur + 1..Len(t.data) BY <2>2
  <2> QED BY <2>1, <2>3
<1> QED BY <1>1, <1>2, <1>3, <1>4

(***************************************************************************)
(* The invariants of the search.                                           *)
(***************************************************************************)
\* Rows of the snapshot stay live, and were indexed before the scan began.
SnapLive == \A r \in snap : tid[r] = "live" /\ EntriesOf(r) \cap pend = {}

\* Whatever matches is noted, queued, or ahead.
Searching == ~so.first \/ (mode = "bitmap" /\ pc \in {"bitmap", "done"})
AllFound ==
  Searching => \A r \in snap : \A e \in EntriesOf(r) : KeyTest(e) => FoundIn(so, r, e)

\* A row that is noted was returned, or waits in the page data.
Given(r) ==
  \/ \E i \in DOMAIN out : out[i].tid = r
  \/ mode = "plain" /\ \E k \in so.cur + 1..Len(so.data) : so.data[k].tid = r
Handed == mode # "bitmap" /\ ~so.first => \A r \in so.tids : Given(r)

Tables ==
  /\ mode # "ordered" => so.heap = {}
  /\ HeapOfRows(so)
  /\ mode = "ordered" /\ ~so.first => TableOK(so)

\* The page data of a plain scan is used up before the next page, and everything at the end.
Finished ==
  /\ pc = "inner" => so.cur = Len(so.data)
  /\ pc = "done" => /\ so.queue = {} /\ so.heap = {}
                    /\ mode # "bitmap" => ~so.first
                    /\ mode = "plain" => so.cur = Len(so.data)

FoundInv == SnapLive /\ QueueBelow(so.queue) /\ AllFound /\ Handed /\ Tables /\ Finished

\* No row that is still to be returned is nearer than one that was.
Near ==
  mode = "ordered" =>
    \A j \in DOMAIN out : \A r \in snap \ so.tids : \A e \in EntriesOf(r) : out[j].dist <= Dist[e]
NearInv == Near /\ NearestFirst

SearchInv == ScanInv /\ AllFlagsDead /\ IndexInv /\ FoundInv

(***************************************************************************)
(* The other backends lose nothing for the scan.                           *)
(***************************************************************************)
LEMMA AheadCarried ==
  ASSUME GoodIndex(pages, lsn), TwoLevels(pages), pages' \in [Blocks -> Page], Carries(pages'),
         NEW q \in SUBSET QueueItem, QueueBelow(q), NEW e \in Entries, Wanted(e), AheadIn(q, e)
  PROVE  \E i \in q : /\ i.dist <= Dist[e]
                      /\ \E b \in Chain(pages', i.blk, i.plsn) : HasEntry(pages', b, e)
<1>1. PICK i \in q :
        i.dist <= Dist[e] /\ \E b \in Chain(pages, i.blk, i.plsn) : HasEntry(pages, b, e)
  BY DEF AheadIn
<1>2. PICK b \in Chain(pages, i.blk, i.plsn) : HasEntry(pages, b, e) BY <1>1
<1>3. /\ i.blk \in Blocks /\ i.plsn \in Nat /\ i.plsn <= lsn /\ i.blk # Root
      /\ pages \in [Blocks -> Page]
  BY DEF QueueItem, QueueBelow, GoodIndex
<1> DEFINE C == Chain(pages', i.blk, i.plsn)
<1>4. C \in SUBSET Blocks /\ Closed(pages', C, i.plsn) BY <1>3, ChainFacts
<1>5. b \in C BY <1>2, <1>3, ChainCarried DEF Carries
<1>6. b \in Blocks \ {Root}
  <2>1. Root \notin Chain(pages, i.blk, i.plsn) BY <1>3, ChainAvoidsRoot
  <2> QED BY <2>1, <1>2, <1>4, <1>5
<1> HIDE DEF C
<1>7. \/ HasEntry(pages', b, e)
      \/ pages'[b].follow /\ pages'[b].right \in Blocks /\ HasEntry(pages', pages'[b].right, e)
  BY <1>2, <1>6 DEF Carries, Keeps
<1>8. \E c \in C : HasEntry(pages', c, e)
  <2>1. CASE HasEntry(pages', b, e) BY <2>1, <1>5
  <2>2. CASE pages'[b].follow /\ pages'[b].right \in Blocks /\ HasEntry(pages', pages'[b].right, e)
    <3>1. Follows(pages', b, i.plsn) BY <2>2, BlocksAssumption DEF Follows
    <3>2. pages'[b].right \in C BY <3>1, <1>4, <1>5 DEF Closed
    <3> QED BY <3>2, <2>2
  <2> QED BY <1>7, <2>1, <2>2
<1> QED BY <1>1, <1>8 DEF C

\* Rows of the snapshot have their entries in the index.
LEMMA SnapWanted ==
  ASSUME RestOK, SnapLive, NEW r \in snap, NEW e \in EntriesOf(r)
  PROVE  /\ r \in Rows /\ e \in Entries /\ RowOf[e] = r /\ tid[r] = "live" /\ Wanted(e)
BY DEF SnapLive, EntriesOf, Wanted, RestOK

\* A record that carries the index over, or a step that marks tuples, keeps what was found.
SameScan ==
  /\ pc' = pc /\ mode' = mode /\ snap' = snap /\ out' = out
  /\ so'.queue = so.queue /\ so'.heap = so.heap /\ so'.first = so.first /\ so'.tids = so.tids
  /\ so'.best = so.best /\ so'.freed = so.freed /\ so'.data = so.data /\ so'.cur = so.cur

LEMMA CarriedFinds ==
  ASSUME ScanInv, IndexInv, FoundInv, GoodIndex(pages', lsn'), lsn' >= lsn, Carries(pages'),
         tid' = tid, pend' \subseteq pend, SameScan
  PROVE  IndexInv' /\ FoundInv' /\ (NearInv => NearInv')
<1>1. /\ GoodIndex(pages, lsn) /\ TwoLevels(pages) /\ pages' \in [Blocks -> Page] /\ RestOK
      /\ lsn \in Nat /\ lsn' \in Nat /\ so.queue \in SUBSET QueueItem /\ SnapLive
      /\ QueueBelow(so.queue)
  BY DEF ScanInv, StateOK, ScanState, GoodIndex, IndexInv, FoundInv
<1>2. IndexInv'
  <2>1. TwoLevels(pages') BY DEF Carries
  <2>2. \A e \in Entries : tid'[RowOf[e]] = "live" /\ e \notin pend' => Covered(pages', e)
    BY DEF Carries
  <2> QED BY <2>1, <2>2 DEF IndexInv, AllIndexed, Wanted
<1>3. SnapLive' BY <1>1 DEF SnapLive, SameScan
<1>4. QueueBelow(so.queue)'
  <2>1. ASSUME NEW i \in so.queue PROVE i.plsn <= lsn'
    <3>1. i.plsn \in Nat /\ i.plsn <= lsn BY <1>1 DEF QueueBelow, QueueItem
    <3> QED BY <3>1, <1>1
  <2> QED BY <2>1, <1>1 DEF QueueBelow, SameScan
<1>5. AllFound'
  <2> SUFFICES ASSUME Searching, NEW r \in snap, NEW e \in EntriesOf(r), KeyTest(e)
               PROVE  FoundIn(so, r, e)'
    BY DEF AllFound, Searching, KeyTest, SameScan
  <2>1. FoundIn(so, r, e) BY DEF FoundInv, AllFound
  <2>2. CASE AheadIn(so.queue, e)
    <3>1. e \in Entries /\ Wanted(e) BY <1>1, SnapWanted
    <3>2. \E i \in so.queue : /\ i.dist <= Dist[e]
                              /\ \E b \in Chain(pages', i.blk, i.plsn) : HasEntry(pages', b, e)
      BY <1>1, <2>2, <3>1, AheadCarried
    <3>3. AheadIn(so.queue, e)' BY <3>2 DEF AheadIn, SameScan
    <3> QED BY <3>3 DEF FoundIn
  <2>3. CASE ~AheadIn(so.queue, e) BY <2>1, <2>3 DEF FoundIn, SameScan
  <2> QED BY <2>2, <2>3
<1>6. Handed' BY DEF FoundInv, Handed, Given, SameScan
<1>7. Tables' BY DEF FoundInv, Tables, TableOK, HeapOfRows, SameScan
<1>8. Finished' BY DEF FoundInv, Finished, SameScan
<1>9. NearInv => NearInv' BY DEF NearInv, Near, NearestFirst, SameScan
<1> QED BY <1>2, <1>3, <1>4, <1>5, <1>6, <1>7, <1>8, <1>9 DEF FoundInv

\* Rows outside the snapshot are born and die.
LEMMA HeapFinds ==
  ASSUME SearchInv, NEW r \in Rows, HeapStep(r)
  PROVE  IndexInv' /\ FoundInv' /\ (NearInv => NearInv')
<1>1. /\ pages' = pages /\ lsn' = lsn /\ pc' = pc /\ mode' = mode /\ so' = so /\ snap' = snap
      /\ out' = out
  BY DEF HeapStep, NewRow, RowDies, FreeTid, scanVars
<1>2. /\ tid \in [Rows -> {"free", "live", "dead"}] /\ snap \subseteq Rows
      /\ \A q \in snap : tid[q] = "live" /\ EntriesOf(q) \cap pend = {}
      /\ RowOf \in [Entries -> Rows]
  BY EntriesAssumption DEF SearchInv, ScanInv, RestOK, FoundInv, SnapLive
<1>3. /\ r \notin snap /\ \A q \in Rows \ {r} : tid'[q] = tid[q]
      /\ \/ tid'[r] # "live" /\ pend' \subseteq pend /\ pend \ EntriesOf(r) \subseteq pend'
         \/ pend' = pend \cup EntriesOf(r)
  <2>1. CASE NewRow(r)
    <3>1. tid[r] = "free" /\ tid' = [tid EXCEPT ![r] = "live"] /\ pend' = pend \cup EntriesOf(r)
      BY <2>1 DEF NewRow
    <3> QED BY <3>1, <1>2
  <2>2. CASE RowDies(r)
    <3>1. r \notin snap /\ tid' = [tid EXCEPT ![r] = "dead"] /\ pend' = pend \ EntriesOf(r)
      BY <2>2 DEF RowDies
    <3> QED BY <3>1, <1>2
  <2>3. CASE FreeTid(r)
    <3>1. tid[r] = "dead" /\ tid' = [tid EXCEPT ![r] = "free"] /\ pend' = pend
      BY <2>3 DEF FreeTid
    <3> QED BY <3>1, <1>2
  <2> QED BY <2>1, <2>2, <2>3 DEF HeapStep
<1>4. ASSUME NEW e \in Entries, Wanted(e)' PROVE Wanted(e)
  <2>1. tid'[RowOf[e]] = "live" /\ e \notin pend' BY <1>4 DEF Wanted
  <2>2. RowOf[e] # r BY <1>3, <2>1 DEF EntriesOf
  <2>3. e \notin EntriesOf(r) /\ RowOf[e] \in Rows \ {r} BY <2>2, <1>2 DEF EntriesOf
  <2>4. e \notin pend BY <2>1, <2>3, <1>3
  <2> QED BY <2>1, <2>3, <2>4, <1>3 DEF Wanted
<1>5. IndexInv' BY <1>1, <1>4 DEF SearchInv, IndexInv, AllIndexed
<1>6. SnapLive'
  <2> SUFFICES ASSUME NEW q \in snap PROVE tid'[q] = "live" /\ EntriesOf(q) \cap pend' = {}
    BY <1>1 DEF SnapLive
  <2>1. q \in Rows \ {r} /\ tid[q] = "live" /\ EntriesOf(q) \cap pend = {} BY <1>2, <1>3
  <2>2. EntriesOf(q) \cap EntriesOf(r) = {} BY <2>1 DEF EntriesOf
  <2> QED BY <2>1, <2>2, <1>3
<1>7. AllFound' BY <1>1 DEF SearchInv, FoundInv, AllFound, Searching, KeyTest, FoundIn, AheadIn
<1>8. QueueBelow(so.queue)' BY <1>1 DEF SearchInv, FoundInv, QueueBelow
<1>9. Handed' /\ Tables' /\ Finished'
  BY <1>1 DEF SearchInv, FoundInv, Handed, Given, Tables, TableOK, HeapOfRows, Finished
<1>10. NearInv => NearInv' BY <1>1 DEF NearInv, Near, NearestFirst
<1> QED BY <1>5, <1>6, <1>7, <1>8, <1>9, <1>10 DEF FoundInv

LEMMA OthersFind ==
  ASSUME SearchInv, Others
  PROVE  IndexInv' /\ FoundInv' /\ (NearInv => NearInv')
<1>1. ScanInv /\ GoodIndex(pages, lsn) /\ AllFlagsDead /\ IndexInv /\ FoundInv /\ writes \in Nat
  BY DEF SearchInv, ScanInv, RestOK
<1>2. ASSUME RecordOK, Carries(pages') PROVE IndexInv' /\ FoundInv' /\ (NearInv => NearInv')
  <2>1. GoodIndex(pages', lsn') /\ lsn' >= lsn /\ tid' = tid /\ pend' \subseteq pend /\ SameScan
    BY <1>2 DEF RecordOK, SameScan, scanVars
  <2> QED BY <1>1, <1>2, <2>1, CarriedFinds
<1>3. CASE \E r \in Rows : NewRow(r) \/ RowDies(r) \/ FreeTid(r)
  BY <1>3, HeapFinds DEF HeapStep
<1>4. CASE \E e \in Entries : \E k \in pages[Root].links : AdjustLink(e, k)
  BY <1>1, <1>2, <1>4, AdjustLinkOK, AdjustLinkCarries
<1>5. CASE \E e \in Entries : \E b \in Blocks : AddEntry(e, b)
  BY <1>1, <1>2, <1>5, AddEntryOK, AddEntryCarries
<1>6. CASE \E e \in Entries : \E b \in Blocks : SplitLeaf(e, b)
  BY <1>1, <1>2, <1>6, SplitLeafOK, SplitLeafCarries
<1>7. CASE \E e \in Entries : SplitRoot(e)
  BY <1>1, <1>2, <1>7, SplitRootOK, SplitRootCarries
<1>8. CASE \E b \in Blocks : PostDownlink(b)
  BY <1>1, <1>2, <1>8, PostDownlinkOK, PostDownlinkCarries
<1>9. CASE \E b \in Blocks : VacuumLeaf(b)
  BY <1>1, <1>2, <1>9, VacuumLeafOK, VacuumLeafCarries
<1>10. CASE \E b \in Blocks : DeleteLeaf(b)
  BY <1>1, <1>2, <1>10, DeleteLeafOK, DeleteLeafCarries
<1> QED BY <1>3, <1>4, <1>5, <1>6, <1>7, <1>8, <1>9, <1>10 DEF Others

(***************************************************************************)
(* The steps of the scan.                                                  *)
(***************************************************************************)
\* Flagging tuples moves none.
LEMMA KillItemsFinds ==
  ASSUME SearchInv, KillItems
  PROVE  IndexInv' /\ FoundInv' /\ (NearInv => NearInv')
<1>1. ScanInv /\ GoodIndex(pages, lsn) /\ IndexInv /\ FoundInv /\ pages \in [Blocks -> Page]
  BY DEF SearchInv, ScanInv, GoodIndex
<1>2. GoodIndex(pages', lsn') /\ lsn' = lsn /\ tid' = tid /\ lsn \in Nat /\ so.blk \in Blocks
  BY <1>1, KillItemsFacts DEF GoodIndex
<1>3. /\ SameScan /\ pend' = pend
      /\ pages' = pages \/ \E d : pages' = [pages EXCEPT ![so.blk].dead = d]
  <2>1. so \in ScanState /\ so' = [so EXCEPT !.killed = {}]
    BY <1>1 DEF ScanInv, StateOK, KillItems
  <2>2. /\ so'.queue = so.queue /\ so'.heap = so.heap /\ so'.first = so.first
        /\ so'.tids = so.tids /\ so'.best = so.best /\ so'.freed = so.freed
        /\ so'.data = so.data /\ so'.cur = so.cur
    BY <2>1 DEF ScanState
  <2> QED BY <2>2 DEF SameScan, KillItems
<1>4. \A b \in Blocks : /\ pages'[b].type = pages[b].type /\ pages'[b].items = pages[b].items
                        /\ pages'[b].links = pages[b].links /\ pages'[b].right = pages[b].right
                        /\ pages'[b].nsn = pages[b].nsn /\ pages'[b].follow = pages[b].follow
                        /\ pages'[b].lsn = pages[b].lsn
  <2>1. CASE pages' = pages BY <2>1
  <2>2. CASE \E d : pages' = [pages EXCEPT ![so.blk].dead = d]
    <3>1. PICK d : pages' = [pages EXCEPT ![so.blk].dead = d] BY <2>2
    <3>2. /\ pages'[so.blk] = [pages[so.blk] EXCEPT !.dead = d] /\ pages[so.blk] \in Page
          /\ \A b \in Blocks \ {so.blk} : pages'[b] = pages[b]
      BY <1>1, <1>2, <3>1
    <3>3. /\ pages'[so.blk].type = pages[so.blk].type /\ pages'[so.blk].items = pages[so.blk].items
          /\ pages'[so.blk].links = pages[so.blk].links /\ pages'[so.blk].right = pages[so.blk].right
          /\ pages'[so.blk].nsn = pages[so.blk].nsn /\ pages'[so.blk].follow = pages[so.blk].follow
          /\ pages'[so.blk].lsn = pages[so.blk].lsn
      BY <3>2 DEF Page
    <3> QED BY <3>2, <3>3
  <2> QED BY <1>3, <2>1, <2>2
<1>5. TwoLevels(pages')
  <2>1. Root \in Blocks BY BlocksAssumption
  <2> QED BY <1>1, <1>4, <2>1 DEF IndexInv, TwoLevels
<1>6. \A b \in Blocks, e \in Entries : HasEntry(pages, b, e) => HasEntry(pages', b, e)
  BY <1>4 DEF HasEntry
<1>7. Keeps(pages') BY <1>6 DEF Keeps
<1>8. Lengthens(pages')
  <2>1. ASSUME NEW b \in Blocks, NEW p \in Nat, Follows(pages, b, p)
        PROVE  /\ Follows(pages', b, p) /\ pages'[b].right = pages[b].right
               /\ pages'[b].right \in Blocks
    BY <2>1, <1>1, <1>4, PageFacts DEF Follows
  <2> QED BY <2>1 DEF Lengthens
<1>9. ASSUME NEW e \in Entries, Covered(pages, e) PROVE Covered(pages', e)
  <2>1. PICK b \in Blocks :
          /\ HasEntry(pages, b, e)
          /\ b = Root \/ \E k \in pages[Root].links : k.low <= Dist[e] /\ LeadsTo(pages, k, b)
    BY <1>9 DEF Covered
  <2>2. ASSUME NEW k \in pages[Root].links, LeadsTo(pages, k, b)
        PROVE  k \in pages'[Root].links /\ LeadsTo(pages', k, b)
    <3>1. k.blk \in Blocks /\ Root \in Blocks BY <1>1, PageFacts, BlocksAssumption DEF Link
    <3> QED BY <3>1, <2>2, <1>4 DEF LeadsTo
  <2> QED BY <2>1, <2>2, <1>6 DEF Covered
<1>10. Carries(pages')
  BY <1>1, <1>2, <1>3, <1>5, <1>7, <1>8, <1>9 DEF Carries, IndexInv, AllIndexed, Wanted
<1>11. lsn' >= lsn /\ pend' \subseteq pend BY <1>2, <1>3
<1> QED BY <1>1, <1>2, <1>3, <1>10, <1>11, CarriedFinds

\* A page is read into search state s.
LEMMA ReadKeepsSearch ==
  ASSUME SearchInv, NEW s \in ScanState, QueueBelow(s.queue), NEW i \in QueueItem,
         i.plsn # 0 => i.plsn <= lsn /\ i.blk # Root,
         pages[i.blk].type # "new", so' \in Scanned(i, s), ReadOK(i, s, so'), StateOK',
         UNCHANGED <<indexVars, mode, snap, out>>,
         mode # "ordered" => s.heap = {}, HeapOfRows(s), mode = "ordered" => TableOK(s),
         \A r \in snap : \A e \in EntriesOf(r) : KeyTest(e) => FoundIn(so', r, e),
         mode # "bitmap" => \A r \in s.tids : \E j \in DOMAIN out : out[j].tid = r,
         mode = "ordered" => s.tids = so.tids \/ out = <<>>,
         pc' \in {"outer", "inner", "nearest", "bitmap"}, pc' = "inner" => so'.data = <<>>
  PROVE  IndexInv' /\ FoundInv' /\ (NearInv => NearInv')
<1>1. /\ pages' = pages /\ lsn' = lsn /\ tid' = tid /\ pend' = pend /\ mode' = mode
      /\ snap' = snap /\ out' = out
  BY DEF indexVars
<1>2. /\ GoodIndex(pages, lsn) /\ TwoLevels(pages) /\ mode \in Modes /\ SnapLive
      /\ i.blk \in Blocks /\ pages[i.blk] \in Page
  BY PageFacts DEF SearchInv, ScanInv, RestOK, IndexInv, FoundInv, QueueItem
<1>3. IndexInv' BY <1>1 DEF SearchInv, IndexInv, AllIndexed, Wanted
<1>4. SnapLive' BY <1>1, <1>2 DEF SnapLive
<1>5. QueueBelow(so'.queue) BY <1>2, ReadQueue
<1>6. QueueBelow(so.queue)' BY <1>1, <1>5 DEF QueueBelow
<1>7. AllFound' BY <1>1 DEF AllFound, KeyTest, FoundIn, AheadIn
<1>8. /\ mode # "ordered" => so'.heap = s.heap
      /\ mode = "ordered" => TableOK(so') /\ HeapOfRows(so') /\ so'.tids = s.tids
  BY <1>2, ReadTables
<1>9. Tables'
  <2>1. HeapOfRows(so') BY <1>8 DEF HeapOfRows
  <2> QED BY <2>1, <1>1, <1>8 DEF Tables, HeapOfRows, TableOK
<1>10. Handed'
  <2>1. CASE mode = "plain"
    <3>1. \A r \in so'.tids : \/ r \in s.tids
                              \/ \E k \in so'.cur + 1..Len(so'.data) : so'.data[k].tid = r
      BY <2>1, <1>2, ReadHands
    <3> QED BY <3>1, <2>1, <1>1 DEF Handed, Given
  <2>2. CASE mode = "ordered" BY <2>2, <1>1, <1>8 DEF Handed, Given
  <2>3. CASE mode = "bitmap" BY <2>3, <1>1 DEF Handed
  <2> QED BY <2>1, <2>2, <2>3, <1>2 DEF Modes
<1>11. Finished'
  <2>1. so' \in ScanState /\ so'.cur <= Len(so'.data) BY DEF StateOK
  <2>2. so'.data = <<>> => so'.cur = Len(so'.data) BY <2>1 DEF ScanState
  <2> QED BY <2>2 DEF Finished
<1>12. NearInv => NearInv'
  <2>1. NearestFirst => NearestFirst' BY <1>1 DEF NearestFirst
  <2>2. Near => Near'
    <3>1. CASE mode = "ordered" BY <3>1, <1>1, <1>8 DEF Near
    <3>2. CASE mode # "ordered" BY <3>2, <1>1 DEF Near
    <3> QED BY <3>1, <3>2
  <2> QED BY <2>1, <2>2 DEF NearInv
<1> QED BY <1>3, <1>4, <1>6, <1>7, <1>9, <1>10, <1>11, <1>12 DEF FoundInv

\* What a page read starts from.
LEMMA ReadFacts ==
  ASSUME SearchInv
  PROVE  /\ GoodIndex(pages, lsn) /\ TwoLevels(pages) /\ AllFlagsDead /\ mode \in Modes /\ RestOK
         /\ SnapLive /\ so \in ScanState /\ so.queue \in SUBSET QueueItem
         /\ QueueBelow(so.queue) /\ Reachable(so.queue, pages) /\ HeapOfRows(so)
         /\ RootItem \in QueueItem /\ RootItem.blk = Root /\ RootItem.plsn = 0
         /\ pages[Root].type # "new"
         /\ \A i \in so.queue : /\ i \in QueueItem /\ i.plsn # 0 /\ i.plsn <= lsn /\ i.blk # Root
                                /\ pages[i.blk].type # "new"
         /\ mode # "ordered" => so.heap = {}
         /\ mode = "ordered" /\ ~so.first => TableOK(so)
<1>1. RootItem \in QueueItem /\ RootItem.blk = Root /\ RootItem.plsn = 0
  BY BlocksAssumption DEF RootItem, QueueItem
<1>2. so.queue \in SUBSET QueueItem BY DEF SearchInv, ScanInv, StateOK, ScanState
<1>3. /\ GoodIndex(pages, lsn) /\ TwoLevels(pages) /\ AllFlagsDead /\ mode \in Modes /\ RestOK
      /\ SnapLive /\ so \in ScanState /\ QueueBelow(so.queue) /\ Reachable(so.queue, pages)
      /\ HeapOfRows(so) /\ pages[Root].type # "new"
      /\ mode # "ordered" => so.heap = {}
      /\ mode = "ordered" /\ ~so.first => TableOK(so)
  BY DEF SearchInv, ScanInv, StateOK, RestOK, IndexInv, FoundInv, Tables, GoodIndex
<1>4. \A i \in so.queue : /\ i \in QueueItem /\ i.plsn # 0 /\ i.plsn <= lsn /\ i.blk # Root
                          /\ pages[i.blk].type # "new"
  BY <1>2, <1>3 DEF QueueBelow, Reachable
<1> QED BY <1>1, <1>2, <1>3, <1>4

LEMMA BeginScanFinds ==
  ASSUME SearchInv, NEW m \in Modes, BeginScan(m)
  PROVE  IndexInv' /\ FoundInv' /\ (NearInv => NearInv')
<1>1. /\ pages' = pages /\ lsn' = lsn /\ tid' = tid /\ pend' = pend /\ so' = so /\ out' = out
      /\ pc' = "client" /\ mode' = m
      /\ snap' = {r \in Rows : tid[r] = "live" /\ EntriesOf(r) \cap pend = {}}
      /\ so = NoScan /\ out = <<>>
  BY DEF BeginScan, indexVars, SearchInv, ScanInv, StageOK
<1>2. so.queue = {} /\ so.heap = {} /\ so.first = TRUE BY <1>1 DEF NoScan
<1>3. IndexInv' BY <1>1 DEF SearchInv, IndexInv, AllIndexed, Wanted
<1>4. SnapLive' /\ QueueBelow(so.queue)' BY <1>1, <1>2 DEF SnapLive, QueueBelow
<1>5. AllFound' /\ Handed' /\ Tables' /\ Finished'
  BY <1>1, <1>2 DEF AllFound, Searching, Handed, Tables, HeapOfRows, Finished
<1>6. NearInv' BY <1>1 DEF NearInv, Near, NearestFirst
<1> QED BY <1>3, <1>4, <1>5, <1>6 DEF FoundInv

LEMMA RescanFinds ==
  ASSUME SearchInv, Rescan
  PROVE  IndexInv' /\ FoundInv' /\ (NearInv => NearInv')
<1>1. /\ pages' = pages /\ lsn' = lsn /\ tid' = tid /\ pend' = pend /\ snap' = snap
      /\ out' = <<>> /\ pc' = "client" /\ mode' = mode
      /\ so' = [so EXCEPT !.queue = {}, !.heap = {}, !.first = TRUE] /\ so \in ScanState
  BY ReadFacts DEF Rescan, indexVars
<1>2. so'.queue = {} /\ so'.heap = {} /\ so'.first = TRUE BY <1>1 DEF ScanState
<1>3. IndexInv' BY <1>1 DEF SearchInv, IndexInv, AllIndexed, Wanted
<1>4. SnapLive' /\ QueueBelow(so.queue)'
  BY <1>1, <1>2 DEF SearchInv, FoundInv, SnapLive, QueueBelow
<1>5. AllFound' /\ Handed' /\ Tables' /\ Finished'
  BY <1>1, <1>2 DEF AllFound, Searching, Handed, Tables, HeapOfRows, Finished
<1>6. NearInv' BY <1>1 DEF NearInv, Near, NearestFirst
<1> QED BY <1>3, <1>4, <1>5, <1>6 DEF FoundInv

LEMMA FirstCallFinds ==
  ASSUME SearchInv, FirstCall
  PROVE  IndexInv' /\ FoundInv' /\ (NearInv => NearInv')
<1> DEFINE s == [so EXCEPT !.first = FALSE, !.tids = {}, !.freed = {},
                           !.best = NoScan.best, !.data = <<>>, !.cur = 0]
<1>1. /\ UNCHANGED <<indexVars, mode, snap, out>> /\ so' \in Scanned(RootItem, s)
      /\ pc' = (IF mode = "plain" THEN "outer" ELSE "nearest") /\ so.first
  BY DEF FirstCall
<1>2. ReadOK(RootItem, s, so') /\ StateOK' BY FirstCallKeeps DEF SearchInv, ScanInv
<1>3. out = <<>> BY <1>1 DEF SearchInv, ScanInv, StageOK
<1>4. /\ s \in ScanState /\ s.queue = so.queue /\ s.heap = so.heap /\ s.tids = {} /\ s.freed = {}
      /\ s.best = [r \in Rows |-> NoDist]
  <2>1. <<>> \in Seq(Hit) OBVIOUS
  <2> QED BY <2>1, ReadFacts, NoScanFacts, NoBestYet DEF ScanState
<1> HIDE DEF s
<1>5. QueueBelow(s.queue) /\ HeapOfRows(s) /\ (mode # "ordered" => s.heap = {})
  BY <1>4, ReadFacts DEF HeapOfRows
<1>6. TableOK(s)
  <2>1. ASSUME NEW r \in Rows PROVE s.best[r] = NoDist /\ NoDist \in Nat
    <3>1. Entries # {} BY EntriesAssumption DEF EntriesOf
    <3> QED BY <3>1, <1>4, NoDistFacts
  <2> QED BY <2>1, <1>4 DEF TableOK
<1>7. ASSUME NEW r \in snap, NEW e \in EntriesOf(r), KeyTest(e) PROVE FoundIn(so', r, e)
  <2>1. /\ e \in Entries /\ RowOf[e] = r /\ tid[r] = "live" /\ Wanted(e)
    BY ReadFacts, SnapWanted
  <2>2. Covered(pages, e) BY <2>1 DEF SearchInv, IndexInv, AllIndexed
  <2> QED BY <1>1, <1>4, <1>6, <1>7, <2>1, <2>2, ReadFacts, RootFinds
<1>8. pc' \in {"outer", "inner", "nearest", "bitmap"} /\ pc' # "inner" BY <1>1
<1> QED BY <1>1, <1>2, <1>3, <1>4, <1>5, <1>6, <1>7, <1>8, ReadFacts, ReadKeepsSearch

LEMMA ReturnRowFinds ==
  ASSUME SearchInv, ReturnRow
  PROVE  IndexInv' /\ FoundInv' /\ (NearInv => NearInv')
<1> DEFINE h == [tid |-> so.data[so.cur + 1].tid, dist |-> 0]
<1>1. /\ pages' = pages /\ lsn' = lsn /\ tid' = tid /\ pend' = pend /\ mode' = mode
      /\ snap' = snap /\ pc' = "client" /\ InLoop("outer") /\ so.cur < Len(so.data)
      /\ so' = [so EXCEPT !.killed = Remember, !.cur = so.cur + 1] /\ out' = Append(out, h)
  BY DEF ReturnRow, indexVars
<1>2. mode = "plain" /\ ~so.first BY <1>1, InOuter DEF SearchInv
<1>3. /\ so \in ScanState /\ out \in Seq(Returned) /\ so.cur \in Nat /\ so.data \in Seq(Hit)
  BY ReadFacts DEF RestOK, ScanState
<1>4. /\ so'.queue = so.queue /\ so'.heap = so.heap /\ so'.first = so.first /\ so'.tids = so.tids
      /\ so'.data = so.data /\ so'.cur = so.cur + 1
  BY <1>1, <1>3 DEF ScanState
<1>5. /\ out'[Len(out) + 1] = h /\ Len(out) + 1 \in DOMAIN out'
      /\ \A i \in DOMAIN out : i \in DOMAIN out' /\ out'[i] = out[i]
  <2> HIDE DEF h
  <2> QED BY <1>1, <1>3
<1>6. IndexInv' BY <1>1 DEF SearchInv, IndexInv, AllIndexed, Wanted
<1>7. SnapLive' /\ QueueBelow(so.queue)'
  BY <1>1, <1>4 DEF SearchInv, FoundInv, SnapLive, QueueBelow
<1>8. AllFound'
  BY <1>1, <1>2, <1>4
  DEF SearchInv, FoundInv, AllFound, Searching, KeyTest, FoundIn, AheadIn
<1>9. ASSUME NEW r \in so.tids PROVE Given(r)'
  <2>1. Given(r) BY <1>2 DEF SearchInv, FoundInv, Handed
  <2>2. CASE \E i \in DOMAIN out : out[i].tid = r BY <2>2, <1>5 DEF Given
  <2>3. CASE \E k \in so.cur + 1..Len(so.data) : so.data[k].tid = r
    <3>1. PICK k \in so.cur + 1..Len(so.data) : so.data[k].tid = r BY <2>3
    <3>2. CASE k = so.cur + 1
      <4>1. out'[Len(out) + 1].tid = r BY <3>1, <3>2, <1>5
      <4> QED BY <4>1, <1>5 DEF Given
    <3>3. CASE k # so.cur + 1
      <4>1. k \in so'.cur + 1..Len(so'.data) BY <3>3, <1>3, <1>4
      <4> QED BY <4>1, <3>1, <1>1, <1>2, <1>4 DEF Given
    <3> QED BY <3>2, <3>3
  <2> QED BY <2>1, <2>2, <2>3 DEF Given
<1>10. Handed' BY <1>4, <1>9 DEF Handed
<1>11. Tables' BY <1>1, <1>2, <1>4, ReadFacts DEF Tables, HeapOfRows
<1>12. Finished' BY <1>1 DEF Finished
<1>13. NearInv' BY <1>1, <1>2 DEF NearInv, Near, NearestFirst
<1> QED BY <1>6, <1>7, <1>8, <1>10, <1>11, <1>12, <1>13 DEF FoundInv

LEMMA PageDoneFinds ==
  ASSUME SearchInv, PageDone
  PROVE  IndexInv' /\ FoundInv' /\ (NearInv => NearInv')
<1>1. /\ pages' = pages /\ lsn' = lsn /\ tid' = tid /\ pend' = pend /\ mode' = mode
      /\ snap' = snap /\ pc' = "inner" /\ InLoop("outer") /\ so.cur = Len(so.data)
      /\ so' = [so EXCEPT !.killed = Remember] /\ out' = out
  BY DEF PageDone, indexVars
<1>2. mode = "plain" /\ ~so.first BY <1>1, InOuter DEF SearchInv
<1>3. /\ so'.queue = so.queue /\ so'.heap = so.heap /\ so'.first = so.first /\ so'.tids = so.tids
      /\ so'.data = so.data /\ so'.cur = so.cur
  BY <1>1, ReadFacts DEF ScanState
<1>4. IndexInv' BY <1>1 DEF SearchInv, IndexInv, AllIndexed, Wanted
<1>5. SnapLive' /\ QueueBelow(so.queue)'
  BY <1>1, <1>3 DEF SearchInv, FoundInv, SnapLive, QueueBelow
<1>6. AllFound'
  BY <1>1, <1>2, <1>3
  DEF SearchInv, FoundInv, AllFound, Searching, KeyTest, FoundIn, AheadIn
<1>7. Handed' BY <1>1, <1>2, <1>3 DEF SearchInv, FoundInv, Handed, Given
<1>8. Tables' BY <1>1, <1>2, <1>3, ReadFacts DEF Tables, HeapOfRows
<1>9. Finished' BY <1>1, <1>3 DEF Finished
<1>10. NearInv' BY <1>1, <1>2 DEF NearInv, Near, NearestFirst
<1> QED BY <1>4, <1>5, <1>6, <1>7, <1>8, <1>9, <1>10 DEF FoundInv

LEMMA NextPageFinds ==
  ASSUME SearchInv, NextPage
  PROVE  IndexInv' /\ FoundInv' /\ (NearInv => NearInv')
<1>1. /\ UNCHANGED <<indexVars, mode, snap, out>> /\ pc = "inner"
      /\ pc' = IF so'.data = <<>> THEN "inner" ELSE "outer"
  BY DEF NextPage
<1>2. StateOK' /\ mode = "plain" /\ ~so.first BY NextPageKeeps DEF SearchInv, ScanInv
<1>3. PICK i \in so.queue : so' \in Scanned(i, [so EXCEPT !.blk = i.blk]) BY DEF NextPage
<1> DEFINE s == [so EXCEPT !.blk = i.blk]
<1>4. /\ i \in QueueItem /\ i.plsn # 0 /\ i.plsn <= lsn /\ i.blk # Root
      /\ pages[i.blk].type # "new" /\ i.blk \in Blocks
  BY <1>3, ReadFacts DEF QueueItem
<1>5. /\ s \in ScanState /\ s.queue = so.queue /\ s.heap = so.heap /\ s.tids = so.tids
  BY <1>4, ReadFacts DEF ScanState
<1>6. so' \in Scanned(i, s) BY <1>3
<1> HIDE DEF s
<1>7. ReadOK(i, s, so') BY <1>4, <1>5, <1>6, ReadFacts, ScannedFacts
<1>8. QueueBelow(s.queue) /\ HeapOfRows(s) /\ s.heap = {}
  BY <1>2, <1>5, ReadFacts DEF HeapOfRows
<1>9. ASSUME NEW r \in s.tids PROVE \E j \in DOMAIN out : out[j].tid = r
  <2>1. Given(r) /\ so.cur = Len(so.data) /\ so.cur \in Nat
    BY <1>1, <1>2, <1>5, ReadFacts DEF SearchInv, FoundInv, Handed, Finished, ScanState
  <2>2. so.cur + 1..Len(so.data) = {} BY <2>1
  <2> QED BY <2>1, <2>2 DEF Given
<1>10. ASSUME NEW r \in snap, NEW e \in EntriesOf(r), KeyTest(e) PROVE FoundIn(so', r, e)
  <2>1. e \in Entries /\ RowOf[e] = r /\ tid[r] = "live" BY ReadFacts, SnapWanted
  <2>2. FoundIn(so, r, e) BY <1>2, <1>10 DEF SearchInv, FoundInv, AllFound, Searching
  <2>3. FoundIn(s, r, e) BY <2>2, <1>5 DEF FoundIn
  <2> QED BY <1>2, <1>4, <1>5, <1>6, <1>10, <2>1, <2>3, ReadFacts, ReadFinds
<1>11. pc' \in {"outer", "inner", "nearest", "bitmap"} /\ (pc' = "inner" => so'.data = <<>>)
  BY <1>1
<1> QED BY <1>1, <1>2, <1>4, <1>5, <1>6, <1>7, <1>8, <1>9, <1>10, <1>11, ReadFacts, ReadKeepsSearch

LEMMA PopPageFinds ==
  ASSUME SearchInv, PopPage
  PROVE  IndexInv' /\ FoundInv' /\ (NearInv => NearInv')
<1>1. UNCHANGED <<indexVars, mode, snap, out>> /\ InLoop("nearest") /\ pc' = "nearest"
  BY DEF PopPage
<1>2. StateOK' /\ mode = "ordered" /\ ~so.first
  BY <1>1, PopPageKeeps, InNearest DEF SearchInv, ScanInv
<1>3. PICK i \in so.queue : so' \in Scanned(i, so) BY DEF PopPage
<1>4. /\ i \in QueueItem /\ i.plsn # 0 /\ i.plsn <= lsn /\ i.blk # Root
      /\ pages[i.blk].type # "new"
  BY <1>3, ReadFacts
<1>5. ReadOK(i, so, so') BY <1>3, <1>4, ReadFacts, ScannedFacts
<1>6. ASSUME NEW r \in so.tids PROVE \E j \in DOMAIN out : out[j].tid = r
  BY <1>2 DEF SearchInv, FoundInv, Handed, Given
<1>7. ASSUME NEW r \in snap, NEW e \in EntriesOf(r), KeyTest(e) PROVE FoundIn(so', r, e)
  <2>1. e \in Entries /\ RowOf[e] = r /\ tid[r] = "live" BY ReadFacts, SnapWanted
  <2>2. FoundIn(so, r, e) BY <1>2, <1>7 DEF SearchInv, FoundInv, AllFound, Searching
  <2> QED BY <1>2, <1>3, <1>4, <1>7, <2>1, <2>2, ReadFacts, ReadFinds
<1>8. pc' \in {"outer", "inner", "nearest", "bitmap"} /\ pc' # "inner" BY <1>1
<1> QED BY <1>1, <1>2, <1>3, <1>4, <1>5, <1>6, <1>7, <1>8, ReadFacts, ReadKeepsSearch

LEMMA BitmapFinds ==
  ASSUME SearchInv, Bitmap
  PROVE  IndexInv' /\ FoundInv' /\ (NearInv => NearInv')
<1> DEFINE s == [so EXCEPT !.data = <<>>, !.cur = 0, !.tids = {}]
<1>1. /\ UNCHANGED <<indexVars, mode, snap, out>> /\ so' \in Scanned(RootItem, s)
      /\ pc' = "bitmap" /\ mode = "bitmap"
  BY DEF Bitmap
<1>2. StateOK' BY BitmapKeeps DEF SearchInv, ScanInv
<1>3. s \in ScanState /\ s.queue = so.queue /\ s.heap = so.heap /\ s.tids = {}
  <2>1. <<>> \in Seq(Hit) OBVIOUS
  <2> QED BY <2>1, ReadFacts DEF ScanState
<1> HIDE DEF s
<1>4. ReadOK(RootItem, s, so') BY <1>1, <1>3, ReadFacts, ScannedFacts
<1>5. QueueBelow(s.queue) /\ HeapOfRows(s) /\ s.heap = {} BY <1>1, <1>3, ReadFacts DEF HeapOfRows
<1>6. ASSUME NEW r \in snap, NEW e \in EntriesOf(r), KeyTest(e) PROVE FoundIn(so', r, e)
  <2>1. /\ e \in Entries /\ RowOf[e] = r /\ tid[r] = "live" /\ Wanted(e)
    BY ReadFacts, SnapWanted
  <2>2. Covered(pages, e) BY <2>1 DEF SearchInv, IndexInv, AllIndexed
  <2> QED BY <1>1, <1>3, <1>6, <2>1, <2>2, ReadFacts, RootFinds
<1>7. pc' \in {"outer", "inner", "nearest", "bitmap"} /\ pc' # "inner" BY <1>1
<1> QED BY <1>1, <1>2, <1>3, <1>4, <1>5, <1>6, <1>7, ReadFacts, ReadKeepsSearch

LEMMA BitmapPageFinds ==
  ASSUME SearchInv, BitmapPage
  PROVE  IndexInv' /\ FoundInv' /\ (NearInv => NearInv')
<1>1. UNCHANGED <<indexVars, mode, snap, out>> /\ pc = "bitmap" /\ pc' = "bitmap"
  BY DEF BitmapPage
<1>2. StateOK' /\ mode = "bitmap" BY <1>1, BitmapPageKeeps DEF SearchInv, ScanInv, StageOK
<1>3. PICK i \in so.queue : so' \in Scanned(i, so) BY DEF BitmapPage
<1>4. /\ i \in QueueItem /\ i.plsn # 0 /\ i.plsn <= lsn /\ i.blk # Root
      /\ pages[i.blk].type # "new"
  BY <1>3, ReadFacts
<1>5. ReadOK(i, so, so') BY <1>3, <1>4, ReadFacts, ScannedFacts
<1>6. ASSUME NEW r \in snap, NEW e \in EntriesOf(r), KeyTest(e) PROVE FoundIn(so', r, e)
  <2>1. e \in Entries /\ RowOf[e] = r /\ tid[r] = "live" BY ReadFacts, SnapWanted
  <2>2. FoundIn(so, r, e) BY <1>1, <1>2, <1>6 DEF SearchInv, FoundInv, AllFound, Searching
  <2> QED BY <1>2, <1>3, <1>4, <1>6, <2>1, <2>2, ReadFacts, ReadFinds
<1>7. pc' \in {"outer", "inner", "nearest", "bitmap"} /\ pc' # "inner" BY <1>1
<1> QED BY <1>1, <1>2, <1>3, <1>4, <1>5, <1>6, <1>7, ReadFacts, ReadKeepsSearch

\* A scan ends when there is nothing left to read or to return.
LEMMA EndFinds ==
  ASSUME SearchInv, EndStep
  PROVE  IndexInv' /\ FoundInv' /\ (NearInv => NearInv')
<1>1. /\ pages' = pages /\ lsn' = lsn /\ tid' = tid /\ pend' = pend /\ mode' = mode
      /\ snap' = snap /\ out' = out /\ so' = so /\ pc' = "done"
  BY DEF EndStep, NoMorePages, NoMoreItems, BitmapDone, indexVars
<1>2. /\ so.queue = {} /\ (mode # "bitmap" => ~so.first) /\ so.heap = {}
      /\ mode = "plain" => so.cur = Len(so.data)
      /\ mode = "bitmap" => pc = "bitmap"
  <2>1. CASE NoMorePages
    BY <2>1, ReadFacts DEF NoMorePages, SearchInv, ScanInv, StageOK, FoundInv, Finished
  <2>2. CASE NoMoreItems
    <3>1. mode = "ordered" /\ ~so.first BY <2>2, InNearest DEF NoMoreItems, SearchInv
    <3> QED BY <3>1, <2>2 DEF NoMoreItems
  <2>3. CASE BitmapDone
    BY <2>3, ReadFacts DEF BitmapDone, SearchInv, ScanInv, StageOK
  <2> QED BY <2>1, <2>2, <2>3 DEF EndStep
<1>3. IndexInv' BY <1>1 DEF SearchInv, IndexInv, AllIndexed, Wanted
<1>4. SnapLive' /\ QueueBelow(so.queue)' BY <1>1 DEF SearchInv, FoundInv, SnapLive, QueueBelow
<1>5. AllFound'
  <2>1. Searching BY <1>2, ReadFacts DEF Searching, Modes
  <2> QED BY <2>1, <1>1 DEF SearchInv, FoundInv, AllFound, KeyTest, FoundIn, AheadIn
<1>6. Handed' BY <1>1 DEF SearchInv, FoundInv, Handed, Given
<1>7. Tables' BY <1>1 DEF SearchInv, FoundInv, Tables, HeapOfRows, TableOK
<1>8. Finished' BY <1>1, <1>2 DEF Finished
<1>9. NearInv => NearInv' BY <1>1 DEF NearInv, Near, NearestFirst
<1> QED BY <1>3, <1>4, <1>5, <1>6, <1>7, <1>8, <1>9 DEF FoundInv

\* The item that comes first is no farther than any entry of a row still to be returned.
LEMMA FirstIsNearest ==
  ASSUME SearchInv, mode = "ordered", ~so.first, NEW h \in so.heap, FirstHeap(h),
         NEW r \in snap \ so.tids, NEW e \in EntriesOf(r), KeyTest(e)
  PROVE  h.dist <= Dist[e]
<1>1. FoundIn(so, r, e) BY DEF SearchInv, FoundInv, AllFound, Searching
<1>2. Dist[e] \in Nat BY EntriesAssumption DEF EntriesOf
<1>3. /\ h.dist \in Nat /\ \A g \in so.heap : g.dist \in Nat /\ h.dist <= g.dist
      /\ \A i \in so.queue : i.dist \in Nat /\ h.dist <= i.dist
  <2>1. so.heap \in SUBSET Returned /\ so.queue \in SUBSET QueueItem BY ReadFacts DEF ScanState
  <2> QED BY <2>1 DEF FirstHeap, Returned, QueueItem
<1>4. CASE AheadIn(so.queue, e)
  <2>1. PICK i \in so.queue : i.dist <= Dist[e] BY <1>4 DEF AheadIn
  <2>2. i.dist \in Nat /\ h.dist <= i.dist BY <1>3
  <2> QED BY <2>1, <2>2, <1>2, <1>3
<1>5. CASE \E g \in so.heap : g.tid = r /\ g.dist <= Dist[e]
  <2>1. PICK g \in so.heap : g.dist <= Dist[e] BY <1>5
  <2>2. g.dist \in Nat /\ h.dist <= g.dist BY <1>3
  <2> QED BY <2>1, <2>2, <1>2, <1>3
<1> QED BY <1>1, <1>4, <1>5 DEF FoundIn

\* The nearest row is returned, unless it was returned before.
LEMMA PopRowFacts ==
  ASSUME SearchInv, PopRow
  PROVE  /\ pages' = pages /\ lsn' = lsn /\ tid' = tid /\ pend' = pend /\ mode' = mode
         /\ snap' = snap /\ pc' \in {"nearest", "client"} /\ mode = "ordered" /\ ~so.first
         /\ \E h \in so.heap :
              /\ FirstHeap(h) /\ h \in Returned
              /\ so'.queue = so.queue /\ so'.heap = so.heap \ {h} /\ so'.first = so.first
              /\ so'.tids = so.tids \cup {h.tid} /\ so'.best = so.best
              /\ so'.freed = IF h.dist = so.best[h.tid] THEN so.freed \cup {h.tid} ELSE so.freed
              /\ \/ h.tid \in so.tids /\ out' = out
                 \/ /\ h.tid \notin so.tids
                    /\ Len(out) \in Nat /\ DOMAIN out = 1..Len(out)
                    /\ DOMAIN out' = 1..(Len(out) + 1) /\ out'[Len(out) + 1] = h
                    /\ \A i \in DOMAIN out : out'[i] = out[i]
<1>1. /\ pages' = pages /\ lsn' = lsn /\ tid' = tid /\ pend' = pend /\ mode' = mode
      /\ snap' = snap /\ pc' \in {"nearest", "client"} /\ InLoop("nearest")
  BY DEF PopRow, indexVars
<1>2. mode = "ordered" /\ ~so.first BY <1>1, InNearest DEF SearchInv
<1>3. PICK h \in so.heap :
        /\ FirstHeap(h) /\ so' = Popped(h)
        /\ \/ h.tid \in so.tids /\ out' = out
           \/ h.tid \notin so.tids /\ out' = Append(out, h)
  BY DEF PopRow
<1>4. so \in ScanState /\ out \in Seq(Returned) /\ h \in Returned
  BY ReadFacts DEF RestOK, ScanState
<1>5. /\ so'.queue = so.queue /\ so'.heap = so.heap \ {h} /\ so'.first = so.first
      /\ so'.tids = so.tids \cup {h.tid} /\ so'.best = so.best
      /\ so'.freed = IF h.dist = so.best[h.tid] THEN so.freed \cup {h.tid} ELSE so.freed
  BY <1>3, <1>4 DEF Popped, ScanState
<1>6. \/ h.tid \in so.tids /\ out' = out
      \/ /\ h.tid \notin so.tids
         /\ Len(out) \in Nat /\ DOMAIN out = 1..Len(out)
         /\ DOMAIN out' = 1..(Len(out) + 1) /\ out'[Len(out) + 1] = h
         /\ \A i \in DOMAIN out : out'[i] = out[i]
  BY <1>3, <1>4
<1> QED BY <1>1, <1>2, <1>3, <1>4, <1>5, <1>6

LEMMA PopRowFinds ==
  ASSUME SearchInv, PopRow
  PROVE  IndexInv' /\ FoundInv'
<1>1. /\ pages' = pages /\ lsn' = lsn /\ tid' = tid /\ pend' = pend /\ mode' = mode
      /\ snap' = snap /\ pc' \in {"nearest", "client"} /\ mode = "ordered" /\ ~so.first
  BY PopRowFacts
<1>2. PICK h \in so.heap :
        /\ so'.queue = so.queue /\ so'.heap = so.heap \ {h} /\ so'.first = so.first
        /\ so'.tids = so.tids \cup {h.tid} /\ so'.best = so.best
        /\ so'.freed = IF h.dist = so.best[h.tid] THEN so.freed \cup {h.tid} ELSE so.freed
        /\ \/ h.tid \in so.tids /\ out' = out
           \/ /\ h.tid \notin so.tids
              /\ Len(out) \in Nat /\ DOMAIN out = 1..Len(out)
              /\ DOMAIN out' = 1..(Len(out) + 1) /\ out'[Len(out) + 1] = h
              /\ \A i \in DOMAIN out : out'[i] = out[i]
  BY PopRowFacts
<1>3. IndexInv' BY <1>1 DEF SearchInv, IndexInv, AllIndexed, Wanted
<1>4. SnapLive' /\ QueueBelow(so.queue)'
  BY <1>1, <1>2 DEF SearchInv, FoundInv, SnapLive, QueueBelow
<1>5. AllFound'
  <2> SUFFICES ASSUME NEW r \in snap, NEW e \in EntriesOf(r), KeyTest(e)
               PROVE  FoundIn(so, r, e)'
    BY <1>1 DEF AllFound, KeyTest
  <2>1. FoundIn(so, r, e) BY <1>1 DEF SearchInv, FoundInv, AllFound, Searching
  <2>2. CASE r \in so.tids BY <2>2, <1>2 DEF FoundIn
  <2>3. CASE AheadIn(so.queue, e) BY <2>3, <1>1, <1>2 DEF FoundIn, AheadIn
  <2>4. CASE \E g \in so.heap : g.tid = r /\ g.dist <= Dist[e]
    <3>1. PICK g \in so.heap : g.tid = r /\ g.dist <= Dist[e] BY <2>4
    <3>2. CASE g = h BY <3>1, <3>2, <1>2 DEF FoundIn
    <3>3. CASE g # h BY <3>1, <3>3, <1>2 DEF FoundIn
    <3> QED BY <3>2, <3>3
  <2> QED BY <2>1, <2>2, <2>3, <2>4 DEF FoundIn
<1>6. ASSUME NEW r \in so'.tids PROVE \E i \in DOMAIN out' : out'[i].tid = r
  <2>1. \A q \in so.tids : \E i \in DOMAIN out : out[i].tid = q
    BY <1>1 DEF SearchInv, FoundInv, Handed, Given
  <2>2. CASE h.tid \in so.tids BY <2>1, <2>2, <1>2, <1>6
  <2>3. CASE h.tid \notin so.tids
    <3>1. CASE r = h.tid
      <4>1. Len(out) + 1 \in DOMAIN out' BY <1>2, <2>3
      <4> QED BY <4>1, <1>2, <2>3, <3>1
    <3>2. CASE r \in so.tids
      <4>1. PICK i \in DOMAIN out : out[i].tid = r BY <2>1, <3>2
      <4>2. i \in DOMAIN out' /\ out'[i] = out[i] BY <4>1, <1>2, <2>3
      <4> QED BY <4>1, <4>2
    <3> QED BY <3>1, <3>2, <1>2, <1>6
  <2> QED BY <2>2, <2>3
<1>7. Handed' BY <1>6 DEF Handed, Given
<1>8. Tables'
  <2>1. TableOK(so) /\ HeapOfRows(so) BY <1>1, ReadFacts
  <2>2. HeapOfRows(so)' BY <2>1, <1>2 DEF HeapOfRows
  <2>3. so'.freed \subseteq so'.tids BY <2>1, <1>2 DEF TableOK
  <2>4. ASSUME NEW r \in Rows \ so'.freed, so'.best[r] < NoDist
        PROVE  [tid |-> r, dist |-> so'.best[r]] \in so'.heap
    <3> DEFINE g == [tid |-> r, dist |-> so.best[r]]
    <3>1. r \in Rows \ so.freed /\ so.best[r] < NoDist BY <2>4, <1>2
    <3>2. g \in so.heap BY <3>1, <2>1 DEF TableOK
    <3>3. g.tid = r /\ g.dist = so.best[r] OBVIOUS
    <3> HIDE DEF g
    <3>4. g # h BY <2>4, <3>3, <1>2
    <3>5. g \in so'.heap BY <3>2, <3>4, <1>2
    <3> QED BY <3>5, <1>2 DEF g
  <2>5. \A r \in Rows : so'.best[r] <= NoDist BY <2>1, <1>2 DEF TableOK
  <2>6. TableOK(so)' BY <2>3, <2>4, <2>5 DEF TableOK
  <2> QED BY <2>2, <2>6, <1>1 DEF Tables
<1>9. Finished' BY <1>1 DEF Finished
<1> QED BY <1>3, <1>4, <1>5, <1>7, <1>8, <1>9 DEF FoundInv

LEMMA PopRowNear ==
  ASSUME SearchInv, NearInv, QualsIn["ordered"] = {}, PopRow
  PROVE  NearInv'
<1>1. mode' = mode /\ snap' = snap /\ mode = "ordered" /\ ~so.first BY PopRowFacts
<1>2. PICK h \in so.heap :
        /\ FirstHeap(h) /\ h \in Returned /\ so'.tids = so.tids \cup {h.tid}
        /\ \/ h.tid \in so.tids /\ out' = out
           \/ /\ h.tid \notin so.tids
              /\ Len(out) \in Nat /\ DOMAIN out = 1..Len(out)
              /\ DOMAIN out' = 1..(Len(out) + 1) /\ out'[Len(out) + 1] = h
              /\ \A i \in DOMAIN out : out'[i] = out[i]
  BY PopRowFacts
<1>3. \A e \in Entries : KeyTest(e) BY <1>1 DEF KeyTest
<1>4. ASSUME NEW r \in snap \ so.tids, NEW e \in EntriesOf(r) PROVE h.dist <= Dist[e]
  <2>1. e \in Entries BY DEF EntriesOf
  <2> QED BY <2>1, <1>1, <1>2, <1>3, FirstIsNearest
<1>5. CASE h.tid \in so.tids
  <2>1. out' = out /\ so'.tids = so.tids BY <1>2, <1>5
  <2> QED BY <2>1, <1>1 DEF NearInv, Near, NearestFirst
<1>6. CASE h.tid \notin so.tids
  <2> DEFINE n == Len(out) + 1
  <2>1. /\ Len(out) \in Nat /\ DOMAIN out = 1..Len(out) /\ DOMAIN out' = 1..n
        /\ out'[n] = h /\ \A i \in DOMAIN out : out'[i] = out[i]
    BY <1>2, <1>6
  <2>2. n \in Nat /\ \A i \in 1..n : i = n \/ i \in DOMAIN out BY <2>1
  <2> HIDE DEF n
  <2>3. Near'
    <3> SUFFICES ASSUME NEW j \in DOMAIN out', NEW r \in snap \ so'.tids, NEW e \in EntriesOf(r)
                 PROVE  out'[j].dist <= Dist[e]
      BY <1>1 DEF Near
    <3>1. r \in snap \ so.tids BY <1>2
    <3>2. CASE j = n BY <3>1, <3>2, <2>1, <1>4
    <3>3. CASE j \in DOMAIN out BY <3>1, <3>3, <2>1, <1>1 DEF NearInv, Near
    <3> QED BY <2>1, <2>2, <3>2, <3>3
  <2>4. ASSUME h.tid \in snap
        PROVE  /\ h.dist = Least({Dist[e] : e \in EntriesOf(h.tid)})
               /\ \A j \in DOMAIN out : out[j].dist <= h.dist
    <3> DEFINE D == {Dist[e] : e \in EntriesOf(h.tid)}
    <3>1. PICK e \in EntriesOf(h.tid) : h.dist = Dist[e] BY ReadFacts DEF HeapOfRows
    <3>2. D \in SUBSET Nat /\ h.dist \in D BY <3>1, EntriesAssumption DEF EntriesOf
    <3>3. \A y \in D : h.dist <= y BY <1>4, <1>6, <2>4
    <3>4. \A j \in DOMAIN out : out[j].dist <= Dist[e] BY <1>1, <1>6, <2>4 DEF NearInv, Near
    <3> HIDE DEF D
    <3>5. Least(D) \in D /\ Least(D) \in Nat /\ Least(D) <= h.dist BY <3>2, LeastIn
    <3>6. h.dist = Least(D)
      <4>1. h.dist <= Least(D) /\ h.dist \in Nat BY <3>2, <3>3, <3>5
      <4> QED BY <4>1, <3>5
    <3> QED BY <3>1, <3>4, <3>6 DEF D
  <2>5. NearestFirst'
    <3> SUFFICES ASSUME NEW i \in DOMAIN out', out'[i].tid \in snap
                 PROVE  /\ out'[i].dist = Least({Dist[e] : e \in EntriesOf(out'[i].tid)})
                        /\ \A j \in 1..(i - 1) : out'[j].tid \in snap => out'[j].dist <= out'[i].dist
      BY <1>1 DEF NearestFirst
    <3>1. \A j \in 1..(i - 1) : j \in DOMAIN out /\ out'[j] = out[j]
      <4>1. i \in Nat /\ i <= Len(out) + 1 BY <2>1 DEF n
      <4>2. \A j \in 1..(i - 1) : j \in 1..Len(out) BY <2>1, <4>1
      <4> QED BY <2>1, <4>2
    <3>2. CASE i = n BY <3>1, <3>2, <2>1, <2>4
    <3>3. CASE i \in DOMAIN out
      <4>1. out'[i] = out[i] BY <2>1, <3>3
      <4>2. /\ out[i].dist = Least({Dist[e] : e \in EntriesOf(out[i].tid)})
            /\ \A j \in 1..(i - 1) : out[j].tid \in snap => out[j].dist <= out[i].dist
        BY <1>1, <3>3, <4>1 DEF NearInv, NearestFirst
      <4> QED BY <3>1, <4>1, <4>2
    <3> QED BY <2>1, <2>2, <3>2, <3>3
  <2> QED BY <2>3, <2>5 DEF NearInv
<1> QED BY <1>5, <1>6

\* A freshly built index.
LEMMA IndexInit == ASSUME Init PROVE IndexInv
<1>1. PICK t \in InitIndexes :
        /\ pages = [b \in Blocks |->
             IF b \in DOMAIN t.leaves THEN Leaf(t.leaves[b], NoBlock, 0, BuildLSN, FALSE)
             ELSE IF b = Root
             THEN Inner({LinkTo(c, t.leaves[c]) : c \in DOMAIN t.leaves}, BuildLSN)
             ELSE EmptyPage]
        /\ tid = [r \in Rows |-> IF r \in t.rows THEN "live" ELSE "free"]
  BY DEF Init
<1>2. /\ t.leaves \in [DOMAIN t.leaves -> Seq(Entries)] /\ DOMAIN t.leaves \subseteq Blocks
      /\ Root \in DOMAIN t.leaves <=> DOMAIN t.leaves = {Root}
      /\ Root \notin DOMAIN t.leaves => \A b \in DOMAIN t.leaves : t.leaves[b] # <<>>
      /\ \A e \in Entries : RowOf[e] \in t.rows =>
           \E b \in DOMAIN t.leaves : \E o \in DOMAIN t.leaves[b] : t.leaves[b][o] = e
      /\ Root \in Blocks /\ NoBlock \notin Blocks
  BY InitAssumption, BlocksAssumption DEF InitIndex
<1> DEFINE D == DOMAIN t.leaves
           L(b) == Leaf(t.leaves[b], NoBlock, 0, BuildLSN, FALSE)
           links == {LinkTo(c, t.leaves[c]) : c \in D}
           R == Inner(links, BuildLSN)
<1>3. ASSUME NEW b \in D
      PROVE  /\ L(b).type = "leaf" /\ L(b).items = t.leaves[b] /\ L(b).right = NoBlock
             /\ L(b).nsn = 0 /\ ~L(b).follow /\ L(b).links = {} /\ L(b).lsn = BuildLSN
  BY DEF Leaf, EmptyPage
<1>4. /\ R.type = "inner" /\ R.right = NoBlock /\ R.nsn = 0 /\ ~R.follow /\ R.links = links
      /\ R.lsn = BuildLSN
  BY DEF Inner, EmptyPage
<1>5. /\ EmptyPage.type = "new" /\ EmptyPage.right = NoBlock /\ EmptyPage.nsn = 0
      /\ ~EmptyPage.follow
  BY DEF EmptyPage
<1>6. /\ \A b \in D : pages[b] = L(b)
      /\ Root \notin D => pages[Root] = R
      /\ \A b \in Blocks \ (D \cup {Root}) : pages[b] = EmptyPage
  BY <1>1, <1>2
<1> HIDE DEF D, L, R
<1>7. \A b \in Blocks : /\ pages[b].right = NoBlock /\ pages[b].nsn = 0 /\ ~pages[b].follow
                        /\ b # Root => pages[b].type # "inner"
  <2> TAKE b \in Blocks
  <2>1. CASE b \in D BY <2>1, <1>3, <1>6
  <2>2. CASE b \notin D /\ b = Root BY <2>2, <1>4, <1>6
  <2>3. CASE b \notin D /\ b # Root BY <2>3, <1>5, <1>6
  <2> QED BY <2>1, <2>2, <2>3
<1>8. pages[Root].lsn # 0
  <2>1. pages[Root].lsn = BuildLSN BY <1>3, <1>4, <1>6
  <2> QED BY <2>1 DEF BuildLSN
<1>9. \A k \in pages[Root].links : k.blk # Root
  <2>1. CASE Root \in D BY <2>1, <1>3, <1>6
  <2>2. CASE Root \notin D
    <3>1. pages[Root].links = links BY <2>2, <1>4, <1>6
    <3>2. \A c \in D : LinkTo(c, t.leaves[c]).blk = c BY DEF LinkTo
    <3> QED BY <2>2, <3>1, <3>2
  <2> QED BY <2>1, <2>2
<1>10. TwoLevels(pages) BY <1>2, <1>7, <1>8, <1>9 DEF TwoLevels
<1>11. ASSUME NEW e \in Entries, Wanted(e) PROVE Covered(pages, e)
  <2>1. RowOf[e] \in Rows /\ Dist[e] \in Nat BY EntriesAssumption
  <2>2. RowOf[e] \in t.rows BY <1>1, <1>11, <2>1 DEF Wanted
  <2>3. PICK b \in D : \E o \in DOMAIN t.leaves[b] : t.leaves[b][o] = e BY <1>2, <2>2 DEF D
  <2>4. b \in Blocks /\ t.leaves[b] \in Seq(Entries) BY <1>2 DEF D
  <2>5. HasEntry(pages, b, e) BY <2>3, <1>3, <1>6 DEF HasEntry
  <2>6. CASE Root \in D
    <3>1. b = Root BY <2>6, <1>2 DEF D
    <3> QED BY <2>4, <2>5, <3>1 DEF Covered
  <2>7. CASE Root \notin D
    <3> DEFINE k == LinkTo(b, t.leaves[b])
               S == Lows(t.leaves[b])
    <3>1. k \in pages[Root].links BY <2>7, <1>4, <1>6
    <3>2. Dist[e] \in S BY <2>3 DEF Lows
    <3>3. S \in SUBSET Nat BY <2>4, LowsFacts
    <3>4. k.blk = b /\ k.low = Least(S) BY DEF LinkTo
    <3> HIDE DEF k, S
    <3>5. Least(S) <= Dist[e] BY <3>2, <3>3, LeastIn
    <3>6. LeadsTo(pages, k, b) BY <3>4 DEF LeadsTo
    <3> QED BY <2>4, <2>5, <3>1, <3>4, <3>5, <3>6 DEF Covered
  <2> QED BY <2>6, <2>7
<1> QED BY <1>10, <1>11 DEF IndexInv, AllIndexed

LEMMA SearchInit == ASSUME Init PROVE SearchInv /\ NearInv
<1>1. /\ so = NoScan /\ snap = {} /\ out = <<>> /\ pc = "none" /\ mode = "plain" BY DEF Init
<1>2. so.queue = {} /\ so.heap = {} /\ so.first = TRUE BY <1>1 DEF NoScan
<1>3. FoundInv
  BY <1>1, <1>2
  DEF FoundInv, SnapLive, QueueBelow, AllFound, Handed, Tables, HeapOfRows, Finished
<1>4. NearInv BY <1>1 DEF NearInv, Near, NearestFirst
<1>5. AllFlagsDead BY KillInit DEF KillInv
<1> QED BY <1>3, <1>4, <1>5, ScanInit, IndexInit DEF SearchInv

\* Every step keeps the invariants; flags are right as long as a plain scan is not
\* restarted.
LEMMA SearchStep ==
  ASSUME MaxRescans["plain"] = 0, SearchInv, KillInv, [Next]_vars
  PROVE  SearchInv' /\ KillInv'
<1>1. ScanInv' /\ KillInv' BY ScanStep, KillStep DEF SearchInv
<1>2. IndexInv' /\ FoundInv'
  <2>1. CASE Others BY <2>1, OthersFind
  <2>2. CASE \E m \in Modes : BeginScan(m) BY <2>2, BeginScanFinds
  <2>3. CASE Rescan BY <2>3, RescanFinds
  <2>4. CASE FirstCall BY <2>4, FirstCallFinds
  <2>5. CASE ReturnRow BY <2>5, ReturnRowFinds
  <2>6. CASE PageDone BY <2>6, PageDoneFinds
  <2>7. CASE KillItems BY <2>7, KillItemsFinds
  <2>8. CASE NextPage BY <2>8, NextPageFinds
  <2>9. CASE PopRow BY <2>9, PopRowFinds
  <2>10. CASE PopPage BY <2>10, PopPageFinds
  <2>11. CASE Bitmap BY <2>11, BitmapFinds
  <2>12. CASE BitmapPage BY <2>12, BitmapPageFinds
  <2>13. CASE NoMorePages \/ NoMoreItems \/ BitmapDone BY <2>13, EndFinds DEF EndStep
  <2>14. CASE UNCHANGED vars
    <3>1. /\ pages' = pages /\ lsn' = lsn /\ tid' = tid /\ pend' = pend /\ pc' = pc
          /\ mode' = mode /\ so' = so /\ snap' = snap /\ out' = out
      BY <2>14 DEF vars, indexVars, scanVars
    <3>2. IndexInv' BY <3>1 DEF SearchInv, IndexInv, AllIndexed, Wanted
    <3>3. SnapLive' /\ QueueBelow(so.queue)' /\ AllFound'
      BY <3>1 DEF SearchInv, FoundInv, SnapLive, QueueBelow, AllFound, Searching, KeyTest,
                  FoundIn, AheadIn
    <3>4. Handed' /\ Tables' /\ Finished'
      BY <3>1 DEF SearchInv, FoundInv, Handed, Given, Tables, HeapOfRows, TableOK, Finished
    <3> QED BY <3>2, <3>3, <3>4 DEF FoundInv
  <2> QED
    BY <2>1, <2>2, <2>3, <2>4, <2>5, <2>6, <2>7, <2>8, <2>9, <2>10, <2>11, <2>12, <2>13, <2>14
    DEF Next, GetTuple
<1> QED BY <1>1, <1>2 DEF SearchInv, KillInv

LEMMA NearStep ==
  ASSUME QualsIn["ordered"] = {}, SearchInv, NearInv, [Next]_vars
  PROVE  NearInv'
<1>1. CASE Others BY <1>1, OthersFind
<1>2. CASE \E m \in Modes : BeginScan(m) BY <1>2, BeginScanFinds
<1>3. CASE Rescan BY <1>3, RescanFinds
<1>4. CASE FirstCall BY <1>4, FirstCallFinds
<1>5. CASE ReturnRow BY <1>5, ReturnRowFinds
<1>6. CASE PageDone BY <1>6, PageDoneFinds
<1>7. CASE KillItems BY <1>7, KillItemsFinds
<1>8. CASE NextPage BY <1>8, NextPageFinds
<1>9. CASE PopRow BY <1>9, PopRowNear
<1>10. CASE PopPage BY <1>10, PopPageFinds
<1>11. CASE Bitmap BY <1>11, BitmapFinds
<1>12. CASE BitmapPage BY <1>12, BitmapPageFinds
<1>13. CASE NoMorePages \/ NoMoreItems \/ BitmapDone BY <1>13, EndFinds DEF EndStep
<1>14. CASE UNCHANGED vars
  <2>1. mode' = mode /\ so' = so /\ snap' = snap /\ out' = out
    BY <1>14 DEF vars, indexVars, scanVars
  <2> QED BY <2>1 DEF NearInv, Near, NearestFirst
<1> QED
  BY <1>1, <1>2, <1>3, <1>4, <1>5, <1>6, <1>7, <1>8, <1>9, <1>10, <1>11, <1>12, <1>13, <1>14
  DEF Next, GetTuple

(***************************************************************************)
(* What the scan promises.                                                 *)
(***************************************************************************)
\* A scan has at most one scan key (mgistindex_keytest tests all keys on the same entry).
OneKey == \A m \in Modes : \A p, q \in QualsIn[m] : p = q

\* With one scan key, a row that satisfies the query has an entry that passes the test.
LEMMA KeyTestOfRow ==
  ASSUME OneKey, RestOK, NEW r \in snap, Satisfies(r)
  PROVE  \E e \in EntriesOf(r) : KeyTest(e)
<1>1. mode \in Modes /\ r \in Rows BY DEF RestOK
<1>2. CASE QualsIn[mode] = {} BY <1>1, <1>2, EntriesAssumption DEF KeyTest
<1>3. CASE QualsIn[mode] # {}
  <2>1. PICK q \in QualsIn[mode] : \A p \in QualsIn[mode] : p = q BY <1>1, <1>3 DEF OneKey
  <2>2. PICK e \in EntriesOf(r) : e \in Sat[q] BY <2>1 DEF Satisfies
  <2> QED BY <2>1, <2>2 DEF KeyTest
<1> QED BY <1>2, <1>3

LEMMA SearchInvMeans == ASSUME OneKey, SearchInv PROVE Complete
<1> SUFFICES ASSUME pc = "done", NEW r \in snap, Satisfies(r)
             PROVE  IF mode = "bitmap" THEN r \in so.tids ELSE \E i \in DOMAIN out : out[i].tid = r
  BY DEF Complete
<1>1. PICK e \in EntriesOf(r) : KeyTest(e) BY ReadFacts, KeyTestOfRow
<1>2. /\ so.queue = {} /\ so.heap = {} /\ (mode # "bitmap" => ~so.first)
      /\ mode = "plain" => so.cur = Len(so.data)
  BY DEF SearchInv, FoundInv, Finished
<1>3. Searching BY <1>2, ReadFacts DEF Searching, Modes
<1>4. r \in so.tids
  <2>1. FoundIn(so, r, e) BY <1>1, <1>3 DEF SearchInv, FoundInv, AllFound
  <2> QED BY <2>1, <1>2 DEF FoundIn, AheadIn
<1>5. CASE mode # "bitmap"
  <2>1. Given(r) BY <1>2, <1>4, <1>5 DEF SearchInv, FoundInv, Handed
  <2>2. so.cur \in Nat BY ReadFacts DEF ScanState
  <2>3. mode = "plain" => so.cur + 1..Len(so.data) = {} BY <1>2, <2>2
  <2> QED BY <2>1, <2>3, <1>5 DEF Given
<1> QED BY <1>4, <1>5

\* A scan that ended has returned every row of its snapshot that satisfies its scan key,
\* whatever the other backends split, prune, vacuumed and deleted meanwhile: every entry
\* is on a page the queue leads to over right links, until it is read (mgistScanPage,
\* mgistgettuple, mgistgetbitmap).  Of several scan keys this is not true, and of a
\* restarted plain scan it would rest on flags that may be wrong.
THEOREM EveryRowFound ==
  ASSUME MaxRescans["plain"] = 0, OneKey
  PROVE  Spec => []Complete
<1>1. Init => SearchInv /\ KillInv BY SearchInit, KillInit
<1>2. SearchInv /\ KillInv /\ [Next]_vars => SearchInv' /\ KillInv' BY SearchStep
<1>3. SearchInv => Complete BY SearchInvMeans
<1> QED BY <1>1, <1>2, <1>3, PTL DEF Spec

\* An ordered scan without scan keys returns every row of its snapshot at the distance of
\* its nearest entry and after all that are nearer (getNextMENearest), although the table
\* of queued rows may point to items that were freed.
THEOREM NearestRowsFirst ==
  ASSUME MaxRescans["plain"] = 0, QualsIn["ordered"] = {}
  PROVE  Spec => []NearestFirst
<1>1. Init => SearchInv /\ KillInv /\ NearInv BY SearchInit, KillInit
<1>2. SearchInv /\ KillInv /\ NearInv /\ [Next]_vars => SearchInv' /\ KillInv' /\ NearInv'
  BY SearchStep, NearStep
<1>3. NearInv => NearestFirst BY DEF NearInv
<1> QED BY <1>1, <1>2, <1>3, PTL DEF Spec
=============================================================================
