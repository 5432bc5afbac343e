-------------------------- MODULE MGistScanProofs --------------------------
(***************************************************************************)
(* Proofs about MGistScan.                                                 *)
(***************************************************************************)
EXTENDS MGistScan, NaturalLemmas, SequenceTheorems

(***************************************************************************)
(* Least elements and ascending enumerations.                              *)
(***************************************************************************)
\* Least is the least element.
LEMMA LeastIn ==
  ASSUME NEW S \in SUBSET Nat, S # {}
  PROVE  Least(S) \in S /\ Least(S) \in Nat /\ \A y \in S : Least(S) <= y
BY LeastExists DEF Least

\* The offsets of a page, or a part of them, in ascending order.
LEMMA AscendingFacts ==
  ASSUME NEW n \in Nat, NEW S, S \subseteq 1..n
  PROVE  LET e == Ascending(S)
             m == Len(e)
         IN /\ m \in Nat /\ e \in Seq(S) /\ DOMAIN e = 1..m
            /\ \A i \in 1..m : e[i] \in S /\ e[i] \in 1..n
            /\ \A i, j \in 1..m : i < j => e[i] < e[j]
            /\ \A i, j \in 1..m : e[i] = e[j] => i = j
            /\ \A a \in S : \E i \in 1..m : e[i] = a
            /\ S # {} => m >= 1
<1>1. S \subseteq Nat OBVIOUS
<1>2. IsFiniteSet(S)
  <2>1. \A s \in S : s <= n OBVIOUS
  <2> QED BY <1>1, <2>1, FS_BoundedSetOfNaturals
<1>3. Ascending(S) = Enumeration(S) BY DEF Ascending, Enumeration
<1> DEFINE e == Enumeration(S)
           m == Cardinality(S)
<1>4. /\ m \in Nat /\ e \in Seq(S) /\ Len(e) = m /\ DOMAIN e = 1..m
      /\ \A i \in 1..m : e[i] \in S
      /\ \A i, j \in 1..m : i < j => e[i] < e[j]
      /\ \A i, j \in 1..m : e[i] = e[j] => i = j
      /\ \A a \in S : \E i \in 1..m : e[i] = a
  BY <1>1, <1>2, EnumerationFacts
<1> HIDE DEF e, m
<1>5. \A i \in 1..m : e[i] \in 1..n BY <1>4
<1>6. S # {} => m >= 1
  <2> SUFFICES ASSUME NEW a \in S PROVE m >= 1 OBVIOUS
  <2>1. PICK i \in 1..m : e[i] = a BY <1>4
  <2> QED BY <2>1, <1>4
<1> QED BY <1>3, <1>4, <1>5, <1>6 DEF e

\* What is left of the tuples of a page, in order.
LEMMA WithoutFacts ==
  ASSUME NEW items \in Seq(Entries), NEW offs
  PROVE  LET w == Without(items, offs)
             k == Kept(items, offs)
         IN /\ w \in Seq(Entries) /\ Len(w) = Len(k) /\ DOMAIN w = DOMAIN k
            /\ \A i \in DOMAIN w : /\ k[i] \in DOMAIN items /\ k[i] \notin offs
                                   /\ w[i] = items[k[i]]
            /\ DOMAIN items \ offs # {} => w # <<>>
<1> DEFINE k == Kept(items, offs)
           w == Without(items, offs)
           n == Len(items)
           m == Len(k)
<1>1. n \in Nat /\ DOMAIN items = 1..n /\ \A o \in 1..n : items[o] \in Entries OBVIOUS
<1>2. /\ m \in Nat /\ DOMAIN k = 1..m
      /\ \A i \in 1..m : k[i] \in (1..n) \ offs
      /\ (1..n) \ offs # {} => m >= 1
  BY <1>1, AscendingFacts DEF Kept
<1>3. w = [i \in 1..m |-> items[k[i]]] BY <1>2 DEF Without
<1> HIDE DEF k, w, n, m
<1>4. w \in Seq(Entries) /\ DOMAIN w = 1..m /\ Len(w) = m
  <2>1. w \in [1..m -> Entries] BY <1>1, <1>2, <1>3
  <2> QED BY <2>1, <1>2
<1>5. \A i \in 1..m : w[i] = items[k[i]] BY <1>3
<1>6. (1..n) \ offs # {} => w # <<>> BY <1>2, <1>4
<1>7. /\ w \in Seq(Entries) /\ Len(w) = Len(k) /\ DOMAIN w = DOMAIN k
      /\ \A i \in DOMAIN w : /\ k[i] \in DOMAIN items /\ k[i] \notin offs
                             /\ w[i] = items[k[i]]
      /\ DOMAIN items \ offs # {} => w # <<>>
  BY <1>1, <1>2, <1>4, <1>5, <1>6 DEF m
<1> QED BY <1>7 DEF w, k

\* There is a number larger than all distances, if there are entries.
LEMMA NoDistFacts ==
  ASSUME Entries # {}
  PROVE  NoDist \in Nat /\ \A e \in Entries : Dist[e] < NoDist
<1> DEFINE D == {Dist[e] : e \in Entries}
           f == [e \in Entries |-> Dist[e]]
<1>1. Dist \in [Entries -> Nat] /\ IsFiniteSet(Entries) BY EntriesAssumption
<1>2. D \in SUBSET Nat /\ D # {} BY <1>1
<1>3. IsFiniteSet(D)
  <2>1. f \in Surjection(Entries, D) BY DEF Surjection
  <2> HIDE DEF D, f
  <2> QED BY <2>1, <1>1, FS_Surjection
<1>4. PICK x \in D : \A y \in D : x >= y
  <2> HIDE DEF D
  <2> QED BY <1>2, <1>3, FiniteGreatest
<1>5. PICK e \in Entries : x = Dist[e] OBVIOUS
<1>6. \A g \in Entries : Dist[g] \in D /\ Dist[g] \in Nat BY <1>1
<1>7. \A g \in Entries : Dist[g] < Dist[e] + 1
  <2> TAKE g \in Entries
  <2>1. Dist[e] >= Dist[g] /\ Dist[e] \in Nat /\ Dist[g] \in Nat
    <3> HIDE DEF D
    <3> QED BY <1>4, <1>5, <1>6
  <2> QED BY <2>1
<1>8. Dist[e] + 1 \in {Dist[g] + 1 : g \in Entries} OBVIOUS
<1>9. /\ NoDist \in {Dist[g] + 1 : g \in Entries} /\ \A g \in Entries : Dist[g] < NoDist
  BY <1>7, <1>8 DEF NoDist
<1> QED BY <1>6, <1>9

\* A row has entries: where there are rows there is NoDist.
LEMMA NoBestYet == [r \in Rows |-> NoDist] \in [Rows -> Nat]
<1>1. ASSUME NEW r \in Rows PROVE NoDist \in Nat
  <2>1. Entries # {} BY EntriesAssumption DEF EntriesOf
  <2> QED BY <2>1, NoDistFacts
<1> QED BY <1>1

(***************************************************************************)
(* What reading a page makes of the private state of the scan.             *)
(***************************************************************************)
Hit == [tid : Rows, off : Nat]
ScanState ==
  [queue : SUBSET QueueItem, heap : SUBSET Returned, first : BOOLEAN, tids : SUBSET Rows,
   best : [Rows -> Nat], freed : SUBSET Rows, data : Seq(Hit), cur : Nat,
   killed : SUBSET Nat, blk : Blocks \cup {NoBlock}, lsn : Nat]

\* The matching offsets of a page are offsets of entries.
LEMMA HitFacts ==
  ASSUME NEW pg \in Page
  PROVE  /\ HitSet(pg) \subseteq 1..Len(pg.items) /\ Len(pg.items) \in Nat
         /\ \A o \in HitSet(pg) : o \in DOMAIN pg.items /\ pg.items[o] \in Entries
                                  /\ RowOf[pg.items[o]] \in Rows /\ Dist[pg.items[o]] \in Nat
<1>1. pg.items \in Seq(Entries) BY DEF Page
<1> QED BY <1>1, EntriesAssumption DEF HitSet

\* A plain scan takes from a page rows it has not seen, each once and at an offset
\* where an entry of it is.
LEMMA NewRowsFacts ==
  ASSUME NEW pg \in Page, NEW s
  PROVE  LET d == NewRows(pg, s) IN
         /\ d \in Seq(Hit)
         /\ \A k \in 1..Len(d) : /\ d[k].off \in DOMAIN pg.items
                                 /\ d[k].tid = RowOf[pg.items[d[k].off]]
                                 /\ d[k].tid \in Rows /\ d[k].tid \notin s.tids
         /\ \A j, k \in 1..Len(d) : d[j].tid = d[k].tid => j = k
<1> DEFINE hits == Hits(pg)
           n == Len(hits)
           RowAt(j) == RowOf[pg.items[hits[j]]]
           S == {j \in 1..n : RowAt(j) \notin s.tids /\ \A i \in 1..(j - 1) : RowAt(i) # RowAt(j)}
           firsts == Ascending(S)
           m == Len(firsts)
           d == NewRows(pg, s)
<1>1. /\ n \in Nat /\ DOMAIN hits = 1..n
      /\ \A j \in 1..n : hits[j] \in HitSet(pg) /\ hits[j] \in 1..Len(pg.items)
  BY HitFacts, AscendingFacts DEF Hits
<1>2. \A j \in 1..n : /\ hits[j] \in DOMAIN pg.items /\ hits[j] \in Nat
                      /\ RowAt(j) \in Rows
  BY <1>1, HitFacts
<1> HIDE DEF hits, n
<1>3. S \subseteq 1..n OBVIOUS
<1>4. \A i, j \in S : RowAt(i) = RowAt(j) => i = j
  <2> TAKE i, j \in S
  <2>1. i \in 1..n /\ j \in 1..n OBVIOUS
  <2>2. i < j => i \in 1..(j - 1) BY <2>1, <1>1
  <2>3. j < i => j \in 1..(i - 1) BY <2>1, <1>1
  <2>4. (i < j \/ j < i) => RowAt(i) # RowAt(j) BY <2>2, <2>3
  <2>5. i < j \/ j < i \/ i = j BY <2>1, <1>1
  <2> QED BY <2>4, <2>5
<1>5. \A j \in S : RowAt(j) \notin s.tids OBVIOUS
<1>6. d = [k \in DOMAIN firsts |-> [tid |-> RowAt(firsts[k]), off |-> hits[firsts[k]]]]
  BY <1>1 DEF NewRows, hits
<1> HIDE DEF S, d
<1>7. /\ m \in Nat /\ DOMAIN firsts = 1..m
      /\ \A k \in 1..m : firsts[k] \in S /\ firsts[k] \in 1..n
      /\ \A i, j \in 1..m : firsts[i] = firsts[j] => i = j
  BY <1>1, <1>3, AscendingFacts
<1> HIDE DEF firsts, m
<1>8. /\ DOMAIN d = 1..m
      /\ \A k \in 1..m : d[k] = [tid |-> RowAt(firsts[k]), off |-> hits[firsts[k]]]
  BY <1>6, <1>7
<1>9. ASSUME NEW k \in 1..m
      PROVE  /\ d[k] \in Hit /\ d[k].tid = RowAt(firsts[k]) /\ d[k].off = hits[firsts[k]]
             /\ firsts[k] \in S /\ firsts[k] \in 1..n
  BY <1>2, <1>7, <1>8 DEF Hit
<1>10. d \in Seq(Hit) /\ Len(d) = m
  <2>1. d \in [1..m -> Hit] BY <1>6, <1>7, <1>8, <1>9
  <2> QED BY <2>1, <1>7
<1>11. \A k \in 1..m : /\ d[k].off \in DOMAIN pg.items
                       /\ d[k].tid = RowOf[pg.items[d[k].off]]
                       /\ d[k].tid \in Rows /\ d[k].tid \notin s.tids
  BY <1>2, <1>5, <1>9
<1>12. \A j, k \in 1..m : d[j].tid = d[k].tid => j = k BY <1>4, <1>7, <1>9
<1> QED BY <1>10, <1>11, <1>12 DEF d

\* The distances of the entries of a row on a page are numbers.
LEMMA NearerFacts ==
  ASSUME NEW pg \in Page, NEW r, NEW from, NEW s
  PROVE  Nearer(pg, r, from, s) \in SUBSET Nat
<1> DEFINE S == {o \in HitSet(pg) : RowOf[pg.items[o]] = r}
           hits == Ascending(S)
           ds == DistsOn(pg, r)
<1>1. \A j \in DOMAIN hits : hits[j] \in HitSet(pg)
  <2>1. S \subseteq 1..Len(pg.items) /\ Len(pg.items) \in Nat BY HitFacts
  <2>2. \A j \in DOMAIN hits : hits[j] \in S
    <3> HIDE DEF S
    <3> QED BY <2>1, AscendingFacts
  <2> QED BY <2>2
<1>2. ds = [j \in DOMAIN hits |-> Dist[pg.items[hits[j]]]] BY DEF DistsOn
<1> HIDE DEF hits, ds
<1>3. \A j \in DOMAIN ds : ds[j] \in Nat BY <1>1, <1>2, HitFacts
<1> QED BY <1>3 DEF Nearer, ds

\* Queueing rows changes the heap and the tables only, and keeps their types.
LEMMA QueuedFacts ==
  ASSUME NEW pg \in Page, NEW s \in ScanState, NEW from
  PROVE  LET q == Queued(pg, from, s) IN
         q.heap \in SUBSET Returned /\ q.best \in [Rows -> Nat] /\ q.freed \in SUBSET Rows
<1> DEFINE near == [r \in RowsOn(pg) |-> Nearer(pg, r, from[r], s)]
           again == {r \in RowsOn(pg) : near[r] # {}}
           more == UNION {{[tid |-> r, dist |-> d] : d \in near[r]} : r \in again}
           best == [r \in Rows |-> IF r \in again THEN Least(near[r]) ELSE s.best[r]]
           q == Queued(pg, from, s)
<1>1. RowsOn(pg) \subseteq Rows BY HitFacts DEF RowsOn
<1>2. \A r \in RowsOn(pg) : near[r] \in SUBSET Nat BY NearerFacts
<1>3. s.heap \in SUBSET Returned /\ s.best \in [Rows -> Nat] /\ s.freed \in SUBSET Rows
  BY DEF ScanState
<1>4. /\ q.heap = s.heap \cup more /\ q.best = best /\ q.freed = s.freed \ again
  BY DEF Queued, ScanState
<1>5. more \in SUBSET Returned BY <1>1, <1>2 DEF Returned
<1>6. best \in [Rows -> Nat]
  <2>1. ASSUME NEW r \in Rows
        PROVE  (IF r \in again THEN Least(near[r]) ELSE s.best[r]) \in Nat
    <3>1. CASE r \in again
      <4>1. near[r] \in SUBSET Nat /\ near[r] # {} BY <3>1, <1>2
      <4> HIDE DEF near
      <4> QED BY <3>1, <4>1, LeastIn
    <3>2. CASE r \notin again BY <3>2, <1>3
    <3> QED BY <3>1, <3>2
  <2> QED BY <2>1
<1> HIDE DEF more, best, again, q
<1> QED BY <1>3, <1>4, <1>5, <1>6 DEF q

\* The index, whatever the scan does: the root is in use and never half split; LSNs
\* are not ahead of the WAL; links and right links lead to pages in use, and every
\* half split page has a link and a sibling; only a leaf in use has entries flagged.
PageOK(pgs, l, b) ==
  LET pg == pgs[b] IN
  /\ pg.lsn <= l
  /\ pg.type = "new" => ~pg.follow
  /\ pg.type = "leaf" => pg.links = {}
  /\ pg.type = "deleted" => pg.items = <<>>
  /\ pg.right # NoBlock => pgs[pg.right].type # "new"
  /\ \A k \in pg.links : pgs[k.blk].type # "new"
  /\ pg.dead \subseteq DOMAIN pg.items
  /\ pg.follow => pg.right # NoBlock /\ \E k \in pgs[Root].links : k.blk = b
GoodIndex(pgs, l) ==
  /\ pgs \in [Blocks -> Page] /\ l \in Nat
  /\ pgs[Root].type \in {"leaf", "inner"} /\ ~pgs[Root].follow
  /\ pgs[Root].type = "leaf" => \A b \in Blocks \ {Root} : pgs[b].type = "new"
  /\ \A b \in Blocks : PageOK(pgs, l, b)

\* The items of a queue lead to pages in use.
Reachable(queue, pgs) == \A i \in queue : pgs[i.blk].type # "new"

\* Reading page i in state s gives state t: the queue grows by pages in use, the page
\* data is that of the page or, for a deleted page, what it was before.
ReadOK(i, s, t) ==
  LET pg == pages[i.blk] IN
  /\ t \in ScanState /\ Reachable(t.queue, pages)
  /\ t.first = s.first /\ t.killed = s.killed /\ t.blk = s.blk
  /\ s.tids \subseteq t.tids
  /\ pg.type = "deleted" =>
       t.data = s.data /\ t.cur = s.cur /\ t.tids = s.tids /\ t.lsn = s.lsn
  /\ pg.type # "deleted" =>
       /\ t.cur = 0 /\ t.lsn = pg.lsn
       /\ \A k \in 1..Len(t.data) :
            /\ t.data[k].off \in DOMAIN pg.items
            /\ t.data[k].tid = RowOf[pg.items[t.data[k].off]]
            /\ t.data[k].tid \notin s.tids /\ t.data[k].tid \in t.tids
       /\ \A j, k \in 1..Len(t.data) : t.data[j].tid = t.data[k].tid => j = k
  /\ pg.type = "leaf" => t.queue = (s.queue \ {i}) \cup RightOf(i)
  /\ pg.type = "inner" => t.data = <<>>

LEMMA ScannedFacts ==
  ASSUME GoodIndex(pages, lsn), mode \in Modes, NEW s \in ScanState, Reachable(s.queue, pages),
         NEW i \in QueueItem, pages[i.blk].type # "new", NEW t \in Scanned(i, s)
  PROVE  ReadOK(i, s, t)
<1> DEFINE pg == pages[i.blk]
           q == (s.queue \ {i}) \cup RightOf(i)
           a == [s EXCEPT !.queue = q]
           u == [a EXCEPT !.data = <<>>, !.cur = 0, !.lsn = pg.lsn]
           below == {[blk |-> l.blk, plsn |-> pg.lsn, dist |-> l.low] : l \in pg.links}
           seen == {NewRows(pg, s)[k].tid : k \in DOMAIN NewRows(pg, s)}
           b == [u EXCEPT !.queue = @ \cup below]
           c == [u EXCEPT !.data = NewRows(pg, s), !.tids = @ \cup seen]
           d == [u EXCEPT !.tids = @ \cup RowsOn(pg)]
           e(f) == [u EXCEPT !.heap = Queued(pg, f, s).heap, !.best = Queued(pg, f, s).best,
                             !.freed = Queued(pg, f, s).freed]
<1>1. /\ i.blk \in Blocks /\ pg \in Page /\ pg.lsn \in Nat /\ pg.links \subseteq Link
      /\ pg.right \in Blocks \cup {NoBlock} /\ pg.type \in {"leaf", "inner", "deleted"}
      /\ pg.right # NoBlock => pages[pg.right].type # "new"
      /\ \A k \in pg.links : pages[k.blk].type # "new"
  BY DEF GoodIndex, PageOK, Page, QueueItem
<1>2. q \in SUBSET QueueItem /\ Reachable(q, pages)
  <2>1. \A j \in RightOf(i) : j = [i EXCEPT !.blk = pg.right] /\ pg.right # NoBlock
    BY DEF RightOf
  <2>2. \A j \in RightOf(i) : j \in QueueItem /\ j.blk = pg.right /\ pg.right # NoBlock
    BY <2>1, <1>1 DEF QueueItem
  <2>3. s.queue \in SUBSET QueueItem BY DEF ScanState
  <2> QED BY <1>1, <2>2, <2>3 DEF Reachable
<1> HIDE DEF q
<1>3. /\ a \in ScanState /\ a.queue = q /\ a.first = s.first /\ a.killed = s.killed
      /\ a.blk = s.blk /\ a.data = s.data /\ a.cur = s.cur /\ a.tids = s.tids
      /\ a.lsn = s.lsn
  BY <1>2 DEF ScanState
<1> HIDE DEF a
<1>4. /\ u \in ScanState /\ u.queue = q /\ u.first = s.first /\ u.killed = s.killed
      /\ u.blk = s.blk /\ u.data = <<>> /\ u.cur = 0 /\ u.tids = s.tids
      /\ u.lsn = pg.lsn
  <2>1. <<>> \in Seq(Hit) OBVIOUS
  <2> QED BY <1>1, <1>3, <2>1 DEF ScanState
<1> HIDE DEF u, pg
<1>5. Scanned(i, s) = CASE pg.type = "deleted" -> {a}
                        [] pg.type = "inner" -> {b}
                        [] pg.type = "leaf" /\ mode = "plain" -> {c}
                        [] pg.type = "leaf" /\ mode = "bitmap" -> {d}
                        [] pg.type = "leaf" /\ mode = "ordered" -> {e(f) : f \in Froms(pg, s)}
  BY DEF Scanned, pg, a, u, q
<1> HIDE DEF b, c, d, e
<1>6. CASE pg.type = "deleted"
  <2>1. t = a BY <1>5, <1>6
  <2> QED BY <2>1, <1>2, <1>3, <1>6 DEF ReadOK, pg
<1>7. CASE pg.type = "inner"
  <2>1. t = b BY <1>5, <1>7
  <2>2. below \in SUBSET QueueItem /\ Reachable(below, pages)
    BY <1>1 DEF Link, QueueItem, Reachable
  <2> HIDE DEF below
  <2>3. /\ b \in ScanState /\ b.queue = q \cup below /\ b.first = s.first
        /\ b.killed = s.killed /\ b.blk = s.blk /\ b.data = <<>> /\ b.cur = 0
        /\ b.tids = s.tids /\ b.lsn = pg.lsn
    BY <1>2, <1>4, <2>2 DEF b, ScanState
  <2>4. Reachable(b.queue, pages) BY <1>2, <2>2, <2>3 DEF Reachable
  <2> QED BY <2>1, <2>3, <2>4, <1>7 DEF ReadOK, pg
<1>8. CASE pg.type = "leaf"
  <2>1. CASE mode = "plain"
    <3> DEFINE rows == NewRows(pg, s)
    <3>1. t = c BY <1>5, <1>8, <2>1
    <3>2. /\ rows \in Seq(Hit)
          /\ \A k \in 1..Len(rows) : /\ rows[k].off \in DOMAIN pg.items
                                     /\ rows[k].tid = RowOf[pg.items[rows[k].off]]
                                     /\ rows[k].tid \in Rows /\ rows[k].tid \notin s.tids
          /\ \A j, k \in 1..Len(rows) : rows[j].tid = rows[k].tid => j = k
      BY <1>1, NewRowsFacts
    <3>3. seen = {rows[k].tid : k \in 1..Len(rows)} BY <3>2
    <3> HIDE DEF rows
    <3>6. \A k \in 1..Len(rows) : rows[k].tid \in Rows BY <3>2
    <3>7. seen \in SUBSET Rows BY <3>3, <3>6
    <3>4. seen \in SUBSET Rows /\ \A k \in 1..Len(rows) : rows[k].tid \in seen BY <3>3, <3>7
    <3> HIDE DEF seen
    <3>5. /\ c \in ScanState /\ c.queue = q /\ c.first = s.first
          /\ c.killed = s.killed /\ c.blk = s.blk /\ c.data = rows /\ c.cur = 0
          /\ c.tids = s.tids \cup seen /\ c.lsn = pg.lsn
      BY <1>2, <1>4, <3>2, <3>4 DEF c, ScanState, rows
    <3> QED BY <3>1, <3>2, <3>4, <3>5, <1>2, <1>8 DEF ReadOK, pg, q
  <2>2. CASE mode = "bitmap"
    <3>1. t = d BY <1>5, <1>8, <2>2
    <3>2. RowsOn(pg) \in SUBSET Rows BY <1>1, HitFacts DEF RowsOn
    <3>3. /\ d \in ScanState /\ d.queue = q /\ d.first = s.first
          /\ d.killed = s.killed /\ d.blk = s.blk /\ d.data = <<>> /\ d.cur = 0
          /\ s.tids \subseteq d.tids /\ d.lsn = pg.lsn
      BY <1>2, <1>4, <3>2 DEF d, ScanState
    <3> QED BY <3>1, <3>3, <1>2, <1>8 DEF ReadOK, pg, q
  <2>3. CASE mode = "ordered"
    <3>1. PICK f \in Froms(pg, s) : t = e(f) BY <1>5, <1>8, <2>3
    <3> DEFINE qd == Queued(pg, f, s)
    <3>2. /\ qd.heap \in SUBSET Returned /\ qd.best \in [Rows -> Nat]
          /\ qd.freed \in SUBSET Rows
      BY <1>1, QueuedFacts
    <3> HIDE DEF qd
    <3>3. t = [u EXCEPT !.heap = qd.heap, !.best = qd.best, !.freed = qd.freed]
      BY <3>1 DEF e, qd
    <3>4. /\ t \in ScanState /\ t.queue = q /\ t.first = s.first
          /\ t.killed = s.killed /\ t.blk = s.blk /\ t.data = <<>> /\ t.cur = 0
          /\ t.tids = s.tids /\ t.lsn = pg.lsn
      BY <1>2, <1>4, <3>2, <3>3 DEF ScanState
    <3> QED BY <3>4, <1>2, <1>8 DEF ReadOK, pg, q
  <2> QED BY <2>1, <2>2, <2>3 DEF Modes
<1> QED BY <1>1, <1>6, <1>7, <1>8

(***************************************************************************)
(* What the other backends do to the index.                                *)
(***************************************************************************)
\* What is asked of one changed page, and what a write must be in sum.
LocalOK(new, l, b) ==
  LET pg == new[b] IN
  /\ pg.lsn <= l
  /\ pg.type = "new" => ~pg.follow
  /\ pg.type = "leaf" => pg.links = {}
  /\ pg.type = "deleted" => pg.items = <<>>
  /\ pg.right # NoBlock => new[pg.right].type # "new"
  /\ \A k \in pg.links : new[k.blk].type # "new"
  /\ pg.dead \subseteq DOMAIN pg.items

LEMMA IndexStep ==
  ASSUME GoodIndex(pages, lsn), NEW new \in [Blocks -> Page], NEW l \in Nat, l >= lsn,
         new[Root].type \in {"leaf", "inner"}, ~new[Root].follow,
         new[Root].type = "leaf" => \A b \in Blocks \ {Root} : new[b].type = "new",
         \A b \in Blocks : pages[b].type # "new" => new[b].type # "new",
         \A b \in Blocks : new[b] = pages[b] \/ LocalOK(new, l, b),
         \A b \in Blocks : new[b].follow => /\ new[b].right # NoBlock
                                            /\ \E k \in new[Root].links : k.blk = b
  PROVE  GoodIndex(new, l)
<1>1. ASSUME NEW b \in Blocks PROVE PageOK(new, l, b)
  <2>1. CASE LocalOK(new, l, b) BY <2>1 DEF LocalOK, PageOK
  <2>2. CASE new[b] = pages[b]
    <3> DEFINE pg == pages[b]
    <3>1. /\ pg.lsn <= lsn /\ pg.lsn \in Nat /\ lsn \in Nat
          /\ pg.type = "new" => ~pg.follow
          /\ pg.type = "leaf" => pg.links = {}
          /\ pg.type = "deleted" => pg.items = <<>>
          /\ pg.right # NoBlock => pages[pg.right].type # "new"
          /\ \A k \in pg.links : pages[k.blk].type # "new"
          /\ pg.dead \subseteq DOMAIN pg.items
          /\ pg.right \in Blocks \cup {NoBlock} /\ pg.links \subseteq Link
      BY DEF GoodIndex, PageOK, Page
    <3>2. \A k \in pg.links : k.blk \in Blocks BY <3>1 DEF Link
    <3>3. /\ pg.right # NoBlock => new[pg.right].type # "new"
          /\ \A k \in pg.links : new[k.blk].type # "new"
      BY <3>1, <3>2
    <3>4. pg.lsn <= l BY <3>1
    <3> QED BY <2>2, <3>1, <3>3, <3>4 DEF PageOK
  <2> QED BY <2>1, <2>2
<1> QED BY <1>1 DEF GoodIndex

\* All flagged entries of page b are of dead rows.
FlagsDead(pgs, b) == \A o \in pgs[b].dead : tid[RowOf[pgs[b].items[o]]] = "dead"

\* A WAL record of another backend: the index stays good; a page that changes gets an
\* LSN the scan has not seen, and no flag of it changes its meaning.
RecordOK ==
  /\ GoodIndex(pages', lsn') /\ lsn' >= lsn
  /\ tid' = tid /\ pend' \subseteq pend /\ writes' \in Nat /\ UNCHANGED scanVars
  /\ \A b \in Blocks : pages[b].type # "new" => pages'[b].type # "new"
  /\ \A b \in Blocks : \/ pages'[b] = pages[b]
                       \/ /\ pages'[b].lsn > lsn
                          /\ FlagsDead(pages, b) => FlagsDead(pages', b)

\* What a page of a good index is made of.
LEMMA PageFacts ==
  ASSUME GoodIndex(pages, lsn), NEW b \in Blocks
  PROVE  /\ pages[b] \in Page /\ pages[b].items \in Seq(Entries)
         /\ pages[b].links \subseteq Link /\ pages[b].right \in Blocks \cup {NoBlock}
         /\ pages[b].nsn \in Nat /\ pages[b].lsn \in Nat /\ pages[b].lsn <= lsn
         /\ pages[b].follow \in BOOLEAN /\ pages[b].dead \subseteq DOMAIN pages[b].items
         /\ pages[b].type \in {"new", "leaf", "inner", "deleted"}
         /\ lsn \in Nat /\ Root \in Blocks /\ NoBlock \notin Blocks
         /\ LocalOK(pages, lsn, b)
         /\ pages[b].follow => /\ pages[b].right # NoBlock /\ b # Root
                               /\ pages[Root].type = "inner"
                               /\ \E k \in pages[Root].links : k.blk = b
BY BlocksAssumption DEF GoodIndex, PageOK, LocalOK, Page

\* Writing a record moves the end of WAL.
LEMMA WriteFacts ==
  ASSUME NEW n \in {1, 2}, Write(n), lsn \in Nat, writes \in Nat
  PROVE  lsn' = lsn + n /\ lsn' \in Nat /\ lsn' > lsn /\ lsn' >= lsn /\ writes' \in Nat
BY DEF Write

\* The set of entries of a page is a set of numbers.
LEMMA LowsFacts ==
  ASSUME NEW items \in Seq(Entries)
  PROVE  Lows(items) \in SUBSET Nat /\ (items # <<>> => Lows(items) # {})
<1>1. \A o \in DOMAIN items : items[o] \in Entries /\ Dist[items[o]] \in Nat
  BY EntriesAssumption
<1>2. items # <<>> => 1 \in DOMAIN items OBVIOUS
<1> QED BY <1>1, <1>2 DEF Lows

\* A link to a page with entries.
LEMMA LinkToFacts ==
  ASSUME NEW items \in Seq(Entries), items # <<>>, NEW b \in Blocks
  PROVE  LinkTo(b, items) \in Link /\ LinkTo(b, items).blk = b
BY LowsFacts, LeastIn DEF LinkTo, Link

\* A write that leaves the index good is a record.
LEMMA RecordStep ==
  ASSUME GoodIndex(pages, lsn), NEW new \in [Blocks -> Page], NEW l \in Nat, l > lsn,
         pages' = new, lsn' = l, tid' = tid, pend' \subseteq pend, writes' \in Nat,
         UNCHANGED scanVars,
         new[Root].type \in {"leaf", "inner"}, ~new[Root].follow,
         new[Root].type = "leaf" => \A b \in Blocks \ {Root} : new[b].type = "new",
         \A b \in Blocks : pages[b].type # "new" => new[b].type # "new",
         \A b \in Blocks : \/ new[b] = pages[b]
                          \/ /\ LocalOK(new, l, b) /\ new[b].lsn > lsn
                             /\ FlagsDead(pages, b) => FlagsDead(new, b),
         \A b \in Blocks : new[b].follow => /\ new[b].right # NoBlock
                                            /\ \E k \in new[Root].links : k.blk = b
  PROVE  RecordOK
<1>1. lsn \in Nat BY DEF GoodIndex
<1>2. l >= lsn BY <1>1
<1>3. GoodIndex(new, l) BY <1>2, IndexStep
<1> QED BY <1>2, <1>3 DEF RecordOK

\* The widening of a link changes neither where it leads nor anything else.
LEMMA AdjustLinkOK ==
  ASSUME GoodIndex(pages, lsn), writes \in Nat, NEW e \in Entries,
         NEW k \in pages[Root].links, AdjustLink(e, k)
  PROVE  RecordOK
<1> DEFINE m == [k EXCEPT !.low = Dist[e]]
           links == (pages[Root].links \ {k}) \cup {m}
           l == lsn + 1
           new == [pages EXCEPT ![Root].links = links, ![Root].lsn = l]
<1>0. /\ pages \in [Blocks -> Page] /\ pages[Root].type \in {"leaf", "inner"}
      /\ pages[Root].type = "leaf" => \A b \in Blocks \ {Root} : pages[b].type = "new"
  BY DEF GoodIndex
<1>1. lsn' = l /\ l \in Nat /\ l > lsn /\ writes' \in Nat
  BY PageFacts, WriteFacts, BlocksAssumption DEF AdjustLink
<1>2. /\ pages[Root] \in Page /\ pages[Root].links \subseteq Link /\ Root \in Blocks
      /\ LocalOK(pages, lsn, Root) /\ ~pages[Root].follow
  BY PageFacts, BlocksAssumption DEF GoodIndex
<1>3. m \in Link /\ m.blk = k.blk BY <1>2, EntriesAssumption DEF Link
<1>4. links \in SUBSET Link BY <1>2, <1>3
<1>5. /\ \A j \in links : pages[j.blk].type # "new"
      /\ \A j \in pages[Root].links : \E i \in links : i.blk = j.blk
  BY <1>2, <1>3 DEF LocalOK
<1>6. pages' = new BY DEF AdjustLink
<1>14. tid' = tid /\ pend' \subseteq pend /\ UNCHANGED scanVars BY DEF AdjustLink
<1> HIDE DEF links, m, l
<1>7. /\ new \in [Blocks -> Page] /\ \A b \in Blocks \ {Root} : new[b] = pages[b]
      /\ new[Root] = [pages[Root] EXCEPT !.links = links, !.lsn = l]
  BY <1>0, <1>1, <1>2, <1>4 DEF Page
<1> HIDE DEF new
<1>8. /\ new[Root].type = pages[Root].type /\ new[Root].items = pages[Root].items
      /\ new[Root].links = links /\ new[Root].right = pages[Root].right
      /\ new[Root].lsn = l /\ new[Root].follow = pages[Root].follow
      /\ new[Root].dead = pages[Root].dead
  BY <1>1, <1>2, <1>7 DEF Page
<1>9. \A b \in Blocks : new[b].type = pages[b].type BY <1>7, <1>8
<1>10. LocalOK(new, l, Root)
  <2>1. pages[Root].type # "leaf" BY <1>2 DEF LocalOK
  <2>2. \A j \in links : new[j.blk].type # "new"
    BY <1>4, <1>5, <1>9 DEF Link
  <2>3. pages[Root].right # NoBlock => new[pages[Root].right].type # "new"
    <3>1. pages[Root].right \in Blocks \cup {NoBlock} BY <1>2 DEF Page
    <3> QED BY <3>1, <1>2, <1>9 DEF LocalOK
  <2> QED BY <2>1, <2>2, <2>3, <1>1, <1>2, <1>8 DEF LocalOK
<1>11. ASSUME NEW b \in Blocks, new[b].follow
       PROVE  new[b].right # NoBlock /\ \E j \in new[Root].links : j.blk = b
  <2>1. b # Root BY <1>2, <1>8, <1>11
  <2>2. new[b] = pages[b] BY <2>1, <1>7
  <2>3. pages[b].right # NoBlock /\ \E j \in pages[Root].links : j.blk = b
    BY <2>2, <1>11, PageFacts
  <2> QED BY <2>2, <2>3, <1>5, <1>8
<1>13. FlagsDead(pages, Root) => FlagsDead(new, Root) BY <1>8 DEF FlagsDead
<1>15. /\ new[Root].type \in {"leaf", "inner"} /\ ~new[Root].follow
       /\ new[Root].type = "leaf" => \A b \in Blocks \ {Root} : new[b].type = "new"
       /\ \A b \in Blocks : pages[b].type # "new" => new[b].type # "new"
  BY <1>0, <1>2, <1>8, <1>9
<1>16. \A b \in Blocks : \/ new[b] = pages[b]
                         \/ /\ LocalOK(new, l, b) /\ new[b].lsn > lsn
                            /\ FlagsDead(pages, b) => FlagsDead(new, b)
  BY <1>1, <1>7, <1>8, <1>10, <1>13
<1> QED BY <1>1, <1>6, <1>7, <1>11, <1>14, <1>15, <1>16, RecordStep

\* A leaf is rewritten in place: no flagged entry of the new tuples is of a live row,
\* unless one of the old ones was.
LEMMA LeafRewritten ==
  ASSUME GoodIndex(pages, lsn), NEW b \in Blocks, pages[b].type = "leaf",
         NEW items \in Seq(Entries), NEW dead, dead \subseteq DOMAIN items,
         NEW l \in Nat, l > lsn,
         pages' = [pages EXCEPT ![b] = [@ EXCEPT !.items = items, !.dead = dead, !.lsn = l]],
         lsn' = l, tid' = tid, pend' \subseteq pend, writes' \in Nat, UNCHANGED scanVars,
         FlagsDead(pages, b) => \A o \in dead : tid[RowOf[items[o]]] = "dead"
  PROVE  RecordOK
<1> DEFINE pg == [pages[b] EXCEPT !.items = items, !.dead = dead, !.lsn = l]
           new == [pages EXCEPT ![b] = pg]
<1>1. /\ pages \in [Blocks -> Page] /\ pages[Root].type \in {"leaf", "inner"}
      /\ ~pages[Root].follow
      /\ pages[Root].type = "leaf" => \A x \in Blocks \ {Root} : pages[x].type = "new"
  BY DEF GoodIndex
<1>2. pages[b] \in Page /\ LocalOK(pages, lsn, b) /\ Root \in Blocks BY PageFacts
<1>3. dead \in SUBSET Nat
  <2>1. DOMAIN items = 1..Len(items) /\ Len(items) \in Nat OBVIOUS
  <2> QED BY <2>1
<1>4. /\ pg \in Page /\ pg.type = "leaf" /\ pg.items = items /\ pg.dead = dead /\ pg.lsn = l
      /\ pg.links = pages[b].links /\ pg.right = pages[b].right /\ pg.follow = pages[b].follow
  BY <1>2, <1>3 DEF Page
<1>5. pages' = new OBVIOUS
<1> HIDE DEF pg
<1>6. new \in [Blocks -> Page] /\ new[b] = pg /\ \A x \in Blocks \ {b} : new[x] = pages[x]
  BY <1>1, <1>4
<1> HIDE DEF new
<1>7. \A x \in Blocks : /\ new[x].type = pages[x].type /\ new[x].follow = pages[x].follow
                        /\ new[x].right = pages[x].right /\ new[x].links = pages[x].links
  BY <1>4, <1>6
<1>8. LocalOK(new, l, b)
  <2>1. pages[b].right \in Blocks \cup {NoBlock} BY <1>2 DEF Page
  <2>2. pages[b].right # NoBlock => new[pages[b].right].type # "new"
    BY <2>1, <1>2, <1>7 DEF LocalOK
  <2>3. pages[b].links = {} BY <1>2 DEF LocalOK
  <2>4. l <= l OBVIOUS
  <2> QED BY <2>2, <2>3, <2>4, <1>4, <1>6 DEF LocalOK
<1>9. FlagsDead(pages, b) => FlagsDead(new, b) BY <1>4, <1>6 DEF FlagsDead
<1>10. /\ new[Root].type \in {"leaf", "inner"} /\ ~new[Root].follow
       /\ new[Root].type = "leaf" => \A x \in Blocks \ {Root} : new[x].type = "new"
       /\ \A x \in Blocks : pages[x].type # "new" => new[x].type # "new"
  BY <1>1, <1>2, <1>7
<1>11. ASSUME NEW x \in Blocks, new[x].follow
       PROVE  new[x].right # NoBlock /\ \E k \in new[Root].links : k.blk = x
  <2>1. pages[x].right # NoBlock /\ \E k \in pages[Root].links : k.blk = x
    BY <1>7, <1>11, PageFacts
  <2> QED BY <2>1, <1>2, <1>7
<1>12. \A x \in Blocks : \/ new[x] = pages[x]
                         \/ /\ LocalOK(new, l, x) /\ new[x].lsn > lsn
                            /\ FlagsDead(pages, x) => FlagsDead(new, x)
  BY <1>4, <1>6, <1>8, <1>9
<1> QED BY <1>5, <1>6, <1>10, <1>11, <1>12, RecordStep

\* An entry is appended, after the garbage of a full leaf was removed.
LEMMA AddEntryOK ==
  ASSUME GoodIndex(pages, lsn), writes \in Nat, NEW e \in Entries, NEW b \in Blocks,
         AddEntry(e, b)
  PROVE  RecordOK
<1> DEFINE full == Len(pages[b].items) >= Cap
           kept == IF full THEN Without(pages[b].items, pages[b].dead) ELSE pages[b].items
           items == Append(kept, e)
           dead == IF full THEN {} ELSE pages[b].dead
           l == lsn + 2
<1>1. lsn' = l /\ l \in Nat /\ l > lsn /\ writes' \in Nat
  BY PageFacts, WriteFacts, BlocksAssumption DEF AddEntry
<1>2. /\ pages[b].type = "leaf" /\ tid' = tid /\ pend' \subseteq pend /\ UNCHANGED scanVars
  BY DEF AddEntry, Chosen
<1>3. pages' = [pages EXCEPT ![b] = [@ EXCEPT !.items = items, !.dead = dead, !.lsn = l]]
  <2>1. pages' = [pages EXCEPT ![b] = [@ EXCEPT !.items = items, !.lsn = l, !.dead = dead]]
    BY DEF AddEntry
  <2>2. [pages[b] EXCEPT !.items = items, !.lsn = l, !.dead = dead] =
        [pages[b] EXCEPT !.items = items, !.dead = dead, !.lsn = l]
    BY PageFacts DEF Page
  <2> QED BY <2>1, <2>2
<1>4. /\ pages[b].items \in Seq(Entries) /\ pages[b].dead \subseteq DOMAIN pages[b].items
  BY PageFacts
<1>5. kept \in Seq(Entries) BY <1>4, WithoutFacts
<1>6. items \in Seq(Entries) /\ DOMAIN kept \subseteq DOMAIN items
      /\ \A o \in DOMAIN kept : items[o] = kept[o]
  <2> HIDE DEF kept
  <2> QED BY <1>5
<1>7. dead \subseteq DOMAIN items /\ (FlagsDead(pages, b) => \A o \in dead :
                                        tid[RowOf[items[o]]] = "dead")
  <2>1. CASE full
    <3>1. dead = {} BY <2>1
    <3> QED BY <3>1
  <2>2. CASE ~full
    <3>1. dead = pages[b].dead /\ kept = pages[b].items BY <2>2
    <3> HIDE DEF kept, items, dead
    <3> QED BY <3>1, <1>4, <1>6 DEF FlagsDead
  <2> QED BY <2>1, <2>2
<1> HIDE DEF items, dead, l
<1> QED BY <1>1, <1>2, <1>3, <1>6, <1>7, LeafRewritten

\* Vacuum removes the tuples of dead rows; a flag moves with its tuple.
LEMMA VacuumLeafOK ==
  ASSUME GoodIndex(pages, lsn), writes \in Nat, NEW b \in Blocks, VacuumLeaf(b)
  PROVE  RecordOK
<1> DEFINE gone == {o \in DOMAIN pages[b].items : tid[RowOf[pages[b].items[o]]] = "dead"}
           items == Without(pages[b].items, gone)
           dead == DeadWithout(pages[b], gone)
           k == Kept(pages[b].items, gone)
           l == lsn + 1
<1>1. lsn' = l /\ l \in Nat /\ l > lsn /\ writes' \in Nat
  BY PageFacts, WriteFacts, BlocksAssumption DEF VacuumLeaf
<1>2. /\ pages[b].type = "leaf" /\ tid' = tid /\ pend' \subseteq pend /\ UNCHANGED scanVars
  BY DEF VacuumLeaf
<1>3. pages' = [pages EXCEPT ![b] = [@ EXCEPT !.items = items, !.dead = dead, !.lsn = l]]
  BY DEF VacuumLeaf
<1>4. pages[b].items \in Seq(Entries) BY PageFacts
<1> HIDE DEF gone
<1>5. /\ items \in Seq(Entries) /\ DOMAIN items = DOMAIN k
      /\ \A i \in DOMAIN items : items[i] = pages[b].items[k[i]]
  BY <1>4, WithoutFacts
<1>6. dead = {i \in DOMAIN k : k[i] \in pages[b].dead} BY DEF DeadWithout
<1> HIDE DEF items, dead, k, l
<1>7. dead \subseteq DOMAIN items /\ (FlagsDead(pages, b) => \A o \in dead :
                                        tid[RowOf[items[o]]] = "dead")
  BY <1>5, <1>6 DEF FlagsDead
<1> QED BY <1>1, <1>2, <1>3, <1>5, <1>7, LeafRewritten

\* An empty leaf is deleted: it has no tuples, and it is not a half of a split.
LEMMA DeleteLeafOK ==
  ASSUME GoodIndex(pages, lsn), writes \in Nat, NEW b \in Blocks, DeleteLeaf(b)
  PROVE  RecordOK
<1> DEFINE links == {k \in pages[Root].links : k.blk # b}
           l == lsn + 1
           new == [pages EXCEPT ![Root].links = links, ![Root].lsn = l,
                                ![b].type = "deleted", ![b].lsn = l]
<1>1. lsn' = l /\ l \in Nat /\ l > lsn /\ writes' \in Nat
  BY PageFacts, WriteFacts, BlocksAssumption DEF DeleteLeaf
<1>2. /\ pages[b].type = "leaf" /\ tid' = tid /\ pend' \subseteq pend /\ UNCHANGED scanVars
      /\ pages[b].items = <<>> /\ ~pages[b].follow /\ \E k \in pages[Root].links : k.blk = b
  BY DEF DeleteLeaf
<1>3. pages' = new BY DEF DeleteLeaf
<1>4. /\ pages \in [Blocks -> Page] /\ pages[Root].type \in {"leaf", "inner"}
      /\ ~pages[Root].follow /\ Root \in Blocks /\ pages[b] \in Page /\ pages[Root] \in Page
      /\ LocalOK(pages, lsn, b) /\ LocalOK(pages, lsn, Root)
  BY PageFacts, BlocksAssumption DEF GoodIndex
<1>5. pages[Root].links # {} BY <1>2
<1>6. pages[Root].type = "inner" /\ b # Root
  BY <1>2, <1>4, <1>5 DEF LocalOK
<1>7. links \subseteq pages[Root].links /\ links \in SUBSET Link
  <2>1. pages[Root].links \in SUBSET Link BY <1>4 DEF Page
  <2> QED BY <2>1
<1>8. \A x \in Blocks : x # b => \A k \in pages[Root].links : k.blk = x => k \in links
  OBVIOUS
<1> HIDE DEF links, l
<1> DEFINE root == [pages[Root] EXCEPT !.links = links, !.lsn = l]
           leaf == [pages[b] EXCEPT !.type = "deleted", !.lsn = l]
<1>9. /\ root \in Page /\ root.type = "inner" /\ root.links = links /\ root.lsn = l
      /\ root.right = pages[Root].right /\ root.follow = pages[Root].follow
      /\ root.items = pages[Root].items /\ root.dead = pages[Root].dead
  BY <1>1, <1>4, <1>6, <1>7 DEF Page
<1>10. /\ leaf \in Page /\ leaf.type = "deleted" /\ leaf.links = pages[b].links /\ leaf.lsn = l
       /\ leaf.right = pages[b].right /\ leaf.follow = pages[b].follow
       /\ leaf.items = pages[b].items /\ leaf.dead = pages[b].dead
  BY <1>1, <1>4 DEF Page
<1>11. new = [pages EXCEPT ![Root] = root, ![b] = leaf] BY <1>4, <1>6
<1> HIDE DEF root, leaf, new
<1>12. /\ new \in [Blocks -> Page] /\ new[Root] = root /\ new[b] = leaf
       /\ \A x \in Blocks \ {Root, b} : new[x] = pages[x]
  BY <1>4, <1>6, <1>9, <1>10, <1>11
<1>13. \A x \in Blocks : pages[x].type # "new" => new[x].type # "new"
  BY <1>9, <1>10, <1>12
<1>14. LocalOK(new, l, Root)
  <2>1. pages[Root].right \in Blocks \cup {NoBlock} BY <1>4 DEF Page
  <2>2. pages[Root].right # NoBlock => new[pages[Root].right].type # "new"
    BY <2>1, <1>4, <1>13 DEF LocalOK
  <2>3. \A k \in links : k.blk \in Blocks BY <1>7 DEF Link
  <2>4. \A k \in links : new[k.blk].type # "new" BY <2>3, <1>4, <1>7, <1>13 DEF LocalOK
  <2>5. pages[Root].dead \subseteq DOMAIN pages[Root].items BY <1>4 DEF LocalOK
  <2> QED BY <2>2, <2>4, <2>5, <1>1, <1>9, <1>12 DEF LocalOK
<1>15. LocalOK(new, l, b)
  <2>1. pages[b].right \in Blocks \cup {NoBlock} BY <1>4 DEF Page
  <2>2. pages[b].right # NoBlock => new[pages[b].right].type # "new"
    BY <2>1, <1>4, <1>13 DEF LocalOK
  <2>3. pages[b].links = {} /\ pages[b].dead \subseteq DOMAIN pages[b].items
    BY <1>2, <1>4 DEF LocalOK
  <2> QED BY <2>2, <2>3, <1>1, <1>2, <1>10, <1>12 DEF LocalOK
<1>16. ASSUME NEW x \in Blocks, new[x].follow
       PROVE  new[x].right # NoBlock /\ \E k \in new[Root].links : k.blk = x
  <2>1. x # Root /\ x # b BY <1>2, <1>4, <1>9, <1>10, <1>12, <1>16
  <2>2. new[x] = pages[x] BY <2>1, <1>12
  <2>3. pages[x].right # NoBlock /\ \E k \in pages[Root].links : k.blk = x
    BY <2>2, <1>16, PageFacts
  <2> QED BY <2>1, <2>2, <2>3, <1>8, <1>9, <1>12
<1>17. \A x \in {Root, b} : FlagsDead(pages, x) => FlagsDead(new, x)
  BY <1>9, <1>10, <1>12 DEF FlagsDead
<1>18. \A x \in Blocks : \/ new[x] = pages[x]
                         \/ /\ LocalOK(new, l, x) /\ new[x].lsn > lsn
                            /\ FlagsDead(pages, x) => FlagsDead(new, x)
  BY <1>1, <1>9, <1>10, <1>12, <1>14, <1>15, <1>17
<1>19. new[Root].type \in {"leaf", "inner"} /\ ~new[Root].follow /\ new[Root].type # "leaf"
  BY <1>4, <1>9, <1>12
<1> QED BY <1>1, <1>2, <1>3, <1>12, <1>13, <1>16, <1>18, <1>19, RecordStep

\* An unused block.
LEMMA NextBlockFacts ==
  ASSUME GoodIndex(pages, lsn), \E c \in Blocks : pages[c].type = "new"
  PROVE  NextBlock \in Blocks /\ pages[NextBlock].type = "new" /\ NextBlock # Root
<1> DEFINE S == {b \in Blocks : pages[b].type = "new"}
<1>1. S \in SUBSET Nat /\ S # {} BY BlocksAssumption
<1>2. Least(S) \in S
  <2> HIDE DEF S
  <2> QED BY <1>1, LeastIn
<1>3. NextBlock = Least(S) BY DEF NextBlock
<1> QED BY <1>2, <1>3 DEF GoodIndex

\* A root page as a split writes it.
LEMMA InnerFacts ==
  ASSUME NEW links \in SUBSET Link, NEW l \in Nat
  PROVE  LET pg == Inner(links, l) IN
         /\ pg \in Page /\ pg.type = "inner" /\ pg.items = <<>> /\ pg.links = links
         /\ pg.right = NoBlock /\ pg.lsn = l /\ ~pg.follow /\ pg.dead = {}
<1>1. <<>> \in Seq(Entries) OBVIOUS
<1> QED BY <1>1 DEF Inner, EmptyPage, Page

\* The two halves of the tuples of a page.
LEMMA HalvesFacts ==
  ASSUME NEW all \in Seq(Entries), NEW L \in (SUBSET DOMAIN all) \ {{}, DOMAIN all}
  PROVE  /\ Without(all, DOMAIN all \ L) \in Seq(Entries) /\ Without(all, L) \in Seq(Entries)
         /\ Without(all, DOMAIN all \ L) # <<>> /\ Without(all, L) # <<>>
<1>1. DOMAIN all \ L # {} /\ DOMAIN all \ (DOMAIN all \ L) # {} OBVIOUS
<1> QED BY <1>1, WithoutFacts

\* A leaf is split; the root leads to the left half, which leads to the right one.
LEMMA SplitLeafOK ==
  ASSUME GoodIndex(pages, lsn), writes \in Nat, NEW e \in Entries, NEW b \in Blocks,
         SplitLeaf(e, b)
  PROVE  RecordOK
<1> DEFINE all == Append(pages[b].items, e)
           l == lsn + 1
           c == NextBlock
<1>1. lsn' = l /\ l \in Nat /\ l > lsn /\ writes' \in Nat
  BY PageFacts, WriteFacts, BlocksAssumption DEF SplitLeaf
<1>2. /\ pages[b].type = "leaf" /\ ~pages[b].follow /\ b # Root
      /\ \E k \in pages[Root].links : k.blk = b
      /\ tid' = tid /\ pend' \subseteq pend /\ UNCHANGED scanVars
      /\ \E x \in Blocks : pages[x].type = "new"
  BY DEF SplitLeaf, Chosen
<1>3. PICK L \in (SUBSET DOMAIN all) \ {{}, DOMAIN all} :
        pages' = [pages EXCEPT
          ![b] = Leaf(Without(all, DOMAIN all \ L), c, @.nsn, l, TRUE),
          ![c] = Leaf(Without(all, L), pages[b].right, pages[b].nsn, l, FALSE)]
  BY DEF SplitLeaf
<1>4. /\ pages \in [Blocks -> Page] /\ pages[Root].type \in {"leaf", "inner"}
      /\ ~pages[Root].follow /\ Root \in Blocks /\ NoBlock \notin Blocks
      /\ pages[Root].type = "leaf" => \A x \in Blocks \ {Root} : pages[x].type = "new"
      /\ pages[b].items \in Seq(Entries) /\ pages[b].right \in Blocks \cup {NoBlock}
      /\ pages[b].nsn \in Nat /\ LocalOK(pages, lsn, b)
  BY PageFacts, BlocksAssumption DEF GoodIndex
<1>5. c \in Blocks /\ pages[c].type = "new" /\ c # Root /\ c # b /\ c # NoBlock
  BY <1>2, <1>4, NextBlockFacts
<1>6. all \in Seq(Entries) BY <1>4
<1> DEFINE left == Leaf(Without(all, DOMAIN all \ L), c, pages[b].nsn, l, TRUE)
           right == Leaf(Without(all, L), pages[b].right, pages[b].nsn, l, FALSE)
           new == [pages EXCEPT ![b] = left, ![c] = right]
<1>7. pages' = new BY <1>3, <1>5
<1>17. Without(all, DOMAIN all \ L) \in Seq(Entries) /\ Without(all, L) \in Seq(Entries)
  BY <1>6, HalvesFacts
<1> HIDE DEF c, l, all
<1>8. /\ left \in Page /\ left.type = "leaf" /\ left.links = {} /\ left.right = c
      /\ left.lsn = l /\ left.follow /\ left.dead = {}
  BY <1>1, <1>4, <1>5, <1>17 DEF Leaf, EmptyPage, Page
<1>9. /\ right \in Page /\ right.type = "leaf" /\ right.links = {} /\ right.right = pages[b].right
      /\ right.lsn = l /\ ~right.follow /\ right.dead = {}
  BY <1>1, <1>4, <1>17 DEF Leaf, EmptyPage, Page
<1> HIDE DEF left, right
<1>10. /\ new \in [Blocks -> Page] /\ new[b] = left /\ new[c] = right
       /\ \A x \in Blocks \ {b, c} : new[x] = pages[x]
  BY <1>4, <1>5, <1>8, <1>9
<1> HIDE DEF new
<1>11. /\ new[Root] = pages[Root] /\ \A x \in Blocks : pages[x].type # "new" => new[x].type # "new"
  BY <1>2, <1>4, <1>5, <1>8, <1>9, <1>10
<1>12. LocalOK(new, l, b) /\ LocalOK(new, l, c)
  <2>1. new[c].type # "new" BY <1>9, <1>10
  <2>2. pages[b].right # NoBlock => new[pages[b].right].type # "new"
    BY <1>4, <1>11 DEF LocalOK
  <2> QED BY <2>1, <2>2, <1>1, <1>8, <1>9, <1>10 DEF LocalOK
<1>13. pages[Root].type # "leaf" BY <1>2, <1>4
<1>14. ASSUME NEW x \in Blocks, new[x].follow
       PROVE  new[x].right # NoBlock /\ \E k \in new[Root].links : k.blk = x
  <2>1. x # c BY <1>9, <1>10, <1>14
  <2>2. CASE x = b BY <2>2, <1>2, <1>5, <1>8, <1>10, <1>11
  <2>3. CASE x # b
    <3>1. new[x] = pages[x] BY <2>1, <2>3, <1>10
    <3>2. pages[x].right # NoBlock /\ \E k \in pages[Root].links : k.blk = x
      BY <3>1, <1>14, PageFacts
    <3> QED BY <3>1, <3>2, <1>11
  <2> QED BY <2>2, <2>3
<1>15. FlagsDead(new, b) /\ FlagsDead(new, c) BY <1>8, <1>9, <1>10 DEF FlagsDead
<1>16. \A x \in Blocks : \/ new[x] = pages[x]
                         \/ /\ LocalOK(new, l, x) /\ new[x].lsn > lsn
                            /\ FlagsDead(pages, x) => FlagsDead(new, x)
  BY <1>1, <1>8, <1>9, <1>10, <1>12, <1>15
<1> QED BY <1>1, <1>2, <1>4, <1>7, <1>10, <1>11, <1>13, <1>14, <1>16, RecordStep

\* The root is split: before, it is the only page in use.
LEMMA SplitRootOK ==
  ASSUME GoodIndex(pages, lsn), writes \in Nat, NEW e \in Entries, SplitRoot(e)
  PROVE  RecordOK
<1> DEFINE all == Append(pages[Root].items, e)
           l == lsn + 1
           unused == {x \in Blocks : pages[x].type = "new"}
           b == NextBlock
           c == Least(unused \ {b})
<1>1. lsn' = l /\ l \in Nat /\ l > lsn /\ writes' \in Nat
  BY PageFacts, WriteFacts, BlocksAssumption DEF SplitRoot
<1>2. /\ pages[Root].type = "leaf" /\ tid' = tid /\ pend' \subseteq pend /\ UNCHANGED scanVars
      /\ Cardinality(unused) >= 2
  BY DEF SplitRoot, Chosen
<1>3. PICK L \in (SUBSET DOMAIN all) \ {{}, DOMAIN all} :
        pages' = [pages EXCEPT
          ![Root] = Inner({LinkTo(b, Without(all, DOMAIN all \ L)), LinkTo(c, Without(all, L))}, l),
          ![b] = Leaf(Without(all, DOMAIN all \ L), c, 0, l, FALSE),
          ![c] = Leaf(Without(all, L), NoBlock, 0, l, FALSE)]
  BY DEF SplitRoot
<1>4. /\ pages \in [Blocks -> Page] /\ Root \in Blocks /\ NoBlock \notin Blocks
      /\ pages[Root].items \in Seq(Entries)
      /\ \A x \in Blocks \ {Root} : pages[x].type = "new" /\ ~pages[x].follow
  BY <1>2, PageFacts, BlocksAssumption DEF GoodIndex, PageOK
<1>5. unused # {} /\ unused \ {b} # {}
  <2>1. ASSUME unused \ {b} = {} PROVE FALSE
    <3>1. unused = {} \/ unused = {b} BY <2>1
    <3> HIDE DEF unused, b
    <3>2. Cardinality({}) = 0 /\ Cardinality({b}) = 1 BY FS_EmptySet, FS_Singleton
    <3>3. Cardinality(unused) # 0 /\ Cardinality(unused) # 1 BY <1>2
    <3> QED BY <3>1, <3>2, <3>3
  <2> QED BY <2>1
<1>6. b \in Blocks /\ b # Root /\ b # NoBlock BY <1>4, <1>5, NextBlockFacts
<1>7. c \in Blocks /\ c # Root /\ c # NoBlock /\ c # b
  <2>1. unused \ {b} \in SUBSET Nat BY BlocksAssumption
  <2>2. \A x \in unused \ {b} : x \in Blocks /\ x # Root /\ x # b BY <1>2
  <2> HIDE DEF unused, b
  <2>3. c \in unused \ {b} BY <2>1, <1>5, LeastIn
  <2> QED BY <2>2, <2>3, <1>4
<1>8. all \in Seq(Entries) BY <1>4
<1> HIDE DEF b, c, l, all
<1> DEFINE litems == Without(all, DOMAIN all \ L)
           ritems == Without(all, L)
           links == {LinkTo(b, litems), LinkTo(c, ritems)}
           left == Leaf(litems, c, 0, l, FALSE)
           right == Leaf(ritems, NoBlock, 0, l, FALSE)
           root == Inner(links, l)
           new == [pages EXCEPT ![Root] = root, ![b] = left, ![c] = right]
<1>9. litems \in Seq(Entries) /\ ritems \in Seq(Entries) /\ litems # <<>> /\ ritems # <<>>
  BY <1>8, HalvesFacts
<1>10. pages' = new BY <1>3
<1> HIDE DEF litems, ritems
<1>11. links \in SUBSET Link /\ \A k \in links : k.blk \in {b, c}
  BY <1>6, <1>7, <1>9, LinkToFacts
<1> HIDE DEF links
<1>12. /\ left \in Page /\ left.type = "leaf" /\ left.links = {} /\ left.right = c
       /\ left.lsn = l /\ ~left.follow /\ left.dead = {}
  BY <1>1, <1>4, <1>7, <1>9 DEF Leaf, EmptyPage, Page
<1>13. /\ right \in Page /\ right.type = "leaf" /\ right.links = {} /\ right.right = NoBlock
       /\ right.lsn = l /\ ~right.follow /\ right.dead = {}
  BY <1>1, <1>4, <1>9 DEF Leaf, EmptyPage, Page
<1>14. /\ root \in Page /\ root.type = "inner" /\ root.links = links /\ root.right = NoBlock
       /\ root.lsn = l /\ ~root.follow /\ root.dead = {}
  BY <1>1, <1>11, InnerFacts
<1> HIDE DEF left, right, root
<1>15. /\ new \in [Blocks -> Page] /\ new[Root] = root /\ new[b] = left /\ new[c] = right
       /\ \A x \in Blocks \ {Root, b, c} : new[x] = pages[x]
  BY <1>4, <1>6, <1>7, <1>12, <1>13, <1>14
<1> HIDE DEF new
<1>16. \A x \in Blocks : pages[x].type # "new" => new[x].type # "new"
  BY <1>12, <1>13, <1>14, <1>15
<1>17. LocalOK(new, l, Root) /\ LocalOK(new, l, b) /\ LocalOK(new, l, c)
  <2>1. new[b].type # "new" /\ new[c].type # "new" BY <1>12, <1>13, <1>15
  <2>2. \A k \in links : new[k.blk].type # "new" BY <2>1, <1>11
  <2> QED BY <2>1, <2>2, <1>1, <1>12, <1>13, <1>14, <1>15 DEF LocalOK
<1>18. \A x \in Blocks : ~new[x].follow BY <1>4, <1>12, <1>13, <1>14, <1>15
<1>19. FlagsDead(new, Root) /\ FlagsDead(new, b) /\ FlagsDead(new, c)
  BY <1>12, <1>13, <1>14, <1>15 DEF FlagsDead
<1>20. \A x \in Blocks : \/ new[x] = pages[x]
                         \/ /\ LocalOK(new, l, x) /\ new[x].lsn > lsn
                            /\ FlagsDead(pages, x) => FlagsDead(new, x)
  BY <1>1, <1>12, <1>13, <1>14, <1>15, <1>17, <1>19
<1>21. new[Root].type \in {"leaf", "inner"} /\ new[Root].type # "leaf" BY <1>14, <1>15
<1> QED BY <1>1, <1>2, <1>4, <1>10, <1>15, <1>16, <1>18, <1>20, <1>21, RecordStep

\* A split is finished: the root leads to both halves, and to every other page it led to.
LEMMA PostDownlinkOK ==
  ASSUME GoodIndex(pages, lsn), writes \in Nat, NEW b \in Blocks, PostDownlink(b)
  PROVE  RecordOK
<1> DEFINE l == lsn + 1
           c == pages[b].right
           old == {k \in pages[Root].links : k.blk = b}
           low(x) == Least(Lows(pages[x].items) \cup {k.low : k \in old})
           two == {[blk |-> x, low |-> low(x)] : x \in {b, c}}
           links == (pages[Root].links \ old) \cup two
           new == [pages EXCEPT ![Root].links = links, ![Root].lsn = l,
                                ![b].nsn = l, ![b].lsn = l, ![b].follow = FALSE]
<1>1. lsn' = l /\ l \in Nat /\ l > lsn /\ writes' \in Nat
  BY PageFacts, WriteFacts, BlocksAssumption DEF PostDownlink
<1>2. pages[b].follow /\ tid' = tid /\ pend' \subseteq pend /\ UNCHANGED scanVars
  BY DEF PostDownlink
<1>3. pages' = new BY DEF PostDownlink
<1>4. /\ pages \in [Blocks -> Page] /\ pages[Root].type = "inner" /\ ~pages[Root].follow
      /\ Root \in Blocks /\ b # Root /\ pages[b] \in Page /\ pages[Root] \in Page
      /\ pages[b].type # "new" /\ LocalOK(pages, lsn, b) /\ LocalOK(pages, lsn, Root)
      /\ pages[Root].links \in SUBSET Link
      /\ c \in Blocks /\ pages[c].type # "new" /\ \E k \in pages[Root].links : k.blk = b
  BY <1>2, PageFacts, BlocksAssumption DEF GoodIndex, LocalOK
<1>5. \A x \in Blocks : low(x) \in Nat
  <2> TAKE x \in Blocks
  <2> DEFINE S == Lows(pages[x].items) \cup {k.low : k \in old}
  <2>1. Lows(pages[x].items) \in SUBSET Nat BY PageFacts, LowsFacts
  <2>2. S \in SUBSET Nat /\ S # {}
    <3>1. {k.low : k \in old} \in SUBSET Nat BY <1>4 DEF Link
    <3>2. {k.low : k \in old} # {} BY <1>4
    <3> QED BY <2>1, <3>1, <3>2
  <2> HIDE DEF S
  <2>3. Least(S) \in Nat BY <2>2, LeastIn
  <2> QED BY <2>3 DEF S
<1>19. /\ two = {[blk |-> b, low |-> low(b)], [blk |-> c, low |-> low(c)]}
       /\ low(b) \in Nat /\ low(c) \in Nat
  BY <1>4, <1>5
<1>20. PICK u \in Nat, v \in Nat : two = {[blk |-> b, low |-> u], [blk |-> c, low |-> v]}
  BY <1>19
<1> HIDE DEF low, two
<1>21. [blk |-> b, low |-> u] \in Link /\ [blk |-> c, low |-> v] \in Link
  BY <1>4 DEF Link
<1>6. two \in SUBSET Link /\ (\A k \in two : k.blk \in {b, c}) /\ \E k \in two : k.blk = b
  BY <1>20, <1>21
<1>7. /\ links \in SUBSET Link
      /\ \A k \in links : k \in pages[Root].links \/ k.blk \in {b, c}
      /\ \A k \in pages[Root].links : k.blk # b => k \in links
  BY <1>4, <1>6
<1> HIDE DEF links, l
<1> DEFINE root == [pages[Root] EXCEPT !.links = links, !.lsn = l]
           left == [pages[b] EXCEPT !.nsn = l, !.lsn = l, !.follow = FALSE]
<1>8. /\ root \in Page /\ root.type = "inner" /\ root.links = links /\ root.lsn = l
      /\ root.right = pages[Root].right /\ root.follow = pages[Root].follow
      /\ root.items = pages[Root].items /\ root.dead = pages[Root].dead
  BY <1>1, <1>4, <1>7 DEF Page
<1>9. /\ left \in Page /\ left.type = pages[b].type /\ left.links = pages[b].links
      /\ left.right = c /\ ~left.follow /\ left.lsn = l
      /\ left.items = pages[b].items /\ left.dead = pages[b].dead
  BY <1>1, <1>4 DEF Page
<1>10. new = [pages EXCEPT ![Root] = root, ![b] = left] BY <1>4
<1> HIDE DEF root, left, new
<1>11. /\ new \in [Blocks -> Page] /\ new[Root] = root /\ new[b] = left
       /\ \A x \in Blocks \ {Root, b} : new[x] = pages[x]
  BY <1>4, <1>8, <1>9, <1>10
<1>12. \A x \in Blocks : new[x].type = pages[x].type BY <1>4, <1>8, <1>9, <1>11
<1>13. LocalOK(new, l, Root)
  <2>1. pages[Root].right \in Blocks \cup {NoBlock} BY <1>4 DEF Page
  <2>2. pages[Root].right # NoBlock => new[pages[Root].right].type # "new"
    BY <2>1, <1>4, <1>12 DEF LocalOK
  <2>3. \A k \in links : k.blk \in Blocks BY <1>7 DEF Link
  <2>4. \A k \in links : new[k.blk].type # "new" BY <2>3, <1>4, <1>7, <1>12 DEF LocalOK
  <2>5. pages[Root].dead \subseteq DOMAIN pages[Root].items BY <1>4 DEF LocalOK
  <2> QED BY <2>2, <2>4, <2>5, <1>1, <1>8, <1>11 DEF LocalOK
<1>14. LocalOK(new, l, b)
  <2>1. new[c].type # "new" BY <1>4, <1>12
  <2>2. \A k \in pages[b].links : k.blk \in Blocks /\ pages[k.blk].type # "new"
    BY <1>4 DEF LocalOK, Link, Page
  <2>3. \A k \in pages[b].links : new[k.blk].type # "new" BY <2>2, <1>12
  <2>4. /\ pages[b].type = "leaf" => pages[b].links = {}
        /\ pages[b].type = "deleted" => pages[b].items = <<>>
        /\ pages[b].dead \subseteq DOMAIN pages[b].items
    BY <1>4 DEF LocalOK
  <2> QED BY <2>1, <2>3, <2>4, <1>1, <1>9, <1>11 DEF LocalOK
<1>15. ASSUME NEW x \in Blocks, new[x].follow
       PROVE  new[x].right # NoBlock /\ \E k \in new[Root].links : k.blk = x
  <2>1. x # Root /\ x # b BY <1>4, <1>8, <1>9, <1>11, <1>15
  <2>2. new[x] = pages[x] BY <2>1, <1>11
  <2>3. pages[x].right # NoBlock /\ \E k \in pages[Root].links : k.blk = x
    BY <2>2, <1>15, PageFacts
  <2> QED BY <2>1, <2>2, <2>3, <1>7, <1>8, <1>11
<1>16. \A x \in {Root, b} : FlagsDead(pages, x) => FlagsDead(new, x)
  BY <1>8, <1>9, <1>11 DEF FlagsDead
<1>17. \A x \in Blocks : \/ new[x] = pages[x]
                         \/ /\ LocalOK(new, l, x) /\ new[x].lsn > lsn
                            /\ FlagsDead(pages, x) => FlagsDead(new, x)
  BY <1>1, <1>8, <1>9, <1>11, <1>13, <1>14, <1>16
<1>18. new[Root].type = "inner" /\ ~new[Root].follow BY <1>4, <1>8, <1>11
<1> QED BY <1>1, <1>2, <1>3, <1>11, <1>12, <1>15, <1>17, <1>18, RecordStep

(***************************************************************************)
(* The invariant of a scan.                                                *)
(***************************************************************************)
\* The private state of the scan is well formed and not ahead of the index.
StateOK ==
  /\ so \in ScanState /\ so.cur <= Len(so.data) /\ so.lsn <= lsn
  /\ Reachable(so.queue, pages)

\* Where the scan is, and what is not there yet.
StageOK ==
  /\ pc \in {"none", "client", "outer", "inner", "nearest", "bitmap", "done"}
  /\ pc = "none" => so = NoScan /\ kill = FALSE /\ out = <<>>
  /\ pc \in {"outer", "inner"} => mode = "plain" /\ ~so.first
  /\ pc = "nearest" => mode = "ordered" /\ ~so.first
  /\ pc = "bitmap" => mode = "bitmap"
  /\ mode = "bitmap" => so.first
  /\ so.first => out = <<>>

\* The rows a plain scan has yet to return from the page it read are in the table of
\* rows, all different, and not returned yet.
RowsAhead(s) ==
  /\ \A k \in s.cur + 1..Len(s.data) :
       s.data[k].tid \in s.tids /\ \A i \in 1..Len(out) : out[i].tid # s.data[k].tid
  /\ \A j, k \in s.cur + 1..Len(s.data) : s.data[j].tid = s.data[k].tid => j = k

\* A returned row is in the table of rows, and was returned once.
RowsOK ==
  /\ ReturnedOnce
  /\ \A i \in 1..Len(out) : out[i].tid \in so.tids
  /\ mode = "plain" /\ ~so.first => RowsAhead(so)

\* The other variables have their types.
RestOK ==
  /\ writes \in Nat /\ tid \in [Rows -> {"free", "live", "dead"}] /\ pend \subseteq Entries
  /\ mode \in Modes /\ kill \in BOOLEAN /\ snap \subseteq Rows /\ out \in Seq(Returned)
  /\ rescans \in Nat

ScanInv == GoodIndex(pages, lsn) /\ RestOK /\ StateOK /\ StageOK /\ RowsOK

\* The invariant implies the type invariant and that rows are returned once.
LEMMA ScanInvMeans == ASSUME ScanInv PROVE TypeOK /\ ReturnedOnce
<1>1. pages \in [Blocks -> Page] /\ lsn \in Nat BY DEF ScanInv, GoodIndex
<1>2. /\ so.queue \subseteq QueueItem /\ so.heap \subseteq Returned /\ so.first \in BOOLEAN
      /\ so.tids \subseteq Rows /\ so.freed \subseteq Rows /\ so.best \in [Rows -> Nat]
      /\ so.data \in Seq([tid : Rows, off : Nat]) /\ so.cur \in Nat /\ so.cur <= Len(so.data)
      /\ so.killed \subseteq Nat /\ so.blk \in Blocks \cup {NoBlock} /\ so.lsn \in Nat
  BY DEF ScanInv, StateOK, ScanState, Hit
<1>3. so.cur \in 0..Len(so.data) BY <1>2
<1> QED BY <1>1, <1>2, <1>3 DEF ScanInv, RestOK, StageOK, RowsOK, TypeOK

\* No private state is well formed.
LEMMA NoScanFacts ==
  /\ NoScan \in ScanState /\ NoScan.queue = {} /\ NoScan.first = TRUE /\ NoScan.tids = {}
  /\ NoScan.best = [r \in Rows |-> NoDist] /\ NoScan.data = <<>> /\ NoScan.cur = 0
  /\ NoScan.killed = {} /\ NoScan.blk = NoBlock /\ NoScan.lsn = 0
<1>1. <<>> \in Seq(Hit) OBVIOUS
<1> QED BY <1>1, NoBestYet DEF NoScan, ScanState

\* The index a behaviour starts from is good.
LEMMA InitIndexGood == ASSUME Init PROVE GoodIndex(pages, lsn)
<1>1. PICK t \in InitIndexes :
        pages = [b \in Blocks |->
            IF b \in DOMAIN t.leaves THEN Leaf(t.leaves[b], NoBlock, 0, BuildLSN, FALSE)
            ELSE IF b = Root
            THEN Inner({LinkTo(c, t.leaves[c]) : c \in DOMAIN t.leaves}, BuildLSN)
            ELSE EmptyPage]
  BY DEF Init
<1> DEFINE D == DOMAIN t.leaves
           links == {LinkTo(c, t.leaves[c]) : c \in D}
           leaf(b) == Leaf(t.leaves[b], NoBlock, 0, BuildLSN, FALSE)
           root == Inner(links, BuildLSN)
<1>2. /\ t.leaves \in [D -> Seq(Entries)] /\ D \subseteq Blocks
      /\ Root \in D => D = {Root}
      /\ Root \notin D => \A b \in D : t.leaves[b] # <<>>
  BY <1>1, InitAssumption DEF InitIndex
<1>3. Root \in Blocks /\ NoBlock \notin Blocks /\ lsn = BuildLSN /\ BuildLSN = 1
  BY BlocksAssumption DEF Init, BuildLSN
<1>4. \A b \in D : t.leaves[b] \in Seq(Entries) BY <1>2
<1>5. \A b \in Blocks : pages[b] = IF b \in D THEN leaf(b)
                                   ELSE IF b = Root THEN root ELSE EmptyPage
  BY <1>1
<1> HIDE DEF D
<1>6. \A b \in D : /\ leaf(b) \in Page /\ leaf(b).type = "leaf" /\ leaf(b).links = {}
                   /\ leaf(b).right = NoBlock /\ leaf(b).lsn = 1 /\ ~leaf(b).follow
                   /\ leaf(b).dead = {}
  BY <1>3, <1>4 DEF Leaf, EmptyPage, Page
<1>7. Root \notin D => links \in SUBSET Link /\ \A k \in links : k.blk \in D
  <2> SUFFICES ASSUME Root \notin D, NEW c \in D
               PROVE  LinkTo(c, t.leaves[c]) \in Link /\ LinkTo(c, t.leaves[c]).blk \in D
    OBVIOUS
  <2>1. t.leaves[c] \in Seq(Entries) /\ t.leaves[c] # <<>> /\ c \in Blocks BY <1>2, <1>4
  <2> QED BY <2>1, LinkToFacts
<1> HIDE DEF links, leaf
<1>8. Root \notin D => /\ root \in Page /\ root.type = "inner" /\ root.items = <<>>
                       /\ root.links = links /\ root.right = NoBlock /\ root.lsn = 1
                       /\ ~root.follow /\ root.dead = {}
  <2> SUFFICES ASSUME Root \notin D
               PROVE  /\ root \in Page /\ root.type = "inner" /\ root.items = <<>>
                      /\ root.links = links /\ root.right = NoBlock /\ root.lsn = BuildLSN
                      /\ ~root.follow /\ root.dead = {}
    BY <1>3
  <2>1. links \in SUBSET Link /\ BuildLSN \in Nat BY <1>3, <1>7
  <2> QED BY <2>1, InnerFacts
<1>9. /\ EmptyPage \in Page /\ EmptyPage.type = "new" /\ EmptyPage.links = {}
      /\ EmptyPage.right = NoBlock /\ EmptyPage.lsn = 0 /\ ~EmptyPage.follow
      /\ EmptyPage.dead = {}
  <2>1. <<>> \in Seq(Entries) OBVIOUS
  <2> QED BY <2>1 DEF EmptyPage, Page
<1> HIDE DEF root
<1>10. pages \in [Blocks -> Page]
  <2>1. \A b \in Blocks : pages[b] \in Page BY <1>5, <1>6, <1>8, <1>9
  <2>2. pages = [b \in Blocks |-> pages[b]] BY <1>1
  <2> QED BY <2>1, <2>2
<1>11. /\ pages[Root].type \in {"leaf", "inner"} /\ ~pages[Root].follow
       /\ pages[Root].type = "leaf" => \A b \in Blocks \ {Root} : pages[b].type = "new"
  <2>1. CASE Root \in D
    <3>1. \A b \in Blocks \ {Root} : pages[b] = EmptyPage BY <2>1, <1>2, <1>5
    <3> QED BY <2>1, <3>1, <1>3, <1>5, <1>6, <1>9
  <2>2. CASE Root \notin D BY <2>2, <1>3, <1>5, <1>8
  <2> QED BY <2>1, <2>2
<1>12. ASSUME NEW b \in Blocks PROVE PageOK(pages, lsn, b)
  <2>1. CASE b \in D
    <3>1. pages[b] = leaf(b) BY <2>1, <1>5
    <3> QED BY <3>1, <2>1, <1>3, <1>6 DEF PageOK
  <2>2. CASE b \notin D /\ b = Root
    <3>1. pages[b] = root BY <2>2, <1>5
    <3>2. \A k \in links : pages[k.blk].type = "leaf" BY <2>2, <1>2, <1>5, <1>6, <1>7
    <3> QED BY <3>1, <3>2, <2>2, <1>3, <1>8 DEF PageOK
  <2>3. CASE b \notin D /\ b # Root
    <3>1. pages[b] = EmptyPage BY <2>3, <1>5
    <3> QED BY <3>1, <1>3, <1>9 DEF PageOK
  <2> QED BY <2>1, <2>2, <2>3
<1> QED BY <1>3, <1>10, <1>11, <1>12 DEF GoodIndex

LEMMA ScanInit == ASSUME Init PROVE ScanInv
<1>1. GoodIndex(pages, lsn) BY InitIndexGood
<1>2. /\ pend = {} /\ pc = "none" /\ mode = "plain" /\ so = NoScan /\ kill = FALSE
      /\ snap = {} /\ out = <<>> /\ rescans = 0
  BY DEF Init
<1>3. writes \in Nat /\ tid \in [Rows -> {"free", "live", "dead"}]
  <2>1. PICK t \in InitIndexes :
          tid = [r \in Rows |-> IF r \in t.rows THEN "live" ELSE "free"] /\ writes = t.writes
    BY DEF Init
  <2> QED BY <2>1, InitAssumption DEF InitIndex
<1>4. RestOK
  <2>1. <<>> \in Seq(Returned) OBVIOUS
  <2> QED BY <2>1, <1>2, <1>3 DEF RestOK, Modes
<1>5. StateOK
  <2>1. Len(so.data) = 0 /\ so.cur = 0 /\ so.lsn = 0 /\ lsn \in Nat
    BY <1>1, <1>2, NoScanFacts DEF GoodIndex
  <2> QED BY <2>1, <1>2, NoScanFacts DEF StateOK, Reachable
<1>6. StageOK BY <1>2 DEF StageOK
<1>7. RowsOK
  <2>1. ReturnedOnce BY <1>2 DEF ReturnedOnce
  <2>2. Len(out) = 0 BY <1>2
  <2> QED BY <2>1, <2>2, <1>2, NoScanFacts DEF RowsOK
<1> QED BY <1>1, <1>4, <1>5, <1>6, <1>7 DEF ScanInv

(***************************************************************************)
(* Every step keeps the invariant.                                         *)
(***************************************************************************)
\* A WAL record of another backend.
LEMMA RecordKeeps == ASSUME ScanInv, RecordOK PROVE ScanInv'
<1>1. /\ pc' = pc /\ mode' = mode /\ so' = so /\ kill' = kill /\ snap' = snap /\ out' = out
      /\ rescans' = rescans
  BY DEF RecordOK, scanVars
<1>2. GoodIndex(pages', lsn') BY DEF RecordOK
<1>3. RestOK' BY <1>1 DEF ScanInv, RestOK, RecordOK
<1>4. StateOK'
  <2>1. so.queue \subseteq QueueItem /\ so.lsn \in Nat BY DEF ScanInv, StateOK, ScanState
  <2>2. so.lsn <= lsn' BY <2>1 DEF ScanInv, StateOK, RecordOK, GoodIndex
  <2>3. \A i \in so.queue : i.blk \in Blocks BY <2>1 DEF QueueItem
  <2>4. Reachable(so.queue, pages') BY <2>3 DEF ScanInv, StateOK, Reachable, RecordOK
  <2> QED BY <2>2, <2>4, <1>1 DEF ScanInv, StateOK
<1>5. StageOK' BY <1>1 DEF ScanInv, StageOK
<1>6. RowsOK' BY <1>1 DEF ScanInv, RowsOK, RowsAhead, ReturnedOnce
<1> QED BY <1>2, <1>3, <1>4, <1>5, <1>6 DEF ScanInv

\* A row is inserted, dies, or its TID is freed.
HeapStep(r) == NewRow(r) \/ RowDies(r) \/ FreeTid(r)

LEMMA HeapKeeps == ASSUME ScanInv, NEW r \in Rows, HeapStep(r) PROVE ScanInv'
<1>1. /\ pages' = pages /\ lsn' = lsn /\ writes' = writes /\ UNCHANGED scanVars
      /\ tid' \in [Rows -> {"free", "live", "dead"}] /\ pend' \subseteq Entries
  BY DEF HeapStep, NewRow, RowDies, FreeTid, ScanInv, RestOK, EntriesOf
<1>2. /\ pc' = pc /\ mode' = mode /\ so' = so /\ kill' = kill /\ snap' = snap /\ out' = out
      /\ rescans' = rescans
  BY <1>1 DEF scanVars
<1>3. RestOK' BY <1>1, <1>2 DEF ScanInv, RestOK
<1>4. GoodIndex(pages', lsn') /\ StateOK' BY <1>1, <1>2 DEF ScanInv, StateOK
<1>5. StageOK' BY <1>2 DEF ScanInv, StageOK
<1>6. RowsOK' BY <1>2 DEF ScanInv, RowsOK, RowsAhead, ReturnedOnce
<1> QED BY <1>3, <1>4, <1>5, <1>6 DEF ScanInv

\* What the other backends do is one or the other.
LEMMA OthersAre ==
  ASSUME ScanInv, Others
  PROVE  RecordOK \/ \E r \in Rows : HeapStep(r)
<1>1. GoodIndex(pages, lsn) /\ writes \in Nat BY DEF ScanInv, RestOK
<1>2. CASE \E r \in Rows : NewRow(r) \/ RowDies(r) \/ FreeTid(r) BY <1>2 DEF HeapStep
<1>3. CASE \E e \in Entries : \E k \in pages[Root].links : AdjustLink(e, k)
  BY <1>1, <1>3, AdjustLinkOK
<1>4. CASE \E e \in Entries : \E b \in Blocks : AddEntry(e, b) BY <1>1, <1>4, AddEntryOK
<1>5. CASE \E e \in Entries : \E b \in Blocks : SplitLeaf(e, b) BY <1>1, <1>5, SplitLeafOK
<1>6. CASE \E e \in Entries : SplitRoot(e) BY <1>1, <1>6, SplitRootOK
<1>7. CASE \E b \in Blocks : PostDownlink(b) BY <1>1, <1>7, PostDownlinkOK
<1>8. CASE \E b \in Blocks : VacuumLeaf(b) BY <1>1, <1>8, VacuumLeafOK
<1>9. CASE \E b \in Blocks : DeleteLeaf(b) BY <1>1, <1>9, DeleteLeafOK
<1> QED BY <1>2, <1>3, <1>4, <1>5, <1>6, <1>7, <1>8, <1>9 DEF Others

\* The scan reads page i in state s.
LEMMA AfterRead ==
  ASSUME ScanInv, NEW s \in ScanState, Reachable(s.queue, pages), s.cur <= Len(s.data),
         s.lsn <= lsn, NEW i \in QueueItem, pages[i.blk].type # "new", so' \in Scanned(i, s),
         UNCHANGED <<indexVars, mode, out>>, \A j \in 1..Len(out) : out[j].tid \in s.tids,
         mode = "plain" /\ ~s.first => RowsAhead(s)
  PROVE  /\ ReadOK(i, s, so') /\ GoodIndex(pages', lsn') /\ StateOK' /\ RowsOK'
<1>1. GoodIndex(pages, lsn) /\ mode \in Modes /\ lsn \in Nat /\ out \in Seq(Returned)
  BY DEF ScanInv, RestOK, GoodIndex
<1>2. ReadOK(i, s, so') BY <1>1, ScannedFacts
<1>3. pages' = pages /\ lsn' = lsn /\ out' = out /\ mode' = mode BY DEF indexVars
<1> DEFINE pg == pages[i.blk]
           t == so'
<1>4. /\ t \in ScanState /\ Reachable(t.queue, pages) /\ t.first = s.first
      /\ t.data \in Seq(Hit) /\ Len(t.data) \in Nat /\ s.tids \subseteq t.tids
      /\ pg.type = "deleted" =>
           t.data = s.data /\ t.cur = s.cur /\ t.tids = s.tids /\ t.lsn = s.lsn
      /\ pg.type # "deleted" =>
           /\ t.cur = 0 /\ t.lsn = pg.lsn
           /\ \A k \in 1..Len(t.data) : t.data[k].tid \notin s.tids /\ t.data[k].tid \in t.tids
           /\ \A j, k \in 1..Len(t.data) : t.data[j].tid = t.data[k].tid => j = k
  <2>1. t \in ScanState BY <1>2 DEF ReadOK
  <2>2. t.data \in Seq(Hit) BY <2>1 DEF ScanState
  <2>3. Len(t.data) \in Nat BY <2>2
  <2> HIDE DEF t
  <2> QED BY <1>2, <2>1, <2>2, <2>3 DEF ReadOK, t
<1>5. pg.lsn \in Nat /\ pg.lsn <= lsn BY <1>1, PageFacts DEF QueueItem
<1> HIDE DEF t, pg
<1>6. t.cur <= Len(t.data) /\ t.lsn <= lsn
  <2>1. CASE pg.type = "deleted" BY <2>1, <1>4
  <2>2. CASE pg.type # "deleted" BY <2>2, <1>4, <1>5
  <2> QED BY <2>1, <2>2
<1>7. (mode = "plain" /\ ~t.first) => RowsAhead(t)
  <2> SUFFICES ASSUME mode = "plain", ~t.first PROVE RowsAhead(t) OBVIOUS
  <2>1. CASE pg.type = "deleted" BY <2>1, <1>4 DEF RowsAhead
  <2>2. CASE pg.type # "deleted"
    <3>1. t.cur + 1..Len(t.data) = 1..Len(t.data) BY <2>2, <1>4
    <3>2. \A k \in 1..Len(t.data) :
            t.data[k].tid \in t.tids /\ \A j \in 1..Len(out) : out[j].tid # t.data[k].tid
      BY <2>2, <1>4
    <3>3. \A j, k \in 1..Len(t.data) : t.data[j].tid = t.data[k].tid => j = k BY <2>2, <1>4
    <3> QED BY <3>1, <3>2, <3>3 DEF RowsAhead
  <2> QED BY <2>1, <2>2
<1>8. StateOK' BY <1>3, <1>4, <1>6 DEF StateOK, t
<1>9. RowsOK'
  <2>1. \A j \in 1..Len(out) : out[j].tid \in t.tids BY <1>4
  <2>2. ReturnedOnce' BY <1>3 DEF ScanInv, RowsOK, ReturnedOnce
  <2> QED BY <2>1, <2>2, <1>3, <1>7 DEF RowsOK, RowsAhead, t
<1>10. GoodIndex(pages', lsn') BY <1>1, <1>3
<1> QED BY <1>2, <1>8, <1>9, <1>10 DEF t

\* A scan begins.
LEMMA BeginScanKeeps == ASSUME ScanInv, NEW m \in Modes, BeginScan(m) PROVE ScanInv'
<1>1. /\ pages' = pages /\ lsn' = lsn /\ tid' = tid /\ pend' = pend /\ writes' = writes
      /\ pc = "none" /\ pc' = "client" /\ mode' = m /\ so' = so /\ kill' = kill /\ out' = out
      /\ rescans' = rescans /\ snap' \subseteq Rows
  BY DEF BeginScan, indexVars
<1>2. so = NoScan /\ kill = FALSE /\ out = <<>> /\ so.first = TRUE
  BY <1>1, NoScanFacts DEF ScanInv, StageOK
<1>3. GoodIndex(pages', lsn') /\ RestOK' /\ StateOK'
  BY <1>1 DEF ScanInv, RestOK, StateOK
<1>4. StageOK' BY <1>1, <1>2 DEF StageOK
<1>5. RowsOK' BY <1>1, <1>2 DEF ScanInv, RowsOK, ReturnedOnce
<1> QED BY <1>3, <1>4, <1>5 DEF ScanInv

\* A scan is restarted.
LEMMA RescanKeeps == ASSUME ScanInv, Rescan PROVE ScanInv'
<1>1. /\ pages' = pages /\ lsn' = lsn /\ tid' = tid /\ pend' = pend /\ writes' = writes
      /\ pc' = "client" /\ mode' = mode /\ kill' = FALSE /\ out' = <<>>
      /\ rescans' = rescans + 1 /\ snap' = snap
      /\ so' = [so EXCEPT !.queue = {}, !.heap = {}, !.first = TRUE]
  BY DEF Rescan, indexVars
<1>2. /\ so' \in ScanState /\ so'.first = TRUE /\ so'.queue = {} /\ so'.data = so.data
      /\ so'.cur = so.cur /\ so'.lsn = so.lsn
  BY <1>1 DEF ScanInv, StateOK, ScanState
<1>3. RestOK'
  <2>1. <<>> \in Seq(Returned) /\ rescans + 1 \in Nat BY DEF ScanInv, RestOK
  <2> QED BY <1>1, <2>1 DEF ScanInv, RestOK
<1>4. GoodIndex(pages', lsn') /\ StateOK' BY <1>1, <1>2 DEF ScanInv, StateOK, Reachable
<1>5. StageOK' BY <1>1, <1>2 DEF StageOK
<1>6. RowsOK'
  <2>1. Len(out') = 0 /\ DOMAIN out' = {} BY <1>1
  <2> QED BY <1>2, <2>1 DEF RowsOK, ReturnedOnce
<1> QED BY <1>3, <1>4, <1>5, <1>6 DEF ScanInv

\* The first call reads the root.
LEMMA FirstCallKeeps ==
  ASSUME ScanInv, FirstCall
  PROVE  /\ ScanInv'
         /\ so.first /\ pages' = pages /\ lsn' = lsn /\ tid' = tid /\ mode' = mode /\ kill' = kill
         /\ ReadOK(RootItem, [so EXCEPT !.first = FALSE, !.tids = {}, !.freed = {},
                                        !.best = NoScan.best, !.data = <<>>, !.cur = 0], so')
<1> DEFINE s == [so EXCEPT !.first = FALSE, !.tids = {}, !.freed = {},
                           !.best = NoScan.best, !.data = <<>>, !.cur = 0]
<1>1. /\ UNCHANGED <<indexVars, mode, out>> /\ kill' = kill /\ snap' = snap /\ rescans' = rescans
      /\ pc' = (IF mode = "plain" THEN "outer" ELSE "nearest") /\ mode # "bitmap" /\ so.first
      /\ so' \in Scanned(RootItem, s)
  BY DEF FirstCall
<1>2. pages' = pages /\ lsn' = lsn /\ tid' = tid /\ pend' = pend /\ writes' = writes
      /\ mode' = mode /\ out' = out
  BY <1>1 DEF indexVars
<1>3. /\ so \in ScanState /\ Reachable(so.queue, pages) /\ so.lsn <= lsn /\ mode \in Modes
      /\ out = <<>> /\ pages[Root].type # "new"
  BY <1>1 DEF ScanInv, StateOK, RestOK, StageOK, GoodIndex
<1>4. /\ s \in ScanState /\ s.queue = so.queue /\ s.first = FALSE /\ s.data = <<>> /\ s.cur = 0
      /\ s.lsn = so.lsn
  <2>1. <<>> \in Seq(Hit) OBVIOUS
  <2> QED BY <1>3, <2>1, NoScanFacts, NoBestYet DEF ScanState
<1>5. RootItem \in QueueItem /\ RootItem.blk = Root BY BlocksAssumption DEF RootItem, QueueItem
<1> HIDE DEF s
<1>6. Len(s.data) = 0 /\ Len(out) = 0 BY <1>3, <1>4
<1>7. RowsAhead(s) BY <1>4, <1>6 DEF RowsAhead
<1>8. ReadOK(RootItem, s, so') /\ GoodIndex(pages', lsn') /\ StateOK' /\ RowsOK'
  BY <1>1, <1>3, <1>4, <1>5, <1>6, <1>7, AfterRead
<1>9. RestOK' BY <1>1, <1>2 DEF ScanInv, RestOK
<1>10. so'.first = FALSE BY <1>4, <1>8 DEF ReadOK
<1>11. StageOK' BY <1>1, <1>2, <1>3, <1>10 DEF StageOK, Modes
<1>12. ScanInv' BY <1>8, <1>9, <1>11 DEF ScanInv
<1> QED BY <1>1, <1>2, <1>8, <1>12 DEF s

\* A row is appended to the output that was not there.
LEMMA AppendOnce ==
  ASSUME out \in Seq(Returned), ReturnedOnce, NEW h \in Returned, out' = Append(out, h),
         \A i \in 1..Len(out) : out[i].tid # h.tid
  PROVE  /\ out' \in Seq(Returned) /\ Len(out') = Len(out) + 1 /\ Len(out) \in Nat /\ ReturnedOnce'
         /\ \A i \in 1..Len(out') : out'[i] = h \/ (i \in 1..Len(out) /\ out'[i] = out[i])
<1>1. /\ out' \in Seq(Returned) /\ Len(out') = Len(out) + 1 /\ Len(out) \in Nat
      /\ DOMAIN out = 1..Len(out) /\ DOMAIN out' = 1..Len(out')
      /\ out'[Len(out')] = h
      /\ \A i \in 1..Len(out') : i \in 1..Len(out) \/ i = Len(out')
      /\ \A i \in 1..Len(out) : i # Len(out') /\ out'[i] = out[i]
  OBVIOUS
<1>2. ReturnedOnce'
  <2> SUFFICES ASSUME NEW i \in 1..Len(out'), NEW j \in 1..Len(out'), i # j
               PROVE  out'[i].tid # out'[j].tid
    BY <1>1 DEF ReturnedOnce
  <2>1. CASE i = Len(out') /\ j \in 1..Len(out) BY <2>1, <1>1
  <2>2. CASE j = Len(out') /\ i \in 1..Len(out) BY <2>2, <1>1
  <2>3. CASE i \in 1..Len(out) /\ j \in 1..Len(out) BY <2>3, <1>1 DEF ReturnedOnce
  <2> QED BY <2>1, <2>2, <2>3, <1>1
<1>3. ASSUME NEW i \in 1..Len(out')
      PROVE  out'[i] = h \/ (i \in 1..Len(out) /\ out'[i] = out[i])
  <2>1. CASE i \in 1..Len(out) BY <2>1, <1>1
  <2>2. CASE i = Len(out') BY <2>2, <1>1
  <2> QED BY <2>1, <2>2, <1>1
<1> QED BY <1>1, <1>2, <1>3

\* In the loop over the rows of a page, and among the nearest items.
LEMMA InOuter == ASSUME ScanInv, InLoop("outer") PROVE mode = "plain" /\ ~so.first
BY DEF ScanInv, StageOK, InLoop

LEMMA InNearest == ASSUME ScanInv, InLoop("nearest") PROVE mode = "ordered" /\ ~so.first
BY DEF ScanInv, StageOK, RestOK, Modes, InLoop

\* The offsets to be flagged are numbers.
LEMMA RememberFacts == ASSUME ScanInv PROVE Remember \in SUBSET Nat
<1>1. /\ so.killed \in SUBSET Nat /\ so.data \in Seq(Hit) /\ so.cur \in Nat
      /\ so.cur <= Len(so.data)
  BY DEF ScanInv, StateOK, ScanState
<1>2. so.cur > 0 => so.data[so.cur].off \in Nat
  <2> SUFFICES ASSUME so.cur > 0 PROVE so.data[so.cur].off \in Nat OBVIOUS
  <2>1. so.cur \in 1..Len(so.data) BY <1>1
  <2>2. so.data[so.cur] \in Hit BY <1>1, <2>1
  <2> QED BY <2>2 DEF Hit
<1> QED BY <1>1, <1>2 DEF Remember

\* The next row of a page is returned.
LEMMA ReturnRowKeeps == ASSUME ScanInv, ReturnRow PROVE ScanInv'
<1> DEFINE k == so.cur + 1
           r == so.data[k].tid
           h == [tid |-> r, dist |-> 0]
<1>1. /\ pages' = pages /\ lsn' = lsn /\ tid' = tid /\ pend' = pend /\ writes' = writes
      /\ mode' = mode /\ snap' = snap /\ rescans' = rescans /\ pc' = "client"
      /\ so.cur < Len(so.data) /\ so' = [so EXCEPT !.killed = Remember, !.cur = @ + 1]
      /\ out' = Append(out, h) /\ kill' \in BOOLEAN /\ InLoop("outer")
  BY DEF ReturnRow, indexVars
<1>2. /\ so \in ScanState /\ so.data \in Seq(Hit) /\ so.cur \in Nat /\ Len(so.data) \in Nat
      /\ Reachable(so.queue, pages) /\ so.lsn <= lsn /\ out \in Seq(Returned)
      /\ mode = "plain" /\ ~so.first /\ RowsAhead(so) /\ ReturnedOnce
      /\ \A i \in 1..Len(out) : out[i].tid \in so.tids
  <2>1. mode = "plain" /\ ~so.first BY <1>1, InOuter
  <2> QED BY <2>1 DEF ScanInv, StateOK, RestOK, RowsOK, ScanState
<1>3. k \in 1..Len(so.data) /\ k \in so.cur + 1..Len(so.data) BY <1>1, <1>2
<1>4. h \in Returned /\ h.tid = r
  <2>1. so.data[k] \in Hit BY <1>2, <1>3
  <2> QED BY <2>1 DEF Hit, Returned
<1>5. r \in so.tids /\ \A i \in 1..Len(out) : out[i].tid # h.tid
  BY <1>2, <1>3 DEF RowsAhead
<1>6. /\ so' \in ScanState /\ so'.cur = k /\ so'.data = so.data /\ so'.first = so.first
      /\ so'.tids = so.tids /\ so'.queue = so.queue /\ so'.lsn = so.lsn
  <2>1. Remember \in SUBSET Nat /\ k \in Nat BY <1>2, RememberFacts
  <2>2. so' = [so EXCEPT !.killed = Remember, !.cur = k] BY <1>1
  <2> HIDE DEF k
  <2> QED BY <1>2, <2>1, <2>2 DEF ScanState
<1> HIDE DEF h
<1>7. /\ out' \in Seq(Returned) /\ Len(out') = Len(out) + 1 /\ Len(out) \in Nat /\ ReturnedOnce'
      /\ \A i \in 1..Len(out') : out'[i] = h \/ (i \in 1..Len(out) /\ out'[i] = out[i])
  BY <1>1, <1>2, <1>4, <1>5, AppendOnce
<1> HIDE DEF r, k
<1>8. \A i \in 1..Len(out') : out'[i].tid = r \/ \E j \in 1..Len(out) : out'[i].tid = out[j].tid
  BY <1>4, <1>7
<1>9. \A i \in 1..Len(out') : out'[i].tid \in so'.tids BY <1>2, <1>5, <1>6, <1>8
<1>10. RowsAhead(so)'
  <2>1. \A j \in so'.cur + 1..Len(so'.data) :
          j \in so.cur + 1..Len(so.data) /\ j # k /\ so'.data[j] = so.data[j]
    BY <1>2, <1>6 DEF k
  <2>2. \A j \in so'.cur + 1..Len(so'.data) :
          so.data[j].tid # r /\ so.data[j].tid \in so.tids
          /\ \A i \in 1..Len(out) : out[i].tid # so.data[j].tid
    BY <2>1, <1>2, <1>3 DEF RowsAhead, r
  <2>3. \A j \in so'.cur + 1..Len(so'.data) : \A i \in 1..Len(out') :
          out'[i].tid # so.data[j].tid
    BY <2>2, <1>8
  <2>4. \A i, j \in so'.cur + 1..Len(so'.data) :
          so'.data[i].tid = so'.data[j].tid => i = j
    BY <2>1, <1>2 DEF RowsAhead
  <2> QED BY <2>1, <2>2, <2>3, <2>4, <1>6 DEF RowsAhead
<1>11. RowsOK' BY <1>7, <1>9, <1>10 DEF RowsOK
<1>12. RestOK' BY <1>1, <1>7 DEF ScanInv, RestOK
<1>13. GoodIndex(pages', lsn') /\ StateOK'
  <2>1. k <= Len(so.data) BY <1>3
  <2> QED BY <2>1, <1>1, <1>2, <1>6 DEF ScanInv, StateOK
<1>14. StageOK' BY <1>1, <1>2, <1>6 DEF StageOK
<1> QED BY <1>11, <1>12, <1>13, <1>14 DEF ScanInv

\* The rows of a page have been returned.
LEMMA PageDoneKeeps == ASSUME ScanInv, PageDone PROVE ScanInv'
<1>1. /\ pages' = pages /\ lsn' = lsn /\ tid' = tid /\ pend' = pend /\ writes' = writes
      /\ mode' = mode /\ kill' = kill /\ snap' = snap /\ out' = out /\ rescans' = rescans
      /\ pc' = "inner" /\ so' = [so EXCEPT !.killed = Remember] /\ InLoop("outer")
  BY DEF PageDone, indexVars
<1>2. mode = "plain" /\ ~so.first BY <1>1, InOuter
<1>3. /\ so' \in ScanState /\ so'.cur = so.cur /\ so'.data = so.data /\ so'.first = so.first
      /\ so'.tids = so.tids /\ so'.queue = so.queue /\ so'.lsn = so.lsn
  <2>1. Remember \in SUBSET Nat BY RememberFacts
  <2>2. so \in ScanState BY DEF ScanInv, StateOK
  <2> QED BY <1>1, <2>1, <2>2 DEF ScanState
<1>4. RestOK' /\ GoodIndex(pages', lsn') BY <1>1 DEF ScanInv, RestOK
<1>5. StateOK' BY <1>1, <1>3 DEF ScanInv, StateOK
<1>6. StageOK' BY <1>1, <1>2, <1>3 DEF StageOK
<1>7. RowsOK' BY <1>1, <1>3 DEF ScanInv, RowsOK, RowsAhead, ReturnedOnce
<1> QED BY <1>4, <1>5, <1>6, <1>7 DEF ScanInv

\* Entries are flagged: only flags of one page change, and only for tuples it has.
LEMMA KillItemsFacts ==
  ASSUME ScanInv, KillItems
  PROVE  /\ GoodIndex(pages', lsn') /\ lsn' = lsn /\ tid' = tid
         /\ so.blk \in Blocks
         /\ \A b \in Blocks :
              /\ pages'[b].type = pages[b].type /\ pages'[b].items = pages[b].items
              /\ pages'[b].lsn = pages[b].lsn
              /\ pages'[b].dead = IF b = so.blk /\ pages[b].lsn = so.lsn
                                  THEN pages[b].dead \cup (so.killed \cap DOMAIN pages[b].items)
                                  ELSE pages[b].dead
<1> DEFINE b == so.blk
           dead == pages[b].dead \cup (so.killed \cap DOMAIN pages[b].items)
           new == [pages EXCEPT ![b].dead = dead]
           pg == [pages[b] EXCEPT !.dead = dead]
<1>1. /\ lsn' = lsn /\ tid' = tid /\ b # NoBlock
      /\ pages' = IF pages[b].lsn # so.lsn THEN pages ELSE new
  BY DEF KillItems, KillPending
<1>2. /\ GoodIndex(pages, lsn) /\ so \in ScanState /\ lsn \in Nat /\ pages \in [Blocks -> Page]
      /\ lsn >= lsn
  BY DEF ScanInv, StateOK, GoodIndex
<1>3. b \in Blocks BY <1>1, <1>2 DEF ScanState
<1>4. pages[b] \in Page /\ LocalOK(pages, lsn, b) /\ pages[b].items \in Seq(Entries)
  BY <1>2, <1>3, PageFacts
<1>5. dead \in SUBSET Nat /\ dead \subseteq DOMAIN pages[b].items
  <2>1. pages[b].dead \in SUBSET Nat /\ pages[b].dead \subseteq DOMAIN pages[b].items
    BY <1>4 DEF Page, LocalOK
  <2>2. DOMAIN pages[b].items \in SUBSET Nat BY <1>4
  <2> QED BY <2>1, <2>2
<1>6. CASE pages[b].lsn # so.lsn
  <2>1. pages' = pages BY <1>1, <1>6
  <2> QED BY <2>1, <1>1, <1>2, <1>3, <1>6
<1>7. CASE pages[b].lsn = so.lsn
  <2>1. pages' = new BY <1>1, <1>7
  <2>2. /\ pg \in Page /\ pg.type = pages[b].type /\ pg.items = pages[b].items
        /\ pg.links = pages[b].links /\ pg.right = pages[b].right /\ pg.nsn = pages[b].nsn
        /\ pg.lsn = pages[b].lsn /\ pg.follow = pages[b].follow /\ pg.dead = dead
    <3> HIDE DEF dead
    <3> QED BY <1>4, <1>5 DEF Page
  <2>3. new = [pages EXCEPT ![b] = pg] BY <1>2, <1>3
  <2> HIDE DEF pg, new, b
  <2>4. new \in [Blocks -> Page] /\ new[b] = pg /\ \A x \in Blocks \ {b} : new[x] = pages[x]
    BY <1>2, <1>3, <2>2, <2>3
  <2> HIDE DEF dead
  <2>5. \A x \in Blocks :
          /\ new[x].type = pages[x].type /\ new[x].items = pages[x].items
          /\ new[x].links = pages[x].links /\ new[x].right = pages[x].right
          /\ new[x].lsn = pages[x].lsn /\ new[x].follow = pages[x].follow
          /\ new[x].dead = IF x = b THEN dead ELSE pages[x].dead
    BY <2>2, <2>4
  <2>6. LocalOK(new, lsn, b)
    <3>1. \A k \in pages[b].links : k.blk \in Blocks /\ pages[k.blk].type # "new"
      BY <1>4 DEF LocalOK, Page, Link
    <3>2. \A k \in pages[b].links : new[k.blk].type # "new" BY <3>1, <2>5
    <3>3. pages[b].right # NoBlock => new[pages[b].right].type # "new"
      BY <1>4, <2>5 DEF LocalOK, Page
    <3> QED BY <3>2, <3>3, <1>3, <1>4, <1>5, <2>5 DEF LocalOK
  <2>7. Root \in Blocks BY BlocksAssumption
  <2>8. /\ new[Root].type \in {"leaf", "inner"} /\ ~new[Root].follow
        /\ new[Root].type = "leaf" => \A x \in Blocks \ {Root} : new[x].type = "new"
        /\ \A x \in Blocks : pages[x].type # "new" => new[x].type # "new"
    BY <1>2, <2>5, <2>7 DEF GoodIndex
  <2>9. ASSUME NEW x \in Blocks, new[x].follow
        PROVE  new[x].right # NoBlock /\ \E k \in new[Root].links : k.blk = x
    <3>1. pages[x].right # NoBlock /\ \E k \in pages[Root].links : k.blk = x
      BY <2>5, <2>9, <1>2, PageFacts
    <3> QED BY <3>1, <2>5, <2>7
  <2>10. \A x \in Blocks : new[x] = pages[x] \/ LocalOK(new, lsn, x) BY <2>4, <2>6
  <2>11. GoodIndex(new, lsn) BY <1>2, <2>4, <2>8, <2>9, <2>10, IndexStep
  <2>12. GoodIndex(pages', lsn') BY <2>1, <2>11, <1>1
  <2>13. ASSUME NEW x \in Blocks
         PROVE  /\ pages'[x].type = pages[x].type /\ pages'[x].items = pages[x].items
                /\ pages'[x].lsn = pages[x].lsn
                /\ pages'[x].dead = IF x = b THEN dead ELSE pages[x].dead
    BY <2>1, <2>5
  <2>14. \A x \in Blocks :
           (IF x = b THEN dead ELSE pages[x].dead) =
           IF x = so.blk /\ pages[x].lsn = so.lsn
           THEN pages[x].dead \cup (so.killed \cap DOMAIN pages[x].items)
           ELSE pages[x].dead
    BY <1>7 DEF b, dead
  <2>15. \A x \in Blocks :
           /\ pages'[x].type = pages[x].type /\ pages'[x].items = pages[x].items
           /\ pages'[x].lsn = pages[x].lsn
           /\ pages'[x].dead = IF x = so.blk /\ pages[x].lsn = so.lsn
                               THEN pages[x].dead \cup (so.killed \cap DOMAIN pages[x].items)
                               ELSE pages[x].dead
    BY <2>13, <2>14
  <2> QED BY <2>12, <2>15, <1>1, <1>3 DEF b
<1> QED BY <1>6, <1>7

LEMMA KillItemsKeeps == ASSUME ScanInv, KillItems PROVE ScanInv'
<1>1. /\ lsn' = lsn /\ tid' = tid /\ pend' = pend /\ writes' = writes /\ pc' = pc
      /\ mode' = mode /\ kill' = kill /\ snap' = snap /\ out' = out /\ rescans' = rescans
      /\ pc = "inner" /\ so' = [so EXCEPT !.killed = {}]
  BY DEF KillItems
<1>2. GoodIndex(pages', lsn') /\ \A b \in Blocks : pages'[b].type = pages[b].type
  BY KillItemsFacts
<1>3. /\ so' \in ScanState /\ so'.cur = so.cur /\ so'.data = so.data /\ so'.first = so.first
      /\ so'.tids = so.tids /\ so'.queue = so.queue /\ so'.lsn = so.lsn
      /\ so.queue \in SUBSET QueueItem
  <2>1. so \in ScanState BY DEF ScanInv, StateOK
  <2> QED BY <1>1, <2>1 DEF ScanState
<1>4. RestOK' BY <1>1 DEF ScanInv, RestOK
<1>5. StateOK'
  <2>1. \A i \in so.queue : i.blk \in Blocks BY <1>3 DEF QueueItem
  <2> QED BY <2>1, <1>1, <1>2, <1>3 DEF ScanInv, StateOK, Reachable
<1>6. StageOK' BY <1>1, <1>3 DEF ScanInv, StageOK
<1>7. RowsOK' BY <1>1, <1>3 DEF ScanInv, RowsOK, RowsAhead, ReturnedOnce
<1> QED BY <1>2, <1>4, <1>5, <1>6, <1>7 DEF ScanInv

\* The next page of a plain scan.
LEMMA NextPageKeeps ==
  ASSUME ScanInv, NextPage
  PROVE  /\ ScanInv' /\ mode = "plain" /\ ~so.first
         /\ pages' = pages /\ lsn' = lsn /\ tid' = tid /\ mode' = mode /\ kill' = kill
         /\ so.blk = NoBlock \/ so.killed = {}
         /\ \E i \in so.queue : i.blk \in Blocks /\ ReadOK(i, [so EXCEPT !.blk = i.blk], so')
<1>1. /\ UNCHANGED <<indexVars, mode, out>> /\ kill' = kill /\ snap' = snap /\ rescans' = rescans
      /\ pc = "inner" /\ pc' \in {"inner", "outer"} /\ ~KillPending
  BY DEF NextPage
<1>2. pages' = pages /\ lsn' = lsn /\ tid' = tid /\ pend' = pend /\ writes' = writes
      /\ mode' = mode /\ out' = out
  BY <1>1 DEF indexVars
<1>3. PICK i \in so.queue : so' \in Scanned(i, [so EXCEPT !.blk = i.blk]) BY DEF NextPage
<1> DEFINE s == [so EXCEPT !.blk = i.blk]
<1>4. /\ so \in ScanState /\ so.queue \in SUBSET QueueItem /\ Reachable(so.queue, pages)
      /\ so.lsn <= lsn /\ so.cur <= Len(so.data) /\ mode = "plain" /\ ~so.first
      /\ RowsAhead(so) /\ \A j \in 1..Len(out) : out[j].tid \in so.tids
  BY <1>1 DEF ScanInv, StateOK, StageOK, RowsOK, ScanState
<1>5. i \in QueueItem /\ i.blk \in Blocks /\ pages[i.blk].type # "new"
  BY <1>4 DEF Reachable, QueueItem
<1>6. /\ s \in ScanState /\ s.queue = so.queue /\ s.first = so.first /\ s.data = so.data
      /\ s.cur = so.cur /\ s.lsn = so.lsn /\ s.tids = so.tids
  BY <1>4, <1>5 DEF ScanState
<1> HIDE DEF s
<1>7. RowsAhead(s) BY <1>4, <1>6 DEF RowsAhead
<1>8. ReadOK(i, s, so') /\ GoodIndex(pages', lsn') /\ StateOK' /\ RowsOK'
  <2>1. so' \in Scanned(i, s) BY <1>3 DEF s
  <2> QED BY <2>1, <1>1, <1>4, <1>5, <1>6, <1>7, AfterRead
<1>9. RestOK' BY <1>1, <1>2 DEF ScanInv, RestOK
<1>10. so'.first = so.first BY <1>6, <1>8 DEF ReadOK
<1>11. StageOK' BY <1>1, <1>2, <1>4, <1>10 DEF StageOK
<1>12. so.blk = NoBlock \/ so.killed = {} BY <1>1 DEF KillPending
<1>13. ScanInv' BY <1>8, <1>9, <1>11 DEF ScanInv
<1> QED BY <1>1, <1>2, <1>4, <1>5, <1>8, <1>12, <1>13 DEF s

\* A row is taken from the queue of an ordered scan.
LEMMA PopRowKeeps == ASSUME ScanInv, PopRow PROVE ScanInv'
<1>1. /\ pages' = pages /\ lsn' = lsn /\ tid' = tid /\ pend' = pend /\ writes' = writes
      /\ mode' = mode /\ kill' = kill /\ snap' = snap /\ rescans' = rescans
      /\ InLoop("nearest")
  BY DEF PopRow, indexVars
<1>2. PICK h \in so.heap :
        /\ so' = Popped(h)
        /\ \/ h.tid \in so.tids /\ pc' = "nearest" /\ out' = out
           \/ h.tid \notin so.tids /\ pc' = "client" /\ out' = Append(out, h)
  BY DEF PopRow
<1>3. /\ so \in ScanState /\ so.heap \in SUBSET Returned /\ out \in Seq(Returned)
      /\ mode = "ordered" /\ ~so.first /\ ReturnedOnce
      /\ \A i \in 1..Len(out) : out[i].tid \in so.tids
  <2>1. mode = "ordered" /\ ~so.first BY <1>1, InNearest
  <2> QED BY <2>1 DEF ScanInv, StateOK, RestOK, RowsOK, ScanState
<1>4. h \in Returned /\ h.tid \in Rows BY <1>2, <1>3 DEF Returned
<1>5. /\ so' \in ScanState /\ so'.queue = so.queue /\ so'.first = so.first
      /\ so'.tids = so.tids \cup {h.tid} /\ so'.data = so.data /\ so'.cur = so.cur
      /\ so'.lsn = so.lsn
  BY <1>2, <1>3, <1>4 DEF Popped, ScanState
<1>6. GoodIndex(pages', lsn') /\ StateOK' BY <1>1, <1>5 DEF ScanInv, StateOK
<1>7. /\ out' \in Seq(Returned) /\ ReturnedOnce' /\ \A i \in 1..Len(out') : out'[i].tid \in so'.tids
  <2>1. CASE h.tid \in so.tids
    <3>1. out' = out BY <2>1, <1>2
    <3> QED BY <3>1, <1>3, <1>5 DEF ReturnedOnce
  <2>2. CASE h.tid \notin so.tids
    <3>1. out' = Append(out, h) BY <2>2, <1>2
    <3>2. \A i \in 1..Len(out) : out[i].tid # h.tid BY <2>2, <1>3
    <3>3. /\ out' \in Seq(Returned) /\ ReturnedOnce'
          /\ \A i \in 1..Len(out') : out'[i] = h \/ (i \in 1..Len(out) /\ out'[i] = out[i])
      BY <1>3, <1>4, <3>1, <3>2, AppendOnce
    <3> QED BY <3>3, <1>3, <1>5
  <2> QED BY <2>1, <2>2
<1>8. RowsOK' BY <1>1, <1>3, <1>7 DEF RowsOK
<1>9. RestOK' BY <1>1, <1>7 DEF ScanInv, RestOK
<1>10. StageOK' BY <1>1, <1>2, <1>3, <1>5 DEF StageOK
<1> QED BY <1>6, <1>8, <1>9, <1>10 DEF ScanInv

\* A page is taken from the queue of an ordered scan.
LEMMA PopPageKeeps == ASSUME ScanInv, PopPage PROVE ScanInv'
<1>1. /\ UNCHANGED <<indexVars, mode, out>> /\ kill' = kill /\ snap' = snap /\ rescans' = rescans
      /\ pc' = "nearest" /\ InLoop("nearest") /\ \E i \in so.queue : so' \in Scanned(i, so)
  BY DEF PopPage
<1>2. pages' = pages /\ lsn' = lsn /\ tid' = tid /\ pend' = pend /\ writes' = writes
      /\ mode' = mode /\ out' = out
  BY <1>1 DEF indexVars
<1>3. PICK i \in so.queue : so' \in Scanned(i, so) BY <1>1
<1>4. /\ so \in ScanState /\ so.queue \in SUBSET QueueItem /\ Reachable(so.queue, pages)
      /\ so.lsn <= lsn /\ so.cur <= Len(so.data) /\ mode = "ordered" /\ ~so.first
      /\ \A j \in 1..Len(out) : out[j].tid \in so.tids
  <2>1. mode = "ordered" /\ ~so.first BY <1>1, InNearest
  <2> QED BY <2>1 DEF ScanInv, StateOK, RowsOK, ScanState
<1>5. i \in QueueItem /\ pages[i.blk].type # "new" BY <1>4 DEF Reachable
<1>6. ReadOK(i, so, so') /\ GoodIndex(pages', lsn') /\ StateOK' /\ RowsOK'
  BY <1>1, <1>3, <1>4, <1>5, AfterRead
<1>7. RestOK' BY <1>1, <1>2 DEF ScanInv, RestOK
<1>8. so'.first = so.first BY <1>6 DEF ReadOK
<1>9. StageOK' BY <1>1, <1>2, <1>4, <1>8 DEF StageOK
<1> QED BY <1>6, <1>7, <1>9 DEF ScanInv

\* A bitmap scan reads the root, or the next page.
LEMMA BitmapKeeps == ASSUME ScanInv, Bitmap PROVE ScanInv'
<1> DEFINE s == [so EXCEPT !.data = <<>>, !.cur = 0, !.tids = {}]
<1>1. /\ UNCHANGED <<indexVars, mode, out>> /\ kill' = kill /\ snap' = snap /\ rescans' = rescans
      /\ pc' = "bitmap" /\ mode = "bitmap" /\ so' \in Scanned(RootItem, s)
  BY DEF Bitmap
<1>2. pages' = pages /\ lsn' = lsn /\ tid' = tid /\ pend' = pend /\ writes' = writes
      /\ mode' = mode /\ out' = out
  BY <1>1 DEF indexVars
<1>3. /\ so \in ScanState /\ Reachable(so.queue, pages) /\ so.lsn <= lsn /\ so.first
      /\ out = <<>> /\ pages[Root].type # "new"
  BY <1>1 DEF ScanInv, StateOK, StageOK, GoodIndex
<1>4. /\ s \in ScanState /\ s.queue = so.queue /\ s.first = so.first /\ s.data = <<>> /\ s.cur = 0
      /\ s.lsn = so.lsn
  <2>1. <<>> \in Seq(Hit) OBVIOUS
  <2> QED BY <1>3, <2>1 DEF ScanState
<1>5. RootItem \in QueueItem /\ RootItem.blk = Root BY BlocksAssumption DEF RootItem, QueueItem
<1> HIDE DEF s
<1>6. Len(s.data) = 0 /\ Len(out) = 0 BY <1>3, <1>4
<1>7. ReadOK(RootItem, s, so') /\ GoodIndex(pages', lsn') /\ StateOK' /\ RowsOK'
  BY <1>1, <1>3, <1>4, <1>5, <1>6, AfterRead
<1>8. RestOK' BY <1>1, <1>2 DEF ScanInv, RestOK
<1>9. so'.first = so.first BY <1>4, <1>7 DEF ReadOK
<1>10. StageOK' BY <1>1, <1>2, <1>3, <1>9 DEF StageOK
<1> QED BY <1>7, <1>8, <1>10 DEF ScanInv

LEMMA BitmapPageKeeps == ASSUME ScanInv, BitmapPage PROVE ScanInv'
<1>1. /\ UNCHANGED <<indexVars, mode, out>> /\ kill' = kill /\ snap' = snap /\ rescans' = rescans
      /\ pc = "bitmap" /\ pc' = "bitmap" /\ \E i \in so.queue : so' \in Scanned(i, so)
  BY DEF BitmapPage
<1>2. pages' = pages /\ lsn' = lsn /\ tid' = tid /\ pend' = pend /\ writes' = writes
      /\ mode' = mode /\ out' = out
  BY <1>1 DEF indexVars
<1>3. PICK i \in so.queue : so' \in Scanned(i, so) BY <1>1
<1>4. /\ so \in ScanState /\ so.queue \in SUBSET QueueItem /\ Reachable(so.queue, pages)
      /\ so.lsn <= lsn /\ so.cur <= Len(so.data)
      /\ mode = "plain" /\ ~so.first => RowsAhead(so)
      /\ \A j \in 1..Len(out) : out[j].tid \in so.tids
  BY DEF ScanInv, StateOK, RowsOK, ScanState
<1>5. i \in QueueItem /\ pages[i.blk].type # "new" BY <1>4 DEF Reachable
<1>6. ReadOK(i, so, so') /\ GoodIndex(pages', lsn') /\ StateOK' /\ RowsOK'
  BY <1>1, <1>3, <1>4, <1>5, AfterRead
<1>7. RestOK' BY <1>1, <1>2 DEF ScanInv, RestOK
<1>8. so'.first = so.first BY <1>6 DEF ReadOK
<1>9. StageOK' BY <1>1, <1>2, <1>8 DEF ScanInv, StageOK
<1> QED BY <1>6, <1>7, <1>9 DEF ScanInv

\* The steps that only end the scan.
EndStep == NoMorePages \/ NoMoreItems \/ BitmapDone

LEMMA EndKeeps == ASSUME ScanInv, EndStep PROVE ScanInv'
<1>1. /\ UNCHANGED <<indexVars, mode, so, kill, snap, out, rescans>> /\ pc' = "done"
  BY DEF EndStep, NoMorePages, NoMoreItems, BitmapDone
<1>2. pages' = pages /\ lsn' = lsn /\ tid' = tid /\ pend' = pend /\ writes' = writes
      /\ mode' = mode /\ so' = so /\ kill' = kill /\ snap' = snap /\ out' = out
      /\ rescans' = rescans
  BY <1>1 DEF indexVars
<1>3. GoodIndex(pages', lsn') /\ RestOK' /\ StateOK' BY <1>2 DEF ScanInv, RestOK, StateOK
<1>4. StageOK' BY <1>1, <1>2 DEF ScanInv, StageOK
<1>5. RowsOK' BY <1>2 DEF ScanInv, RowsOK, RowsAhead, ReturnedOnce
<1> QED BY <1>3, <1>4, <1>5 DEF ScanInv

\* The invariant is inductive.
LEMMA ScanStep == ASSUME ScanInv, [Next]_vars PROVE ScanInv'
<1>1. CASE Others BY <1>1, OthersAre, RecordKeeps, HeapKeeps
<1>2. CASE \E m \in Modes : BeginScan(m) BY <1>2, BeginScanKeeps
<1>3. CASE Rescan BY <1>3, RescanKeeps
<1>4. CASE FirstCall BY <1>4, FirstCallKeeps
<1>5. CASE ReturnRow BY <1>5, ReturnRowKeeps
<1>6. CASE PageDone BY <1>6, PageDoneKeeps
<1>7. CASE KillItems BY <1>7, KillItemsKeeps
<1>8. CASE NextPage BY <1>8, NextPageKeeps
<1>9. CASE PopRow BY <1>9, PopRowKeeps
<1>10. CASE PopPage BY <1>10, PopPageKeeps
<1>11. CASE Bitmap BY <1>11, BitmapKeeps
<1>12. CASE BitmapPage BY <1>12, BitmapPageKeeps
<1>13. CASE NoMorePages \/ NoMoreItems \/ BitmapDone BY <1>13, EndKeeps DEF EndStep
<1>14. CASE UNCHANGED vars
  <2>1. pages' = pages /\ lsn' = lsn /\ tid' = tid /\ pend' = pend /\ writes' = writes
        /\ pc' = pc /\ mode' = mode /\ so' = so /\ kill' = kill /\ snap' = snap /\ out' = out
        /\ rescans' = rescans
    BY <1>14 DEF vars, indexVars, scanVars
  <2> QED BY <2>1 DEF ScanInv, RestOK, StateOK, StageOK, RowsOK, RowsAhead, ReturnedOnce
<1> QED
  BY <1>1, <1>2, <1>3, <1>4, <1>5, <1>6, <1>7, <1>8, <1>9, <1>10, <1>11, <1>12, <1>13, <1>14
  DEF Next, GetTuple

\* In every state the private state of the scan is well formed, and the position of a
\* plain scan lies within the page data (mgistgettuple, mgistScanPage).
THEOREM ScanTypes == Spec => []TypeOK
<1>1. Init => ScanInv BY ScanInit
<1>2. ScanInv /\ [Next]_vars => ScanInv' BY ScanStep
<1>3. ScanInv => TypeOK BY ScanInvMeans
<1> QED BY <1>1, <1>2, <1>3, PTL DEF Spec

\* No row is returned twice: whatever the other backends do to the index meanwhile, the
\* table of rows (tidtable) stops its second entry in mgistScanPage and
\* getNextMENearest.
THEOREM RowsReturnedOnce == Spec => []ReturnedOnce
<1>1. Init => ScanInv BY ScanInit
<1>2. ScanInv /\ [Next]_vars => ScanInv' BY ScanStep
<1>3. ScanInv => ReturnedOnce BY ScanInvMeans
<1> QED BY <1>1, <1>2, <1>3, PTL DEF Spec

(***************************************************************************)
(* Killed items.                                                           *)
(***************************************************************************)
\* The page the scan is going to flag tuples on still is as the scan read it.
Fresh == so.blk # NoBlock /\ pages[so.blk].lsn = so.lsn

\* Before the first call nothing is remembered.
NothingYet ==
  so.first => /\ so.queue = {} /\ so.data = <<>> /\ so.killed = {} /\ so.blk = NoBlock
              /\ kill = FALSE

\* Rows or offsets remembered without a block come from a root that is a leaf: there is
\* no next page, and nothing will be flagged.
NoBlockLast ==
  so.blk = NoBlock /\ ~so.first /\ (so.killed # {} \/ so.data # <<>>) => so.queue = {}

\* On a fresh page the offsets that are remembered are those of dead rows, the page data
\* says which rows have a tuple where, and the row to be remembered next is dead.
FreshData ==
  Fresh =>
    LET items == pages[so.blk].items IN
    /\ \A o \in so.killed : o \in DOMAIN items => tid[RowOf[items[o]]] = "dead"
    /\ \A k \in 1..Len(so.data) :
         so.data[k].off \in DOMAIN items => RowOf[items[so.data[k].off]] = so.data[k].tid
    /\ kill /\ so.cur > 0 /\ so.data[so.cur].off \in DOMAIN items =>
         tid[so.data[so.cur].tid] = "dead"

AllFlagsDead == \A b \in Blocks : FlagsDead(pages, b)

KillInv ==
  AllFlagsDead /\ (mode = "plain" => NothingYet /\ NoBlockLast /\ FreshData)

\* The row of a tuple that is on a page stays dead as long as it is there.
LEMMA DeadStays ==
  ASSUME ScanInv, NEW r \in Rows, HeapStep(r), NEW b \in Blocks, NEW o \in DOMAIN pages[b].items,
         tid[RowOf[pages[b].items[o]]] = "dead"
  PROVE  tid'[RowOf[pages[b].items[o]]] = "dead"
<1> DEFINE q == RowOf[pages[b].items[o]]
<1>1. tid \in [Rows -> {"free", "live", "dead"}] BY DEF ScanInv, RestOK
<1>2. q \in Rows
  <2>1. pages[b].items \in Seq(Entries) BY PageFacts DEF ScanInv
  <2> QED BY <2>1, EntriesAssumption
<1>3. CASE NewRow(r) BY <1>1, <1>2, <1>3 DEF NewRow
<1>4. CASE RowDies(r) BY <1>1, <1>2, <1>4 DEF RowDies
<1>5. CASE FreeTid(r)
  <2>1. q # r BY <1>5 DEF FreeTid
  <2> QED BY <1>1, <1>2, <1>5, <2>1 DEF FreeTid
<1> QED BY <1>3, <1>4, <1>5 DEF HeapStep

LEMMA HeapKill == ASSUME ScanInv, KillInv, NEW r \in Rows, HeapStep(r) PROVE KillInv'
<1>1. /\ pages' = pages /\ UNCHANGED scanVars
  BY DEF HeapStep, NewRow, RowDies, FreeTid
<1>2. mode' = mode /\ so' = so /\ kill' = kill BY <1>1 DEF scanVars
<1>3. AllFlagsDead'
  <2> SUFFICES ASSUME NEW b \in Blocks, NEW o \in pages[b].dead
               PROVE  tid'[RowOf[pages[b].items[o]]] = "dead"
    BY <1>1 DEF AllFlagsDead, FlagsDead
  <2>1. o \in DOMAIN pages[b].items BY PageFacts DEF ScanInv
  <2>2. tid[RowOf[pages[b].items[o]]] = "dead" BY DEF KillInv, AllFlagsDead, FlagsDead
  <2> QED BY <2>1, <2>2, DeadStays
<1>4. ASSUME mode = "plain" PROVE FreshData'
  <2> DEFINE b == so.blk
             items == pages[b].items
  <2> SUFFICES ASSUME Fresh
               PROVE  /\ \A o \in so.killed : o \in DOMAIN items =>
                           tid'[RowOf[items[o]]] = "dead"
                      /\ \A k \in 1..Len(so.data) : so.data[k].off \in DOMAIN items =>
                           RowOf[items[so.data[k].off]] = so.data[k].tid
                      /\ kill /\ so.cur > 0 /\ so.data[so.cur].off \in DOMAIN items =>
                           tid'[so.data[so.cur].tid] = "dead"
    BY <1>1, <1>2 DEF FreshData, Fresh
  <2>1. b \in Blocks BY DEF Fresh, ScanInv, StateOK, ScanState
  <2>2. /\ \A o \in so.killed : o \in DOMAIN items => tid[RowOf[items[o]]] = "dead"
        /\ \A k \in 1..Len(so.data) : so.data[k].off \in DOMAIN items =>
             RowOf[items[so.data[k].off]] = so.data[k].tid
        /\ kill /\ so.cur > 0 /\ so.data[so.cur].off \in DOMAIN items =>
             tid[so.data[so.cur].tid] = "dead"
    BY <1>4 DEF KillInv, FreshData
  <2>3. so.cur > 0 => so.cur \in 1..Len(so.data)
    <3>1. so.cur \in Nat /\ so.data \in Seq(Hit) /\ so.cur <= Len(so.data)
      BY DEF ScanInv, StateOK, ScanState
    <3> QED BY <3>1
  <2>4. \A o \in DOMAIN items : tid[RowOf[items[o]]] = "dead" => tid'[RowOf[items[o]]] = "dead"
    BY <2>1, DeadStays
  <2> HIDE DEF items
  <2> QED BY <2>2, <2>3, <2>4
<1> QED BY <1>2, <1>3, <1>4 DEF KillInv, NothingYet, NoBlockLast

\* A record gives a page it changes an LSN the scan has not seen.
LEMMA RecordKill == ASSUME ScanInv, KillInv, RecordOK PROVE KillInv'
<1>1. tid' = tid /\ mode' = mode /\ so' = so /\ kill' = kill BY DEF RecordOK, scanVars
<1>2. \A b \in Blocks : \/ pages'[b] = pages[b]
                        \/ /\ pages'[b].lsn > lsn
                           /\ FlagsDead(pages, b) => FlagsDead(pages', b)
  BY DEF RecordOK
<1>3. AllFlagsDead'
  <2>1. \A b \in Blocks : FlagsDead(pages', b)
    BY <1>2 DEF KillInv, AllFlagsDead, FlagsDead
  <2> QED BY <1>1, <2>1 DEF AllFlagsDead, FlagsDead
<1>4. ASSUME Fresh' PROVE pages'[so.blk] = pages[so.blk] /\ Fresh
  <2>1. so.blk \in Blocks /\ so.lsn \in Nat /\ so.lsn <= lsn /\ lsn \in Nat
    BY <1>1, <1>4 DEF Fresh, ScanInv, StateOK, ScanState, GoodIndex
  <2>2. pages'[so.blk].lsn = so.lsn BY <1>1, <1>4 DEF Fresh
  <2>3. ~(pages'[so.blk].lsn > lsn) BY <2>1, <2>2
  <2>4. pages'[so.blk] = pages[so.blk] BY <1>2, <2>1, <2>3
  <2> QED BY <1>1, <1>4, <2>4 DEF Fresh
<1>5. (mode = "plain") => FreshData' BY <1>1, <1>4 DEF KillInv, FreshData
<1> QED BY <1>1, <1>3, <1>5 DEF KillInv, NothingYet, NoBlockLast

\* The flags do not change where the pages and the rows do not.
LEMMA SameFlags ==
  ASSUME KillInv, pages' = pages, tid' = tid
  PROVE  AllFlagsDead'
BY DEF KillInv, AllFlagsDead, FlagsDead

\* The first call: data without a block only if the root is a leaf.
LEMMA FirstCallKill == ASSUME ScanInv, KillInv, FirstCall PROVE KillInv'
<1> DEFINE s == [so EXCEPT !.first = FALSE, !.tids = {}, !.freed = {},
                           !.best = NoScan.best, !.data = <<>>, !.cur = 0]
           pg == pages[Root]
<1>1. /\ so.first /\ pages' = pages /\ tid' = tid /\ mode' = mode /\ kill' = kill
      /\ ReadOK(RootItem, s, so')
  BY FirstCallKeeps
<1>2. AllFlagsDead' BY <1>1, SameFlags
<1>3. ASSUME mode = "plain" PROVE NothingYet' /\ NoBlockLast' /\ FreshData'
  <2>1. so.queue = {} /\ so.killed = {} /\ so.blk = NoBlock
    BY <1>1, <1>3 DEF KillInv, NothingYet
  <2>2. s.queue = {} /\ s.killed = {} /\ s.blk = NoBlock /\ s.first = FALSE
    BY <2>1 DEF ScanInv, StateOK, ScanState
  <2>3. pg.type \in {"leaf", "inner"} BY DEF ScanInv, GoodIndex
  <2>4. RootItem.blk = Root /\ RightOf(RootItem) = {} BY DEF RootItem, RightOf
  <2> HIDE DEF s
  <2>5. /\ so'.killed = {} /\ so'.blk = NoBlock /\ so'.first = FALSE
        /\ pg.type = "leaf" => so'.queue = {}
        /\ pg.type = "inner" => so'.data = <<>>
    BY <1>1, <2>2, <2>4 DEF ReadOK
  <2> QED BY <2>3, <2>5 DEF NothingYet, NoBlockLast, FreshData, Fresh
<1> QED BY <1>1, <1>2, <1>3 DEF KillInv

\* What the scan remembers when it leaves a row.
LEMMA RememberDead ==
  ASSUME ScanInv, KillInv, mode = "plain", ~so.first
  PROVE  /\ Fresh => \A o \in Remember : o \in DOMAIN pages[so.blk].items =>
                       tid[RowOf[pages[so.blk].items[o]]] = "dead"
         /\ so.blk = NoBlock /\ (Remember # {} \/ so.data # <<>>) => so.queue = {}
<1>1. so.cur \in Nat /\ so.data \in Seq(Hit) /\ so.cur <= Len(so.data)
  BY DEF ScanInv, StateOK, ScanState
<1>2. so.cur > 0 => so.cur \in 1..Len(so.data) /\ so.data # <<>>
  <2>1. Len(so.data) \in Nat /\ (so.data = <<>> => Len(so.data) = 0) BY <1>1
  <2> QED BY <1>1, <2>1
<1>3. ASSUME NEW o \in Remember
      PROVE  o \in so.killed \/ (kill /\ so.cur > 0 /\ o = so.data[so.cur].off)
  BY DEF Remember
<1>4. ASSUME Fresh, NEW o \in Remember, o \in DOMAIN pages[so.blk].items
      PROVE  tid[RowOf[pages[so.blk].items[o]]] = "dead"
  <2>1. CASE o \in so.killed BY <2>1, <1>4 DEF KillInv, FreshData
  <2>2. CASE kill /\ so.cur > 0 /\ o = so.data[so.cur].off
    <3>1. /\ tid[so.data[so.cur].tid] = "dead"
          /\ RowOf[pages[so.blk].items[so.data[so.cur].off]] = so.data[so.cur].tid
      BY <2>2, <1>2, <1>4 DEF KillInv, FreshData
    <3> QED BY <3>1, <2>2
  <2> QED BY <2>1, <2>2, <1>3
<1>5. Remember # {} => so.killed # {} \/ so.data # <<>> BY <1>2, <1>3
<1> QED BY <1>4, <1>5 DEF KillInv, NoBlockLast

LEMMA ReturnRowKill == ASSUME ScanInv, KillInv, ReturnRow PROVE KillInv'
<1> DEFINE k == so.cur + 1
           r == so.data[k].tid
<1>1. /\ pages' = pages /\ tid' = tid /\ mode' = mode /\ so.cur < Len(so.data)
      /\ so' = [so EXCEPT !.killed = Remember, !.cur = @ + 1] /\ kill' = (tid[r] = "dead")
      /\ InLoop("outer")
  BY DEF ReturnRow, indexVars
<1>2. mode = "plain" /\ ~so.first BY <1>1, InOuter
<1>3. /\ so'.killed = Remember /\ so'.cur = k /\ so'.data = so.data /\ so'.queue = so.queue
      /\ so'.blk = so.blk /\ so'.lsn = so.lsn /\ so'.first = so.first
  BY <1>1 DEF ScanInv, StateOK, ScanState
<1>4. AllFlagsDead' BY <1>1, SameFlags
<1>5. NothingYet' BY <1>2, <1>3 DEF NothingYet
<1>6. NoBlockLast' BY <1>2, <1>3, RememberDead DEF NoBlockLast
<1>7. FreshData'
  <2> SUFFICES ASSUME Fresh'
               PROVE  LET items == pages[so.blk].items IN
                      /\ \A o \in Remember : o \in DOMAIN items => tid[RowOf[items[o]]] = "dead"
                      /\ \A j \in 1..Len(so.data) : so.data[j].off \in DOMAIN items =>
                           RowOf[items[so.data[j].off]] = so.data[j].tid
                      /\ kill' => tid[so.data[k].tid] = "dead"
    BY <1>1, <1>3 DEF FreshData
  <2>1. Fresh BY <1>1, <1>3 DEF Fresh
  <2> QED BY <2>1, <1>1, <1>2, RememberDead DEF KillInv, FreshData
<1> QED BY <1>4, <1>5, <1>6, <1>7 DEF KillInv

LEMMA PageDoneKill == ASSUME ScanInv, KillInv, PageDone PROVE KillInv'
<1>1. /\ pages' = pages /\ tid' = tid /\ mode' = mode /\ kill' = kill
      /\ so' = [so EXCEPT !.killed = Remember] /\ InLoop("outer")
  BY DEF PageDone, indexVars
<1>2. mode = "plain" /\ ~so.first BY <1>1, InOuter
<1>3. /\ so'.killed = Remember /\ so'.cur = so.cur /\ so'.data = so.data /\ so'.queue = so.queue
      /\ so'.blk = so.blk /\ so'.lsn = so.lsn /\ so'.first = so.first
  BY <1>1 DEF ScanInv, StateOK, ScanState
<1>4. AllFlagsDead' BY <1>1, SameFlags
<1>5. NothingYet' BY <1>2, <1>3 DEF NothingYet
<1>6. NoBlockLast' BY <1>2, <1>3, RememberDead DEF NoBlockLast
<1>7. FreshData'
  <2>1. Fresh' => Fresh BY <1>1, <1>3 DEF Fresh
  <2> QED BY <2>1, <1>1, <1>2, <1>3, RememberDead DEF KillInv, FreshData
<1> QED BY <1>4, <1>5, <1>6, <1>7 DEF KillInv

\* The flags are set on a fresh page only, where the offsets are those of dead rows.
LEMMA KillItemsKill == ASSUME ScanInv, KillInv, KillItems PROVE KillInv'
<1>1. /\ tid' = tid /\ mode' = mode /\ kill' = kill /\ so' = [so EXCEPT !.killed = {}]
      /\ so.blk # NoBlock /\ pc = "inner"
  BY DEF KillItems, KillPending
<1>2. mode = "plain" /\ ~so.first BY <1>1 DEF ScanInv, StageOK
<1>3. /\ so'.killed = {} /\ so'.cur = so.cur /\ so'.data = so.data /\ so'.queue = so.queue
      /\ so'.blk = so.blk /\ so'.lsn = so.lsn /\ so'.first = so.first
  BY <1>1 DEF ScanInv, StateOK, ScanState
<1>4. /\ so.blk \in Blocks
      /\ \A b \in Blocks :
              /\ pages'[b].items = pages[b].items /\ pages'[b].lsn = pages[b].lsn
              /\ pages'[b].dead = IF b = so.blk /\ pages[b].lsn = so.lsn
                                  THEN pages[b].dead \cup (so.killed \cap DOMAIN pages[b].items)
                                  ELSE pages[b].dead
  BY KillItemsFacts
<1>5. AllFlagsDead'
  <2> SUFFICES ASSUME NEW b \in Blocks, NEW o \in pages'[b].dead
               PROVE  tid[RowOf[pages[b].items[o]]] = "dead"
    BY <1>1, <1>4 DEF AllFlagsDead, FlagsDead
  <2>1. CASE o \in pages[b].dead BY <2>1 DEF KillInv, AllFlagsDead, FlagsDead
  <2>2. CASE o \notin pages[b].dead
    <3>1. b = so.blk /\ pages[b].lsn = so.lsn /\ o \in so.killed /\ o \in DOMAIN pages[b].items
      BY <2>2, <1>4
    <3> QED BY <3>1, <1>1, <1>2 DEF KillInv, FreshData, Fresh
  <2> QED BY <2>1, <2>2
<1>6. NothingYet' BY <1>2, <1>3 DEF NothingYet
<1>7. NoBlockLast' BY <1>1, <1>3 DEF NoBlockLast
<1>8. FreshData'
  <2>1. Fresh' => Fresh BY <1>1, <1>3, <1>4 DEF Fresh
  <2> QED BY <2>1, <1>1, <1>2, <1>3, <1>4 DEF KillInv, FreshData
<1> QED BY <1>5, <1>6, <1>7, <1>8 DEF KillInv

\* The next page: nothing is remembered any more, and the page data is that of the page,
\* unless the page was deleted and has no tuples.
LEMMA NextPageKill == ASSUME ScanInv, KillInv, NextPage PROVE KillInv'
<1>1. /\ mode = "plain" /\ ~so.first
      /\ pages' = pages /\ tid' = tid /\ mode' = mode /\ kill' = kill
      /\ so.blk = NoBlock \/ so.killed = {}
  BY NextPageKeeps
<1>2. PICK i \in so.queue : i.blk \in Blocks /\ ReadOK(i, [so EXCEPT !.blk = i.blk], so')
  BY NextPageKeeps
<1> DEFINE s == [so EXCEPT !.blk = i.blk]
           pg == pages[i.blk]
<1>3. so.killed = {} BY <1>1, <1>2 DEF KillInv, NoBlockLast
<1>4. s.blk = i.blk /\ s.killed = so.killed /\ s.first = so.first
  BY DEF ScanInv, StateOK, ScanState
<1> HIDE DEF s
<1>5. /\ so'.blk = i.blk /\ so'.killed = {} /\ so'.first = so.first
      /\ pg.type # "deleted" => /\ so'.cur = 0
                                /\ \A k \in 1..Len(so'.data) :
                                     so'.data[k].tid = RowOf[pg.items[so'.data[k].off]]
  BY <1>2, <1>3, <1>4 DEF ReadOK, s
<1>6. pg.type = "deleted" => DOMAIN pg.items = {}
  BY <1>2 DEF ScanInv, GoodIndex, PageOK
<1>7. AllFlagsDead' BY <1>1, SameFlags
<1>8. NothingYet' BY <1>1, <1>5 DEF NothingYet
<1>9. NoBlockLast'
  <2>1. i.blk # NoBlock BY <1>2, BlocksAssumption
  <2> QED BY <2>1, <1>5 DEF NoBlockLast
<1>10. FreshData'
  <2>1. CASE pg.type = "deleted" BY <2>1, <1>1, <1>5, <1>6 DEF FreshData
  <2>2. CASE pg.type # "deleted"
    <3>1. so'.cur = 0 BY <2>2, <1>5
    <3>2. ~(so'.cur > 0) BY <3>1
    <3> QED BY <2>2, <3>2, <1>1, <1>5 DEF FreshData
  <2> QED BY <2>1, <2>2
<1> QED BY <1>7, <1>8, <1>9, <1>10 DEF KillInv

\* The steps of the other kinds of scan, and the end of a scan.
LEMMA OtherKill ==
  ASSUME ScanInv, KillInv, PopRow \/ PopPage \/ Bitmap \/ BitmapPage \/ EndStep
  PROVE  KillInv'
<1>1. pages' = pages /\ tid' = tid /\ mode' = mode
  BY DEF PopRow, PopPage, Bitmap, BitmapPage, EndStep, NoMorePages, NoMoreItems, BitmapDone,
         indexVars
<1>2. AllFlagsDead' BY <1>1, SameFlags
<1>3. CASE EndStep
  <2>1. so' = so /\ kill' = kill
    BY <1>3 DEF EndStep, NoMorePages, NoMoreItems, BitmapDone
  <2> QED BY <1>1, <1>2, <2>1 DEF KillInv, NothingYet, NoBlockLast, FreshData, Fresh
<1>4. CASE PopRow \/ PopPage \/ Bitmap \/ BitmapPage
  <2>1. (PopRow \/ PopPage) => InLoop("nearest") BY DEF PopRow, PopPage
  <2>2. Bitmap => mode = "bitmap" BY DEF Bitmap
  <2>3. BitmapPage => pc = "bitmap" BY DEF BitmapPage
  <2>4. pc = "bitmap" => mode = "bitmap" BY DEF ScanInv, StageOK
  <2>5. mode # "plain" BY <1>4, <2>1, <2>2, <2>3, <2>4, InNearest
  <2> QED BY <1>1, <1>2, <2>5 DEF KillInv
<1> QED BY <1>3, <1>4

LEMMA KillInit == ASSUME Init PROVE KillInv
<1>1. so = NoScan /\ kill = FALSE BY DEF Init
<1>2. \A b \in Blocks : pages[b].dead = {}
  <2>1. PICK t \in InitIndexes :
          pages = [b \in Blocks |->
            IF b \in DOMAIN t.leaves THEN Leaf(t.leaves[b], NoBlock, 0, BuildLSN, FALSE)
            ELSE IF b = Root
            THEN Inner({LinkTo(c, t.leaves[c]) : c \in DOMAIN t.leaves}, BuildLSN)
            ELSE EmptyPage]
    BY DEF Init
  <2>2. \A b \in Blocks : Leaf(t.leaves[b], NoBlock, 0, BuildLSN, FALSE).dead = {}
    BY DEF Leaf, EmptyPage
  <2>3. Inner({LinkTo(c, t.leaves[c]) : c \in DOMAIN t.leaves}, BuildLSN).dead = {}
    BY DEF Inner, EmptyPage
  <2>4. EmptyPage.dead = {} BY DEF EmptyPage
  <2> QED BY <2>1, <2>2, <2>3, <2>4
<1>3. AllFlagsDead BY <1>2 DEF AllFlagsDead, FlagsDead
<1> QED BY <1>1, <1>3, NoScanFacts DEF KillInv, NothingYet, NoBlockLast, FreshData, Fresh

LEMMA KillStep ==
  ASSUME MaxRescans["plain"] = 0, ScanInv, KillInv, [Next]_vars
  PROVE  KillInv'
<1>1. CASE Others BY <1>1, OthersAre, RecordKill, HeapKill
<1>2. CASE \E m \in Modes : BeginScan(m)
  <2>1. pages' = pages /\ tid' = tid /\ so' = so /\ kill' = kill /\ pc = "none"
    BY <1>2 DEF BeginScan, indexVars
  <2>2. so = NoScan /\ kill = FALSE BY <2>1 DEF ScanInv, StageOK
  <2>3. AllFlagsDead' BY <2>1, SameFlags
  <2> QED BY <2>1, <2>2, <2>3, NoScanFacts
      DEF KillInv, NothingYet, NoBlockLast, FreshData, Fresh
<1>3. CASE Rescan
  <2>1. pages' = pages /\ tid' = tid /\ mode' = mode /\ rescans < MaxRescans[mode]
    BY <1>3 DEF Rescan, indexVars
  <2>2. rescans \in Nat BY DEF ScanInv, RestOK
  <2>3. mode # "plain" BY <2>1, <2>2
  <2>4. AllFlagsDead' BY <2>1, SameFlags
  <2> QED BY <2>1, <2>3, <2>4 DEF KillInv
<1>4. CASE FirstCall BY <1>4, FirstCallKill
<1>5. CASE ReturnRow BY <1>5, ReturnRowKill
<1>6. CASE PageDone BY <1>6, PageDoneKill
<1>7. CASE KillItems BY <1>7, KillItemsKill
<1>8. CASE NextPage BY <1>8, NextPageKill
<1>9. CASE PopRow \/ PopPage \/ Bitmap \/ BitmapPage \/ EndStep BY <1>9, OtherKill
<1>10. CASE UNCHANGED vars
  <2>1. pages' = pages /\ tid' = tid /\ mode' = mode /\ so' = so /\ kill' = kill
    BY <1>10 DEF vars, indexVars, scanVars
  <2> QED BY <2>1 DEF KillInv, AllFlagsDead, FlagsDead, NothingYet, NoBlockLast, FreshData, Fresh
<1> QED BY <1>1, <1>2, <1>3, <1>4, <1>5, <1>6, <1>7, <1>8, <1>9, <1>10
    DEF Next, GetTuple, EndStep

\* A scan that is not restarted flags no index tuple of a row that is alive: on a page
\* whose LSN is the one the scan read (mgistkillitems) the offsets it remembers still are
\* those of the dead rows it returned.
THEOREM DeadTuplesFlagged ==
  ASSUME MaxRescans["plain"] = 0
  PROVE  Spec => []OnlyDeadKilled
<1>1. Init => ScanInv /\ KillInv BY ScanInit, KillInit
<1>2. ScanInv /\ KillInv /\ [Next]_vars => ScanInv' /\ KillInv' BY ScanStep, KillStep
<1>3. KillInv => OnlyDeadKilled BY DEF KillInv, AllFlagsDead, FlagsDead, OnlyDeadKilled
<1> QED BY <1>1, <1>2, <1>3, PTL DEF Spec
=============================================================================
