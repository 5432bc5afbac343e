----------------------------- MODULE MGistScan -----------------------------
(***************************************************************************)
(* One index scan of a backend (src/src/mgist/mgistget.c, mgistscan.c): a  *)
(* plain scan that returns a row once although several of its entries      *)
(* match and that marks index tuples of dead rows LP_DEAD, an ordered      *)
(* (nearest neighbour) scan, and a bitmap scan, each possibly restarted,   *)
(* while other backends insert, split, prune, vacuum and delete pages.     *)
(*                                                                         *)
(* MGistTree models those writers; here each of their WAL records is one   *)
(* step on a tree of at most two levels.  What MGistTree abstracts away is *)
(* the subject: line pointers (the kill hints name offsets), page LSNs,    *)
(* row identifiers that die and are used again, and the private state of   *)
(* the scan, the record "so" (MGISTScanOpaqueData).                        *)
(***************************************************************************)
EXTENDS Integers, Sequences, FiniteSets

CONSTANTS
  Blocks,      \* block numbers, a set of naturals holding 0
  Rows,        \* heap rows (TIDs)
  Entries,     \* index entries of all rows
  RowOf,       \* entry -> row
  Dist,        \* entry -> its distance from the ORDER BY argument
  Quals,       \* scan keys
  Sat,         \* scan key -> entries its consistent function accepts
  QualsIn,     \* scan mode -> the scan keys given to a scan of this mode
  Cap,         \* index tuples that fit on a leaf
  MaxRescans,  \* bound: scan mode -> restarts of the scan
  InitIndexes, \* the indexes a behaviour may start from; bound: writes, the WAL
               \* records the other backends write to them
  NoBlock      \* InvalidBlockNumber

Modes == {"plain", "ordered", "bitmap"}
Root == 0
EntriesOf(r) == {e \in Entries : RowOf[e] = r}
Least(S) == CHOOSE x \in S : \A y \in S : x <= y
\* The elements of a finite set of naturals in ascending order.
Ascending(S) ==
  [i \in 1..Cardinality(S) |-> CHOOSE a \in S : Cardinality({b \in S : b < a}) = i - 1]
NoDist ==                                    \* no distance: larger than all
  CHOOSE n \in {Dist[e] + 1 : e \in Entries} : \A e \in Entries : Dist[e] < n

ASSUME BlocksAssumption == Blocks \subseteq Nat /\ Root \in Blocks /\ NoBlock \notin Blocks
ASSUME EntriesAssumption ==
  /\ RowOf \in [Entries -> Rows] /\ Dist \in [Entries -> Nat] /\ IsFiniteSet(Entries)
  /\ \A r \in Rows : EntriesOf(r) # {}
ASSUME QualsAssumption == Sat \in [Quals -> SUBSET Entries] /\ QualsIn \in [Modes -> SUBSET Quals]
ASSUME BoundAssumption ==
  /\ Cap \in Nat \ {0} /\ MaxRescans \in [Modes -> Nat]
\* A freshly built index: one leaf that is the root, or a root over leaves.
InitIndex(t) ==
  /\ t.writes \in Nat
  /\ t.leaves \in [DOMAIN t.leaves -> Seq(Entries)] /\ DOMAIN t.leaves \subseteq Blocks
  /\ Root \in DOMAIN t.leaves <=> DOMAIN t.leaves = {Root}
  /\ Root \notin DOMAIN t.leaves => \A b \in DOMAIN t.leaves : t.leaves[b] # <<>>
  /\ \A e \in Entries : RowOf[e] \in t.rows =>
       \E b \in DOMAIN t.leaves : \E o \in DOMAIN t.leaves[b] : t.leaves[b][o] = e
ASSUME InitAssumption == \A t \in InitIndexes : InitIndex(t)

VARIABLES
  pages,   \* the index file
  lsn,     \* end of WAL
  tid,     \* row -> free, live, dead (to every transaction)
  pend,    \* entries of live rows that are not in the index yet
  writes,  \* WAL records the other backends may still write
  pc,      \* where the scan is
  mode,    \* kind of scan
  so,      \* private state of the scan
  kill,    \* scan->kill_prior_tuple
  snap,    \* rows the snapshot of the query sees
  out,     \* rows returned so far, with the distance they were returned at
  rescans  \* restarts so far

indexVars == <<pages, lsn, tid, pend, writes>>
scanVars == <<pc, mode, so, kill, snap, out, rescans>>
vars == <<indexVars, scanVars>>

Link == [blk : Blocks, low : Nat]
Page == [type : {"new", "leaf", "inner", "deleted"}, items : Seq(Entries),
         links : SUBSET Link, right : Blocks \cup {NoBlock}, nsn : Nat, lsn : Nat,
         follow : BOOLEAN, dead : SUBSET Nat]
EmptyPage == [type |-> "new", items |-> <<>>, links |-> {}, right |-> NoBlock,
              nsn |-> 0, lsn |-> 0, follow |-> FALSE, dead |-> {}]
BuildLSN == 1
Leaf(items, right, nsn, l, follow) ==
  [EmptyPage EXCEPT !.type = "leaf", !.items = items, !.right = right,
                    !.nsn = nsn, !.lsn = l, !.follow = follow]
Inner(links, l) == [EmptyPage EXCEPT !.type = "inner", !.links = links, !.lsn = l]
\* The distance function on a bounding predicate: a lower bound for the entries below.
Lows(items) == {Dist[items[o]] : o \in DOMAIN items}
LinkTo(b, items) == [blk |-> b, low |-> Least(Lows(items))]

NoScan == [queue |-> {}, heap |-> {}, first |-> TRUE, tids |-> {},
           best |-> [r \in Rows |-> NoDist], freed |-> {},
           data |-> <<>>, cur |-> 0, killed |-> {}, blk |-> NoBlock, lsn |-> 0]

Init ==
  /\ \E t \in InitIndexes :
       /\ pages = [b \in Blocks |->
            IF b \in DOMAIN t.leaves THEN Leaf(t.leaves[b], NoBlock, 0, BuildLSN, FALSE)
            ELSE IF b = Root
            THEN Inner({LinkTo(c, t.leaves[c]) : c \in DOMAIN t.leaves}, BuildLSN)
            ELSE EmptyPage]
       /\ tid = [r \in Rows |-> IF r \in t.rows THEN "live" ELSE "free"]
       /\ writes = t.writes
  /\ lsn = BuildLSN /\ pend = {}
  /\ pc = "none" /\ mode = "plain" /\ so = NoScan /\ kill = FALSE
  /\ snap = {} /\ out = <<>> /\ rescans = 0
-----------------------------------------------------------------------------
(***************************************************************************)
(* The other backends: heap operations, and one action per WAL record of   *)
(* mgistdoinsert and of vacuum.                                            *)
(***************************************************************************)
Write(n) ==
  /\ writes > 0
  /\ writes' = writes - 1 /\ lsn' = lsn + n

\* A row is inserted under a TID that is not in use; mgistinsert then indexes each
\* of its entries.
NewRow(r) ==
  /\ tid[r] = "free" /\ writes > 0
  /\ tid' = [tid EXCEPT ![r] = "live"]
  /\ pend' = pend \cup EntriesOf(r)
  /\ UNCHANGED <<pages, lsn, writes, scanVars>>

\* An aborted insertion, or a deletion no snapshot can see past: dead to everyone.
RowDies(r) ==
  /\ tid[r] = "live" /\ r \notin snap
  /\ tid' = [tid EXCEPT ![r] = "dead"]
  /\ pend' = pend \ EntriesOf(r)
  /\ UNCHANGED <<pages, lsn, writes, scanVars>>

\* Vacuum frees a TID after it has removed all index tuples that point to it.
FreeTid(r) ==
  /\ tid[r] = "dead"
  /\ \A b \in Blocks : \A o \in DOMAIN pages[b].items : RowOf[pages[b].items[o]] # r
  /\ tid' = [tid EXCEPT ![r] = "free"]
  /\ UNCHANGED <<pages, lsn, pend, writes, scanVars>>

\* PageIndexMultiDelete: the other line pointers move up and keep their flags.
Kept(items, offs) == Ascending(DOMAIN items \ offs)
Without(items, offs) ==
  [i \in DOMAIN Kept(items, offs) |-> items[Kept(items, offs)[i]]]
DeadWithout(pg, offs) ==
  {i \in DOMAIN Kept(pg.items, offs) : Kept(pg.items, offs)[i] \in pg.dead}

\* The leaves a descent may choose for entry e: the downlink was adjusted to it.
Chosen(e, b) ==
  /\ pages[b].type = "leaf" /\ ~pages[b].follow
  /\ b = Root \/ \E l \in pages[Root].links : l.blk = b /\ l.low <= Dist[e]

AdjustLink(e, l) ==
  /\ e \in pend /\ l \in pages[Root].links /\ Dist[e] < l.low
  /\ Write(1)
  /\ pages' = [pages EXCEPT ![Root].links = (@ \ {l}) \cup {[l EXCEPT !.low = Dist[e]]},
                            ![Root].lsn = lsn + 1]
  /\ UNCHANGED <<tid, pend, scanVars>>

\* gistprunepage first, when a full leaf has garbage; then the entry is appended.
AddEntry(e, b) ==
  /\ e \in pend /\ Chosen(e, b)
  /\ Len(pages[b].items) < Cap \/ pages[b].dead # {}
  /\ Write(2)
  /\ LET full == Len(pages[b].items) >= Cap
         kept == IF full THEN Without(pages[b].items, pages[b].dead) ELSE pages[b].items
     IN pages' = [pages EXCEPT ![b] = [@ EXCEPT !.items = Append(kept, e), !.lsn = lsn + 2,
                                                !.dead = IF full THEN {} ELSE pages[b].dead]]
  /\ pend' = pend \ {e}
  /\ UNCHANGED <<tid, scanVars>>

NextBlock == Least({b \in Blocks : pages[b].type = "new"})

\* A full leaf is split.  The root becomes an inner page in the same record; any
\* other leaf gets F_FOLLOW_RIGHT until its sibling has a downlink.
SplitLeaf(e, b) ==
  /\ e \in pend /\ Chosen(e, b) /\ b # Root
  /\ Len(pages[b].items) >= Cap /\ pages[b].dead = {}
  /\ \E c \in Blocks : pages[c].type = "new"
  /\ Write(1)
  /\ LET all == Append(pages[b].items, e) IN
     \E L \in (SUBSET DOMAIN all) \ {{}, DOMAIN all} :
       pages' = [pages EXCEPT
         ![b] = Leaf(Without(all, DOMAIN all \ L), NextBlock, @.nsn, lsn + 1, TRUE),
         ![NextBlock] = Leaf(Without(all, L), pages[b].right, pages[b].nsn, lsn + 1, FALSE)]
  /\ pend' = pend \ {e}
  /\ UNCHANGED <<tid, scanVars>>

SplitRoot(e) ==
  /\ e \in pend /\ Chosen(e, Root)
  /\ Len(pages[Root].items) >= Cap /\ pages[Root].dead = {}
  /\ Cardinality({c \in Blocks : pages[c].type = "new"}) >= 2
  /\ Write(1)
  /\ LET all == Append(pages[Root].items, e)
         b == NextBlock
         c == Least({x \in Blocks : pages[x].type = "new"} \ {b})
     IN \E L \in (SUBSET DOMAIN all) \ {{}, DOMAIN all} :
          LET left == Without(all, DOMAIN all \ L)
              right == Without(all, L)
          IN pages' = [pages EXCEPT ![Root] = Inner({LinkTo(b, left), LinkTo(c, right)}, lsn + 1),
                                    ![b] = Leaf(left, c, 0, lsn + 1, FALSE),
                                    ![c] = Leaf(right, NoBlock, 0, lsn + 1, FALSE)]
  /\ pend' = pend \ {e}
  /\ UNCHANGED <<tid, scanVars>>

\* The downlink of the new sibling enters the root; the record also touches the
\* left half (leftchildbuf).
PostDownlink(b) ==
  /\ pages[b].follow
  /\ Write(1)
  /\ LET c == pages[b].right
         old == {l \in pages[Root].links : l.blk = b}
     IN pages' = [pages EXCEPT
          ![Root].links = (@ \ old) \cup
            {[blk |-> x, low |-> Least(Lows(pages[x].items) \cup {l.low : l \in old})] :
               x \in {b, c}},
          ![Root].lsn = lsn + 1,
          ![b].nsn = lsn + 1, ![b].lsn = lsn + 1, ![b].follow = FALSE]
  /\ UNCHANGED <<tid, pend, scanVars>>

\* gistvacuumpage: all dead rows of a leaf in one record.
VacuumLeaf(b) ==
  /\ pages[b].type = "leaf"
  /\ LET gone == {o \in DOMAIN pages[b].items : tid[RowOf[pages[b].items[o]]] = "dead"}
     IN /\ gone # {}
        /\ pages' = [pages EXCEPT ![b] = [@ EXCEPT !.items = Without(pages[b].items, gone),
                                                   !.dead = DeadWithout(pages[b], gone),
                                                   !.lsn = lsn + 1]]
  /\ Write(1)
  /\ UNCHANGED <<tid, pend, scanVars>>

\* gistdeletepage: an empty leaf loses its downlink, never the last one.
DeleteLeaf(b) ==
  /\ pages[b].type = "leaf" /\ pages[b].items = <<>> /\ ~pages[b].follow
  /\ \E l \in pages[Root].links : l.blk = b /\ pages[Root].links # {l}
  /\ Write(1)
  /\ pages' = [pages EXCEPT ![Root].links = {l \in @ : l.blk # b}, ![Root].lsn = lsn + 1,
                            ![b].type = "deleted", ![b].lsn = lsn + 1]
  /\ UNCHANGED <<tid, pend, scanVars>>

Others ==
  \/ \E r \in Rows : NewRow(r) \/ RowDies(r) \/ FreeTid(r)
  \/ \E e \in Entries : \/ \E l \in pages[Root].links : AdjustLink(e, l)
                        \/ \E b \in Blocks : AddEntry(e, b) \/ SplitLeaf(e, b)
                        \/ SplitRoot(e)
  \/ \E b \in Blocks : PostDownlink(b) \/ VacuumLeaf(b) \/ DeleteLeaf(b)
-----------------------------------------------------------------------------
(***************************************************************************)
(* mgistScanPage.                                                          *)
(***************************************************************************)
\* mgistindex_keytest on a leaf tuple: every scan key is tested on this one entry.
KeyTest(e) == \A q \in QualsIn[mode] : e \in Sat[q]

\* The offsets of a leaf that are not LP_DEAD and match, in ascending order.
HitSet(pg) == {o \in DOMAIN pg.items : o \notin pg.dead /\ KeyTest(pg.items[o])}
Hits(pg) == Ascending(HitSet(pg))

\* Variant: only finished splits are followed.
RightIfFinished(i) ==
  LET pg == pages[i.blk] IN
  IF i.plsn # 0 /\ i.plsn < pg.nsn /\ pg.right # NoBlock
  THEN {[i EXCEPT !.blk = pg.right]} ELSE {}

\* The right sibling of a page that was split since its parent was read; it inherits
\* the distance and the parent LSN.
RightOf(i) ==
  LET pg == pages[i.blk] IN
  IF i.plsn # 0 /\ (pg.follow \/ i.plsn < pg.nsn) /\ pg.right # NoBlock
  THEN {[i EXCEPT !.blk = pg.right]} ELSE {}

\* A plain scan keeps the first offset of each row it has not returned before.
NewRows(pg, s) ==
  LET hits == Hits(pg)
      RowAt(j) == RowOf[pg.items[hits[j]]]
      firsts == Ascending({j \in DOMAIN hits :
                  RowAt(j) \notin s.tids /\ \A i \in 1..(j - 1) : RowAt(i) # RowAt(j)})
  IN [k \in DOMAIN firsts |-> [tid |-> RowAt(firsts[k]), off |-> hits[firsts[k]]]]

\* An ordered scan queues a row again when an entry is nearer than the item the
\* tidisttable points to.  That item may have been returned and freed: then the
\* comparison reads garbage until the row is queued again, from hit from[r] on.
DistsOn(pg, r) ==
  LET hits == Ascending({o \in HitSet(pg) : RowOf[pg.items[o]] = r})
  IN [j \in DOMAIN hits |-> Dist[pg.items[hits[j]]]]
RowsOn(pg) == {RowOf[pg.items[o]] : o \in HitSet(pg)}
Froms(pg, s) ==
  {f \in [RowsOn(pg) -> 1..(Cap + 1)] :
     \A r \in RowsOn(pg) : f[r] <= IF r \in s.freed THEN Len(DistsOn(pg, r)) + 1 ELSE 1}
\* Variant: a row that was queued once is not queued again.
NotNearer(pg, r, from, s) ==
  LET ds == DistsOn(pg, r)
      bound == IF r \in s.freed THEN NoDist ELSE s.best[r]
  IN {ds[j] : j \in {n \in DOMAIN ds : n = 1 /\ bound = NoDist}}

Nearer(pg, r, from, s) ==
  LET ds == DistsOn(pg, r)
      bound == IF r \in s.freed THEN NoDist ELSE s.best[r]
  IN {ds[j] : j \in {n \in DOMAIN ds : n >= from /\ ds[n] < bound
                                       /\ \A i \in from..(n - 1) : ds[n] < ds[i]}}
Queued(pg, from, s) ==
  LET near == [r \in RowsOn(pg) |-> Nearer(pg, r, from[r], s)]
      again == {r \in RowsOn(pg) : near[r] # {}}
  IN [s EXCEPT !.heap = @ \cup UNION {{[tid |-> r, dist |-> d] : d \in near[r]} : r \in again},
                !.best = [r \in Rows |-> IF r \in again THEN Least(near[r]) ELSE @[r]],
                !.freed = @ \ again]

\* Variant: the position in the page data is not reset.
ScannedKeepsCur(i, s) ==
  LET pg == pages[i.blk]
      t == [s EXCEPT !.queue = (@ \ {i}) \cup RightOf(i)]
      u == [t EXCEPT !.data = <<>>, !.lsn = pg.lsn]
  IN CASE pg.type = "deleted" -> {t}
       [] pg.type = "inner" ->
            {[u EXCEPT !.queue = @ \cup {[blk |-> l.blk, plsn |-> pg.lsn, dist |-> l.low] :
                                           l \in pg.links}]}
       [] pg.type = "leaf" /\ mode = "plain" ->
            {[u EXCEPT !.data = NewRows(pg, s),
                       !.tids = @ \cup {NewRows(pg, s)[k].tid : k \in DOMAIN NewRows(pg, s)}]}
       [] OTHER -> {u}

\* What reading page item i makes of the search state s.  A deleted page leaves the
\* page data of the page before in place.
Scanned(i, s) ==
  LET pg == pages[i.blk]
      t == [s EXCEPT !.queue = (@ \ {i}) \cup RightOf(i)]
      u == [t EXCEPT !.data = <<>>, !.cur = 0, !.lsn = pg.lsn]
  IN CASE pg.type = "deleted" -> {t}
       [] pg.type = "inner" ->
            {[u EXCEPT !.queue = @ \cup {[blk |-> l.blk, plsn |-> pg.lsn, dist |-> l.low] :
                                           l \in pg.links}]}
       [] pg.type = "leaf" /\ mode = "plain" ->
            {[u EXCEPT !.data = NewRows(pg, s),
                       !.tids = @ \cup {NewRows(pg, s)[k].tid : k \in DOMAIN NewRows(pg, s)}]}
       [] pg.type = "leaf" /\ mode = "bitmap" ->
            {[u EXCEPT !.tids = @ \cup RowsOn(pg)]}
       [] pg.type = "leaf" /\ mode = "ordered" ->
            {[u EXCEPT !.heap = Queued(pg, f, s).heap, !.best = Queued(pg, f, s).best,
                       !.freed = Queued(pg, f, s).freed] : f \in Froms(pg, s)}
RootItem == [blk |-> Root, plsn |-> 0, dist |-> 0]
-----------------------------------------------------------------------------
(***************************************************************************)
(* mgistbeginscan, mgistrescan, mgistgettuple, getNextMENearest,           *)
(* mgistgetbitmap.                                                         *)
(***************************************************************************)
\* Rows whose insertion is complete are visible to the query.
BeginScan(m) ==
  /\ pc = "none"
  /\ pc' = "client" /\ mode' = m
  /\ snap' = {r \in Rows : tid[r] = "live" /\ EntriesOf(r) \cap pend = {}}
  /\ UNCHANGED <<indexVars, so, kill, out, rescans>>

\* A new queue; killed items, page data, current block and page LSN stay.
Rescan ==
  /\ pc \in {"client", "done"} /\ rescans < MaxRescans[mode]
  /\ rescans' = rescans + 1
  /\ pc' = "client"
  /\ so' = [so EXCEPT !.queue = {}, !.heap = {}, !.first = TRUE]
  /\ kill' = FALSE /\ out' = <<>>
  /\ UNCHANGED <<indexVars, mode, snap>>

\* The first call creates the hash tables and reads the root.
FirstCall ==
  /\ pc = "client" /\ mode # "bitmap" /\ so.first
  /\ so' \in Scanned(RootItem, [so EXCEPT !.first = FALSE, !.tids = {}, !.freed = {},
                                          !.best = NoScan.best, !.data = <<>>, !.cur = 0])
  /\ pc' = IF mode = "plain" THEN "outer" ELSE "nearest"
  /\ UNCHANGED <<indexVars, mode, kill, snap, out, rescans>>

\* The loop of a call: it was entered before, or a later call enters it now.
InLoop(loop) == pc = loop \/ (pc = "client" /\ ~so.first /\ mode # "bitmap" /\
                              loop = IF mode = "plain" THEN "outer" ELSE "nearest")

\* The row returned before turned out to be dead: remember its offset.
Remember == IF kill /\ so.cur > 0 THEN so.killed \cup {so.data[so.cur].off} ELSE so.killed

\* A row of the current page is returned and fetched from the heap.
ReturnRow ==
  /\ InLoop("outer") /\ so.cur < Len(so.data)
  /\ LET r == so.data[so.cur + 1].tid IN
       /\ so' = [so EXCEPT !.killed = Remember, !.cur = @ + 1]
       /\ out' = Append(out, [tid |-> r, dist |-> 0])
       /\ kill' = (tid[r] = "dead")
  /\ pc' = "client"
  /\ UNCHANGED <<indexVars, mode, snap, rescans>>

PageDone ==
  /\ InLoop("outer") /\ so.cur = Len(so.data)
  /\ so' = [so EXCEPT !.killed = Remember]
  /\ pc' = "inner"
  /\ UNCHANGED <<indexVars, mode, kill, snap, out, rescans>>

KillPending == so.blk # NoBlock /\ so.killed # {}

\* Variant: the page LSN is not compared.
KillUnchecked ==
  /\ pc = "inner" /\ KillPending
  /\ pages' = [pages EXCEPT ![so.blk].dead = @ \cup (so.killed \cap DOMAIN pages[so.blk].items)]
  /\ so' = [so EXCEPT !.killed = {}]
  /\ UNCHANGED <<lsn, tid, pend, writes, pc, mode, kill, snap, out, rescans>>

\* mgistkillitems: only if the page still is as it was read.
KillItems ==
  /\ pc = "inner" /\ KillPending
  /\ pages' = IF pages[so.blk].lsn # so.lsn THEN pages
              ELSE [pages EXCEPT ![so.blk].dead =
                      @ \cup (so.killed \cap DOMAIN pages[so.blk].items)]
  /\ so' = [so EXCEPT !.killed = {}]
  /\ UNCHANGED <<lsn, tid, pend, writes, pc, mode, kill, snap, out, rescans>>

\* The next index page of a plain scan; all items are equally near.
NextPage ==
  /\ pc = "inner" /\ ~KillPending
  /\ \E i \in so.queue : so' \in Scanned(i, [so EXCEPT !.blk = i.blk])
  /\ pc' = IF so'.data = <<>> THEN "inner" ELSE "outer"
  /\ UNCHANGED <<indexVars, mode, kill, snap, out, rescans>>

NoMorePages ==
  /\ pc = "inner" /\ ~KillPending /\ so.queue = {}
  /\ pc' = "done"
  /\ UNCHANGED <<indexVars, mode, so, kill, snap, out, rescans>>

\* The nearest item first, rows before pages.
FirstHeap(h) ==
  /\ \A g \in so.heap : h.dist <= g.dist
  /\ \A i \in so.queue : h.dist <= i.dist
FirstPage(i) ==
  /\ \A h \in so.heap : i.dist < h.dist
  /\ \A j \in so.queue : i.dist <= j.dist

\* Popping the item the tidisttable points to frees it under the table.
Popped(h) ==
  [so EXCEPT !.heap = @ \ {h}, !.tids = @ \cup {h.tid},
             !.freed = IF h.dist = so.best[h.tid] THEN @ \cup {h.tid} ELSE @]

\* Variant: the row is not looked up in the table of returned rows.
PopRowAgain ==
  /\ InLoop("nearest")
  /\ \E h \in so.heap :
       /\ FirstHeap(h)
       /\ so' = Popped(h)
       /\ out' = Append(out, h)
       /\ pc' = "client"
  /\ UNCHANGED <<indexVars, mode, kill, snap, rescans>>

PopRow ==
  /\ InLoop("nearest")
  /\ \E h \in so.heap :
       /\ FirstHeap(h)
       /\ so' = Popped(h)
       /\ IF h.tid \in so.tids THEN pc' = "nearest" /\ UNCHANGED out
          ELSE pc' = "client" /\ out' = Append(out, h)
  /\ UNCHANGED <<indexVars, mode, kill, snap, rescans>>

PopPage ==
  /\ InLoop("nearest")
  /\ \E i \in so.queue : FirstPage(i) /\ so' \in Scanned(i, so)
  /\ pc' = "nearest"
  /\ UNCHANGED <<indexVars, mode, kill, snap, out, rescans>>

NoMoreItems ==
  /\ InLoop("nearest") /\ so.queue = {} /\ so.heap = {}
  /\ pc' = "done"
  /\ UNCHANGED <<indexVars, mode, so, kill, snap, out, rescans>>

\* mgistgetbitmap: the bitmap is filled page by page.
Bitmap ==
  /\ pc = "client" /\ mode = "bitmap"
  /\ so' \in Scanned(RootItem, [so EXCEPT !.data = <<>>, !.cur = 0, !.tids = {}])
  /\ pc' = "bitmap"
  /\ UNCHANGED <<indexVars, mode, kill, snap, out, rescans>>

BitmapPage ==
  /\ pc = "bitmap"
  /\ \E i \in so.queue : so' \in Scanned(i, so)
  /\ UNCHANGED <<indexVars, pc, mode, kill, snap, out, rescans>>

BitmapDone ==
  /\ pc = "bitmap" /\ so.queue = {}
  /\ pc' = "done"
  /\ UNCHANGED <<indexVars, mode, so, kill, snap, out, rescans>>

GetTuple ==
  \/ FirstCall \/ ReturnRow \/ PageDone \/ KillItems \/ NextPage \/ NoMorePages
  \/ PopRow \/ PopPage \/ NoMoreItems

Next ==
  \/ Others
  \/ \E m \in Modes : BeginScan(m)
  \/ Rescan \/ GetTuple
  \/ Bitmap \/ BitmapPage \/ BitmapDone

Spec == Init /\ [][Next]_vars
-----------------------------------------------------------------------------
(***************************************************************************)
(* Properties.                                                             *)
(***************************************************************************)
QueueItem == [blk : Blocks, plsn : Nat, dist : Nat]
Returned == [tid : Rows, dist : Nat]

\* The state is well formed; in particular the position of a plain scan lies within
\* the data of the page it last read (curPageData <= nPageData).
TypeOK ==
  /\ pages \in [Blocks -> Page] /\ lsn \in Nat /\ writes \in Nat
  /\ tid \in [Rows -> {"free", "live", "dead"}] /\ pend \subseteq Entries
  /\ pc \in {"none", "client", "outer", "inner", "nearest", "bitmap", "done"}
  /\ mode \in Modes /\ kill \in BOOLEAN /\ snap \subseteq Rows /\ out \in Seq(Returned)
  /\ rescans \in Nat
  /\ so.queue \subseteq QueueItem /\ so.heap \subseteq Returned /\ so.first \in BOOLEAN
  /\ so.tids \subseteq Rows /\ so.freed \subseteq Rows /\ so.best \in [Rows -> Nat]
  /\ so.data \in Seq([tid : Rows, off : Nat]) /\ so.cur \in 0..Len(so.data)
  /\ so.killed \subseteq Nat /\ so.blk \in Blocks \cup {NoBlock} /\ so.lsn \in Nat

\* "If the page has been modified since the last read (as determined by LSN), we
\* cannot flag any entries" (mgistkillitems): whatever splits, prunings, vacuums
\* and reuses of TIDs happen between reading a page and flagging its entries, no
\* index tuple of a row that is alive is marked LP_DEAD.
OnlyDeadKilled ==
  \A b \in Blocks : \A o \in pages[b].dead : tid[RowOf[pages[b].items[o]]] = "dead"

\* A row has several entries, on several pages, that are read at different times and
\* move; mgistgettuple returns it once all the same.
ReturnedOnce == \A i, j \in DOMAIN out : i # j => out[i].tid # out[j].tid

\* A row satisfies the query if for each scan key some entry of it does.
Satisfies(r) == \A q \in QualsIn[mode] : EntriesOf(r) \cap Sat[q] # {}

\* A scan that ended has found every satisfying row its snapshot sees, although
\* pages were split, pruned, vacuumed and deleted around it.
Complete ==
  pc = "done" =>
    \A r \in snap : Satisfies(r) =>
      IF mode = "bitmap" THEN r \in so.tids ELSE \E i \in DOMAIN out : out[i].tid = r

\* "Must fetch tuples in strict distance order" (mgistgettuple): a row the snapshot
\* sees is returned at the distance of its nearest entry, before every row that is
\* farther away, although its entries are met in any order on pages that split and
\* although the table of queued items points to freed items.
NearestFirst ==
  mode = "ordered" =>
    \A i \in DOMAIN out : out[i].tid \in snap =>
      /\ out[i].dist = Least({Dist[e] : e \in EntriesOf(out[i].tid)})
      /\ \A j \in 1..(i - 1) : out[j].tid \in snap => out[j].dist <= out[i].dist
=============================================================================
