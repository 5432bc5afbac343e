----------------------------- MODULE MGistTree -----------------------------
(***************************************************************************)
(* The multi-entry GiST tree under concurrent insertions and scans: the    *)
(* descent, the two-step page split, the repair of an incomplete split and *)
(* the LSN/NSN interlock of src/src/mgist/mgist.c and mgistget.c.          *)
(*                                                                         *)
(* One heap row owns several index entries (mgistinsert runs one complete  *)
(* descent per entry).  A key is abstract: a leaf entry has one key, a     *)
(* bounding predicate is the set of keys below it, "consistent" is         *)
(* membership and "union" is set union.  The choices the operator class    *)
(* makes (penalty, picksplit) are left open.  Tuple offsets are abstracted *)
(* to what they locate: the downlink of a child is found by its block.     *)
(*                                                                         *)
(* Every action is what one backend does between two lock requests; a page *)
(* read under a share lock is read in one action, so only exclusive locks  *)
(* are part of the state.                                                  *)
(***************************************************************************)
EXTENDS Naturals, Sequences, FiniteSets

CONSTANTS
  Blocks,     \* block numbers of the index file, a set of naturals holding 0
  Keys,       \* abstract key values
  Rows,       \* heap rows (TIDs)
  Entries,    \* index entries of all rows
  EntriesOf,  \* row -> sequence of its entries, in extraction order
  KeyOf,      \* entry -> key
  Inserters,  \* backends that insert
  Lockers,    \* who may lock a page: the inserters and, in MGistVacuum, the vacuum
  Scanners,   \* backends that scan
  Cap,        \* leaf or inner -> index tuples that fit on such a page
  VarSize,    \* TRUE if an enlarged predicate may need more room
  MaxHalves,  \* bound: leaf or inner -> pages one split of such a page produces
  MaxAborts,  \* bound: failures of a backend or crashes of the server
  FailPoints, \* bound: where a backend may fail; elsewhere it leaves the tree alone
  Crashes,    \* FALSE: only single backends fail
  InitTrees,  \* the indexes a behaviour may start from
  NoBlock,    \* InvalidBlockNumber
  NoProc      \* no lock holder

Root == 0
Item == [pred : SUBSET Keys, ptr : Entries \cup Blocks]
Page == [type : {"new", "leaf", "inner", "deleted"}, items : SUBSET Item,
         right : Blocks \cup {NoBlock}, nsn : Nat, lsn : Nat, follow : BOOLEAN]

UnionOf(items) == UNION {i.pred : i \in items}
LeafItem(e) == [pred |-> {KeyOf[e]}, ptr |-> e]
Downlink(b, items) == [pred |-> UnionOf(items), ptr |-> b]

ASSUME BlocksAssumption == Blocks \subseteq Nat /\ Root \in Blocks /\ NoBlock \notin Blocks
\* mgistExtractItups makes at least one index tuple for a row.  A leaf tuple and a
\* downlink cannot be mistaken for each other.
ASSUME RowsAssumption ==
  /\ Entries \cap Blocks = {}
  /\ EntriesOf \in [Rows -> Seq(Entries)]
  /\ \A r \in Rows : EntriesOf[r] # <<>>
  /\ \A e \in Entries : \E r \in Rows : \E i \in DOMAIN EntriesOf[r] : EntriesOf[r][i] = e
  /\ KeyOf \in [Entries -> Keys]
  /\ Rows # {} /\ Keys # {}
\* An index tuple carries the TID of its row.
ASSUME OwnersAssumption ==
  \A r, q \in Rows : \A i \in DOMAIN EntriesOf[r], j \in DOMAIN EntriesOf[q] :
    EntriesOf[r][i] = EntriesOf[q][j] => r = q
ASSUME ProcAssumption == Inserters \subseteq Lockers /\ NoProc \notin Lockers
ASSUME BoundAssumption ==
  /\ Cap \in [{"leaf", "inner"} -> Nat] /\ MaxHalves \in [{"leaf", "inner"} -> Nat]
  /\ MaxAborts \in Nat
  /\ VarSize \in BOOLEAN /\ Crashes \in BOOLEAN
\* An index as CREATE INDEX leaves it, all pages at the build LSN and no NSN: the
\* tuples of every block in use, which blocks are internal, the right links, and
\* the rows that are indexed.  Splits that a crash left unfinished are given by
\* the blocks with F_FOLLOW_RIGHT.
InitTree(t) ==
  /\ Root \in DOMAIN t.items /\ DOMAIN t.items \subseteq Blocks
  /\ t.items \in [DOMAIN t.items -> SUBSET Item]
  /\ \A b \in DOMAIN t.items : \A i \in t.items[b] :
       i.ptr \in IF b \in t.inner THEN Blocks ELSE Entries
  /\ t.right \in [DOMAIN t.items -> (DOMAIN t.items \ {Root}) \cup {NoBlock}] /\ t.right[Root] = NoBlock
  /\ \A b \in DOMAIN t.items : t.right[b] # NoBlock => (t.right[b] \in t.inner <=> b \in t.inner)
  /\ \A b \in DOMAIN t.items \cap t.inner : t.items[b] # {}
  /\ t.follow \subseteq DOMAIN t.items \ {Root}
  /\ t.rows \subseteq Rows
ASSUME InitAssumption == \A t \in InitTrees : InitTree(t)
\* A leaf has index tuples of indexed rows only, each with its key.
IndexedTree(t) ==
  \A b \in DOMAIN t.items \ t.inner : \A i \in t.items[b] :
    i = LeafItem(i.ptr) /\ \E r \in t.rows : \E n \in DOMAIN EntriesOf[r] : EntriesOf[r][n] = i.ptr
ASSUME IndexedAssumption == \A t \in InitTrees : IndexedTree(t)
\* Every block in use but the root has one downlink or, while the split that made
\* it is unfinished, one left sibling that leads to it; no other block has either.
OneWayTree(t) ==
  LET links(c) == UNION {{<<b, i>> : i \in {j \in t.items[b] : j.ptr = c}} :
                           b \in t.inner \cap DOMAIN t.items}
      lefts(c) == {<<b>> : b \in {x \in t.follow : t.right[x] = c}}
      ways(c) == links(c) \cup lefts(c)
  IN /\ \A b \in t.follow : t.right[b] # NoBlock
     /\ \A c \in Blocks : IF c \in DOMAIN t.items \ {Root}
                         THEN \E w \in ways(c) : ways(c) = {w} ELSE ways(c) = {}
ASSUME OneWayAssumption == \A t \in InitTrees : OneWayTree(t)
\* Every block in use is reached from the root, and every path down to a leaf has
\* the same length: there is a height for each block.
BalancedTree(t) ==
  LET inner == t.inner \cap DOMAIN t.items
  IN /\ \A T \in SUBSET DOMAIN t.items :
          /\ Root \in T
          /\ \A b \in T \cap inner : \A i \in t.items[b] : i.ptr \in T
          /\ \A b \in T \cap t.follow : t.right[b] \in T
          => T = DOMAIN t.items
     /\ \E h \in [DOMAIN t.items -> 0..Cardinality(inner)] :
          /\ \A b \in DOMAIN t.items : h[b] = 0 <=> b \notin t.inner
          /\ \A b \in inner : \A i \in t.items[b] : h[b] = h[i.ptr] + 1
          /\ \A b \in DOMAIN t.items : t.right[b] # NoBlock => h[t.right[b]] = h[b]
ASSUME BalanceAssumption == \A t \in InitTrees : BalancedTree(t)

VARIABLES
  pages,   \* the index file
  lsn,     \* end of WAL: LSN of the last record
  xlock,   \* exclusive buffer locks
  rowst,   \* where each heap row stands: absent, inserting, present, aborted, dead
  pc,      \* inserter -> what it does next
  row,     \* inserter -> the row it inserts
  pos,     \* inserter -> the entry of that row it is inserting
  stack,   \* inserter -> GISTInsertStack, root first
  xheld,   \* inserter -> the local variable xlocked of mgistdoinsert
  child,   \* inserter -> the child chosen before swapping the lock
  fin,     \* inserter -> the active calls of mgistfinishsplit, innermost first
  ret,     \* inserter -> who called mgistfinishsplit: leaf, inner or fix
  bfs,     \* inserter -> the queue of gistFindPath, as paths from the root
  scan,    \* scanner -> its private state
  aborts,  \* number of failures so far
  errs     \* errors raised by the tree code itself

treeVars == <<pages, lsn, xlock>>
procVars == <<rowst, pc, row, pos, stack, xheld, child, fin, ret, bfs>>
vars == <<treeVars, procVars, scan, aborts, errs>>

Frame == [blk : Blocks, lsn : Nat, retry : BOOLEAN]
NewFrame(b) == [blk |-> b, lsn |-> 0, retry |-> FALSE]
Half == [blk : Blocks, pred : SUBSET Keys]
Call == [up : Nat, halves : Seq(Half), unlock : BOOLEAN, locked : BOOLEAN]
PCs == {"idle", "visit", "lockfix", "fixchain", "lockinner", "lockleaf",
        "finish", "findpath", "return"}
ScanState == [st : {"ready", "running", "done"}, key : Keys,
              queue : SUBSET [blk : Blocks, plsn : Nat],
              found : SUBSET Rows, must : SUBSET Rows]
BuildLSN == 1
AnyRow == CHOOSE r \in Rows : TRUE
AnyKey == CHOOSE k \in Keys : TRUE
ReadyScan == [st |-> "ready", key |-> AnyKey, queue |-> {}, found |-> {}, must |-> {}]
EmptyPage == [type |-> "new", items |-> {}, right |-> NoBlock, nsn |-> 0,
              lsn |-> 0, follow |-> FALSE]

RowKeys(r) == {KeyOf[EntriesOf[r][i]] : i \in DOMAIN EntriesOf[r]}
RowOf(e) == CHOOSE r \in Rows : \E i \in DOMAIN EntriesOf[r] : EntriesOf[r][i] = e
Key(p) == KeyOf[EntriesOf[row[p]][pos[p]]]

Depth(p) == Len(stack[p])
Top(p) == stack[p][Depth(p)]
TopPage(p) == pages[Top(p).blk]
ParentLsn(p) == stack[p][Depth(p) - 1].lsn
Free(b) == xlock[b] = NoProc
Locked(p, S) == [b \in Blocks |-> IF b \in S THEN p ELSE xlock[b]]
Unlocked(S) == [b \in Blocks |-> IF b \in S THEN NoProc ELSE xlock[b]]
Released(p) == [b \in Blocks |-> IF xlock[b] = p THEN NoProc ELSE xlock[b]]

InitPages(t) ==
  [b \in Blocks |->
     IF b \in DOMAIN t.items
     THEN [type |-> IF b \in t.inner THEN "inner" ELSE "leaf", items |-> t.items[b],
           right |-> t.right[b], nsn |-> 0, lsn |-> BuildLSN, follow |-> b \in t.follow]
     ELSE EmptyPage]

Init ==
  /\ \E t \in InitTrees :
       /\ pages = InitPages(t)
       /\ rowst = [r \in Rows |-> IF r \in t.rows THEN "present" ELSE "absent"]
  /\ lsn = BuildLSN
  /\ xlock = [b \in Blocks |-> NoProc]
  /\ pc = [p \in Inserters |-> "idle"]
  /\ row = [p \in Inserters |-> AnyRow]
  /\ pos = [p \in Inserters |-> 1]
  /\ stack = [p \in Inserters |-> <<>>]
  /\ xheld = [p \in Inserters |-> FALSE]
  /\ child = [p \in Inserters |-> Root]
  /\ fin = [p \in Inserters |-> <<>>]
  /\ ret = [p \in Inserters |-> "leaf"]
  /\ bfs = [p \in Inserters |-> {}]
  /\ scan = [s \in Scanners |-> ReadyScan]
  /\ aborts = 0
  /\ errs = {}
-----------------------------------------------------------------------------
(***************************************************************************)
(* mgistplacetopage: put the index tuples N on block b, which the caller   *)
(* has locked.  left is the child whose new right sibling gets its         *)
(* downlink now (leftchildbuf): its F_FOLLOW_RIGHT is cleared and its NSN  *)
(* becomes the LSN of this very record.                                    *)
(***************************************************************************)
\* Variants of WithLeftChild, for checking the checks: the flag stays, the page LSN
\* stays, the NSN stays.
KeepFollow(pgs, left, l) ==
  IF left = NoBlock THEN pgs ELSE [pgs EXCEPT ![left] = [@ EXCEPT !.nsn = l, !.lsn = l]]
KeepLsn(pgs, left, l) ==
  IF left = NoBlock THEN pgs ELSE [pgs EXCEPT ![left] = [@ EXCEPT !.nsn = l, !.follow = FALSE]]
KeepNsn(pgs, left, l) ==
  IF left = NoBlock THEN pgs ELSE [pgs EXCEPT ![left] = [@ EXCEPT !.lsn = l, !.follow = FALSE]]

WithLeftChild(pgs, left, l) ==
  IF left = NoBlock THEN pgs
  ELSE [pgs EXCEPT ![left] = [@ EXCEPT !.nsn = l, !.follow = FALSE, !.lsn = l]]

\* Variant: the updated page keeps its old LSN.
FitKeepLsn(b, N, left) ==
  WithLeftChild([pages EXCEPT ![b] = [@ EXCEPT !.items = N]], left, lsn + 1)

FitPages(b, N, left) ==
  WithLeftChild([pages EXCEPT ![b] = [@ EXCEPT !.items = N, !.lsn = lsn + 1]],
                left, lsn + 1)

\* All ways mgistSplit may distribute the tuples N of page b over two or more
\* pages, left to right.
Partitions(b, N) ==
  {P \in UNION {[1..n -> SUBSET N] : n \in 2..MaxHalves[pages[b].type]} :
     /\ \A i \in DOMAIN P : P[i] # {} /\ Cardinality(P[i]) <= Cap[pages[b].type]
     /\ \A i, j \in DOMAIN P : i # j => P[i] \cap P[j] = {}
     /\ UNION {P[i] : i \in DOMAIN P} = N}

\* gistNewBuffer: the next n blocks of the file, in ascending order.
Unused == {b \in Blocks : pages[b].type = "new"}
FreshBlocks(n) ==
  {f \in [1..n -> Unused] :
     /\ \A i, j \in 1..n : i < j => f[i] < f[j]
     /\ \A i \in 1..n, c \in Unused : c < f[i] => \E j \in 1..n : f[j] = c}

IndexIn(blks, b) == CHOOSE i \in DOMAIN blks : blks[i] = b

\* Variant: the halves of a split root are marked, too.
MarkRootHalves(b, P, blks) ==
  [x \in Blocks |->
     IF \E i \in DOMAIN blks : blks[i] = x
     THEN LET i == IndexIn(blks, x) IN
          [type |-> pages[b].type, items |-> P[i],
           right |-> IF i < Len(blks) THEN blks[i + 1] ELSE pages[b].right,
           nsn |-> pages[b].nsn, lsn |-> lsn + 1, follow |-> i < Len(blks)]
     ELSE pages[x]]

\* The halves P of page b go to the blocks blks.  All but the last are marked
\* F_FOLLOW_RIGHT unless the page is the root, whose halves get their downlinks
\* in the same record.
HalfPages(b, P, blks) ==
  [x \in Blocks |->
     IF \E i \in DOMAIN blks : blks[i] = x
     THEN LET i == IndexIn(blks, x) IN
          [type |-> pages[b].type, items |-> P[i],
           right |-> IF i < Len(blks) THEN blks[i + 1]
                     ELSE IF b = Root THEN NoBlock ELSE pages[b].right,
           nsn |-> IF b = Root THEN 0 ELSE pages[b].nsn,
           lsn |-> lsn + 1,
           follow |-> b # Root /\ i < Len(blks)]
     ELSE pages[x]]

SplitPages(b, P, blks, left) == WithLeftChild(HalfPages(b, P, blks), left, lsn + 1)

RootSplitPages(P, blks, left) ==
  WithLeftChild([HalfPages(Root, P, blks) EXCEPT ![Root] =
                   [type |-> "inner",
                    items |-> {Downlink(blks[i], P[i]) : i \in DOMAIN blks},
                    right |-> NoBlock, nsn |-> 0, lsn |-> lsn + 1, follow |-> FALSE]],
                left, lsn + 1)

\* gistnospace; grown says that N replaces a tuple by a larger one.
Fits(b, N) == Cardinality(N) <= Cap[pages[b].type]
Overflows(b, N, grown) ==
  \/ Cardinality(N) > Cap[pages[b].type]
  \/ VarSize /\ grown /\ Cardinality(N) = Cap[pages[b].type]
HalvesOf(P, blks) == [i \in DOMAIN blks |-> [blk |-> blks[i], pred |-> UnionOf(P[i])]]
-----------------------------------------------------------------------------
(***************************************************************************)
(* mgistinsert and mgistdoinsert.                                          *)
(***************************************************************************)
Proceed(p, label) == pc' = [pc EXCEPT ![p] = label]
PopTo(p) == stack' = [stack EXCEPT ![p] = SubSeq(stack[p], 1, Depth(p) - 1)]
NotLocked(p) == xheld' = [xheld EXCEPT ![p] = FALSE]

\* mgistinsert is called for a new heap row; its first entry starts at the root.
BeginRow(p, r) ==
  /\ pc[p] = "idle" /\ rowst[r] = "absent"
  /\ rowst' = [rowst EXCEPT ![r] = "inserting"]
  /\ row' = [row EXCEPT ![p] = r]
  /\ pos' = [pos EXCEPT ![p] = 1]
  /\ stack' = [stack EXCEPT ![p] = <<NewFrame(Root)>>]
  /\ Proceed(p, "visit")
  /\ UNCHANGED <<treeVars, xheld, child, fin, ret, bfs, scan, aborts, errs>>

\* One entry is in: release everything and go on with the next entry of the row.
EntryDone(p) ==
  /\ xlock' = Released(p)
  /\ NotLocked(p)
  /\ IF pos[p] < Len(EntriesOf[row[p]])
     THEN /\ pos' = [pos EXCEPT ![p] = @ + 1]
          /\ stack' = [stack EXCEPT ![p] = <<NewFrame(Root)>>]
          /\ Proceed(p, "visit")
          /\ UNCHANGED <<rowst, row>>
     ELSE /\ rowst' = [rowst EXCEPT ![row[p]] = "present"]
          /\ row' = [row EXCEPT ![p] = AnyRow]
          /\ pos' = [pos EXCEPT ![p] = 1]
          /\ stack' = [stack EXCEPT ![p] = <<>>]
          /\ Proceed(p, "idle")

\* "while (stack->retry_from_parent)": this backend split the page itself.
PopRetry(p) ==
  /\ pc[p] = "visit" /\ Top(p).retry
  /\ PopTo(p)
  /\ NotLocked(p)
  /\ xlock' = Released(p)
  /\ UNCHANGED <<pages, lsn, rowst, pc, row, pos, child, fin, ret, bfs, scan, aborts, errs>>

\* The page is read under the exclusive lock if xlocked, else under a share lock.
Visiting(p) ==
  /\ pc[p] = "visit" /\ ~Top(p).retry
  /\ IF xheld[p] THEN xlock[Top(p).blk] = p ELSE Free(Top(p).blk)

\* Variants: no check; a split the parent already shows counts, too.
NeverStale(p) == FALSE
StaleIfEqual(p) == Top(p).blk # Root /\ ParentLsn(p) <= TopPage(p).nsn

\* The page is not the one the parent's downlink promised: it was split or
\* deleted (by MGistVacuum) after the parent was read.
Stale(p) ==
  /\ Top(p).blk # Root
  /\ ParentLsn(p) < TopPage(p).nsn \/ TopPage(p).type = "deleted"

\* The stack remembers the LSN the page had when it was read.
SeenStack(p) == [stack[p] EXCEPT ![Depth(p)] = [@ EXCEPT !.lsn = TopPage(p).lsn]]

VisitStale(p) ==
  /\ Visiting(p) /\ ~TopPage(p).follow /\ Stale(p)
  /\ PopTo(p)
  /\ NotLocked(p)
  /\ xlock' = Released(p)
  /\ UNCHANGED <<pages, lsn, rowst, pc, row, pos, child, fin, ret, bfs, scan, aborts, errs>>

\* Descend: the downlink already covers the key.
VisitInner(p) ==
  /\ Visiting(p) /\ ~TopPage(p).follow /\ ~Stale(p) /\ TopPage(p).type = "inner"
  /\ \E d \in TopPage(p).items :
       /\ Key(p) \in d.pred
       /\ stack' = [stack EXCEPT ![p] = Append(SeenStack(p), NewFrame(d.ptr))]
  /\ NotLocked(p)
  /\ xlock' = Released(p)
  /\ UNCHANGED <<pages, lsn, rowst, pc, row, pos, child, fin, ret, bfs, scan, aborts, errs>>

\* A page split by this backend: its halves, locked, wait for their downlinks.
StartFinish(p, P, blks, why) ==
  /\ fin' = [fin EXCEPT ![p] = <<[up |-> 0, halves |-> HalvesOf(P, blks),
                                  unlock |-> FALSE, locked |-> FALSE]>>]
  /\ ret' = [ret EXCEPT ![p] = why]
  /\ xheld' = [xheld EXCEPT ![p] = TRUE]
  /\ Proceed(p, "finish")

\* The enlarged downlink replaces d on the top page, which p holds exclusively
\* from here on.  Root split: the root stays locked and is visited again.
PlaceDownlink(p, d) ==
  LET b == Top(p).blk
      N == (TopPage(p).items \ {d}) \cup {[d EXCEPT !.pred = @ \cup {Key(p)}]}
  IN /\ lsn' = lsn + 1
     /\ \/ /\ Fits(b, N)
           /\ pages' = FitPages(b, N, NoBlock)
           /\ xlock' = Released(p)
           /\ stack' = [stack EXCEPT ![p] = Append(SeenStack(p), NewFrame(d.ptr))]
           /\ NotLocked(p)
           /\ Proceed(p, "visit")
           /\ UNCHANGED <<fin, ret>>
        \/ /\ Overflows(b, N, TRUE) /\ b = Root
           /\ \E P \in Partitions(b, N) : \E blks \in FreshBlocks(Len(P)) :
                pages' = RootSplitPages(P, blks, NoBlock)
           /\ xlock' = Locked(p, {b})
           /\ stack' = [stack EXCEPT ![p] = SeenStack(p)]
           /\ xheld' = [xheld EXCEPT ![p] = TRUE]
           /\ Proceed(p, "visit")
           /\ UNCHANGED <<fin, ret>>
        \/ /\ Overflows(b, N, TRUE) /\ b # Root
           /\ \E P \in Partitions(b, N) : \E new \in FreshBlocks(Len(P) - 1) :
                LET blks == <<b>> \o new IN
                /\ pages' = SplitPages(b, P, blks, NoBlock)
                /\ xlock' = Locked(p, {blks[i] : i \in DOMAIN blks})
                /\ StartFinish(p, P, blks, "inner")
           /\ stack' = [stack EXCEPT ![p] = SeenStack(p)]
     /\ UNCHANGED <<rowst, row, pos, child, bfs, scan, aborts, errs>>

\* The new entry goes to the top page, a leaf p holds exclusively from here on.
PlaceEntry(p) ==
  LET b == Top(p).blk
      N == TopPage(p).items \cup {LeafItem(EntriesOf[row[p]][pos[p]])}
  IN /\ lsn' = lsn + 1
     /\ \/ /\ Fits(b, N)
           /\ pages' = FitPages(b, N, NoBlock)
           /\ EntryDone(p)
           /\ UNCHANGED <<fin, ret>>
        \/ /\ Overflows(b, N, FALSE) /\ b = Root
           /\ \E P \in Partitions(b, N) : \E blks \in FreshBlocks(Len(P)) :
                pages' = RootSplitPages(P, blks, NoBlock)
           /\ EntryDone(p)
           /\ UNCHANGED <<fin, ret>>
        \/ /\ Overflows(b, N, FALSE) /\ b # Root
           /\ \E P \in Partitions(b, N) : \E new \in FreshBlocks(Len(P) - 1) :
                LET blks == <<b>> \o new IN
                /\ pages' = SplitPages(b, P, blks, NoBlock)
                /\ xlock' = Locked(p, {blks[i] : i \in DOMAIN blks})
                /\ StartFinish(p, P, blks, "leaf")
           /\ stack' = [stack EXCEPT ![p] = SeenStack(p)]
           /\ UNCHANGED <<rowst, row, pos>>
     /\ UNCHANGED <<child, bfs, scan, aborts, errs>>

\* mgistgetadjusted enlarges the chosen downlink: that takes an exclusive lock.
VisitAdjust(p) ==
  /\ Visiting(p) /\ ~TopPage(p).follow /\ ~Stale(p) /\ TopPage(p).type = "inner"
  /\ \E d \in TopPage(p).items :
       /\ Key(p) \notin d.pred
       /\ \/ xheld[p] /\ PlaceDownlink(p, d)
          \/ /\ ~xheld[p]
             /\ child' = [child EXCEPT ![p] = d.ptr]
             /\ stack' = [stack EXCEPT ![p] = SeenStack(p)]
             /\ Proceed(p, "lockinner")
             /\ UNCHANGED <<treeVars, rowst, row, pos, xheld, fin, ret, bfs, scan,
                            aborts, errs>>

\* The lock was swapped: start over at this page if its LSN moved meanwhile.
LockInner(p) ==
  /\ pc[p] = "lockinner" /\ Free(Top(p).blk)
  /\ \/ /\ TopPage(p).lsn # Top(p).lsn
        /\ xlock' = Locked(p, {Top(p).blk})
        /\ xheld' = [xheld EXCEPT ![p] = TRUE]
        /\ Proceed(p, "visit")
        /\ UNCHANGED <<pages, lsn, rowst, row, pos, stack, child, fin, ret, bfs, scan,
                       aborts, errs>>
     \/ /\ TopPage(p).lsn = Top(p).lsn
        /\ \E d \in TopPage(p).items : d.ptr = child[p] /\ PlaceDownlink(p, d)

VisitLeaf(p) ==
  /\ Visiting(p) /\ ~TopPage(p).follow /\ ~Stale(p) /\ TopPage(p).type = "leaf"
  /\ \/ xheld[p] /\ PlaceEntry(p)
     \/ /\ ~xheld[p]
        /\ stack' = [stack EXCEPT ![p] = SeenStack(p)]
        /\ Proceed(p, "lockleaf")
        /\ UNCHANGED <<treeVars, rowst, row, pos, xheld, child, fin, ret, bfs, scan,
                       aborts, errs>>

\* Variant: no recheck after the swap.
LeafNotRechecked(p) == FALSE

\* A leaf is rechecked after the swap: only the root can have become internal,
\* any other page can have been split.
LeafMoved(p) == TopPage(p).follow \/ Stale(p)
LockLeaf(p) ==
  /\ pc[p] = "lockleaf" /\ Free(Top(p).blk)
  /\ \/ /\ Top(p).blk = Root /\ TopPage(p).type = "inner"
        /\ Proceed(p, "visit")
        /\ stack' = [stack EXCEPT ![p] = SeenStack(p)]
        /\ UNCHANGED <<treeVars, rowst, row, pos, xheld, child, fin, ret, bfs, scan,
                       aborts, errs>>
     \/ /\ Top(p).blk # Root /\ LeafMoved(p)
        /\ PopTo(p)
        /\ Proceed(p, "visit")
        /\ UNCHANGED <<treeVars, rowst, row, pos, xheld, child, fin, ret, bfs, scan,
                       aborts, errs>>
     \/ /\ IF Top(p).blk = Root THEN TopPage(p).type = "leaf" ELSE ~LeafMoved(p)
        /\ PlaceEntry(p)
-----------------------------------------------------------------------------
(***************************************************************************)
(* mgistfixsplit: the page on top of the stack was split by a backend that *)
(* failed before it inserted the downlinks.                                *)
(***************************************************************************)
HalfAt(b) == [blk |-> b, pred |-> UnionOf(pages[b].items)]

StartFix(p) ==
  /\ fin' = [fin EXCEPT ![p] = <<[up |-> 0, halves |-> <<HalfAt(Top(p).blk)>>,
                                  unlock |-> FALSE, locked |-> FALSE]>>]
  /\ ret' = [ret EXCEPT ![p] = "fix"]
  /\ Proceed(p, "fixchain")

VisitFollow(p) ==
  /\ Visiting(p) /\ TopPage(p).follow
  /\ stack' = [stack EXCEPT ![p] = SeenStack(p)]
  /\ \/ xheld[p] /\ StartFix(p)
     \/ ~xheld[p] /\ Proceed(p, "lockfix") /\ UNCHANGED <<fin, ret>>
  /\ UNCHANGED <<treeVars, rowst, row, pos, xheld, child, bfs, scan, aborts, errs>>

\* "someone might've completed the split when we unlocked"
LockFix(p) ==
  /\ pc[p] = "lockfix" /\ Free(Top(p).blk)
  /\ xlock' = Locked(p, {Top(p).blk})
  /\ xheld' = [xheld EXCEPT ![p] = TRUE]
  /\ IF TopPage(p).follow THEN StartFix(p)
     ELSE Proceed(p, "visit") /\ UNCHANGED <<fin, ret>>
  /\ UNCHANGED <<pages, lsn, rowst, row, pos, stack, child, bfs, scan, aborts, errs>>

\* Lock the next page of the chain and form its downlink.
FixChain(p) ==
  /\ pc[p] = "fixchain"
  /\ LET halves == fin[p][1].halves
         r == pages[halves[Len(halves)].blk].right
     IN /\ r \in Blocks /\ Free(r)
        /\ xlock' = Locked(p, {r})
        /\ fin' = [fin EXCEPT ![p][1].halves = Append(@, HalfAt(r))]
        /\ IF pages[r].follow THEN UNCHANGED pc ELSE Proceed(p, "finish")
  /\ UNCHANGED <<pages, lsn, rowst, row, pos, stack, xheld, child, ret, bfs, scan,
                 aborts, errs>>
-----------------------------------------------------------------------------
(***************************************************************************)
(* mgistfinishsplit: give the halves their downlinks, from right to left.  *)
(* A call works for the stack frame ChildIx; its parent is ParentIx.       *)
(***************************************************************************)
ChildIx(p) == Depth(p) - fin[p][1].up
ParentIx(p) == ChildIx(p) - 1
ChildBlk(p) == stack[p][ChildIx(p)].blk
ParentBlk(p) == stack[p][ParentIx(p)].blk
DownlinksOn(b, c) == {d \in pages[b].items : d.ptr = c}
Finishing(p) == pc[p] = "finish"

FinishLock(p) ==
  /\ Finishing(p) /\ ~fin[p][1].locked
  /\ Free(ParentBlk(p))
  /\ xlock' = Locked(p, {ParentBlk(p)})
  /\ fin' = [fin EXCEPT ![p][1].locked = TRUE]
  /\ UNCHANGED <<pages, lsn, rowst, pc, row, pos, stack, xheld, child, ret, bfs, scan,
                 aborts, errs>>

\* Variant: the end of the chain is not noticed.
MoveRightAlways(p) ==
  /\ Finishing(p) /\ fin[p][1].locked
  /\ DownlinksOn(ParentBlk(p), ChildBlk(p)) = {}
  /\ xlock' = Unlocked({ParentBlk(p)})
  /\ fin' = [fin EXCEPT ![p][1].locked = FALSE]
  /\ stack' = [stack EXCEPT ![p][ParentIx(p)].blk = pages[ParentBlk(p)].right]
  /\ UNCHANGED <<pages, lsn, rowst, pc, row, pos, xheld, child, bfs, ret, scan, aborts, errs>>

\* gistFindCorrectParent: the downlink is not here, look to the right; at the
\* end of the chain search the tree.
FinishMoveRight(p) ==
  /\ Finishing(p) /\ fin[p][1].locked
  /\ DownlinksOn(ParentBlk(p), ChildBlk(p)) = {}
  /\ xlock' = Unlocked({ParentBlk(p)})
  /\ fin' = [fin EXCEPT ![p][1].locked = FALSE]
  /\ \/ /\ pages[ParentBlk(p)].right # NoBlock
        /\ stack' = [stack EXCEPT ![p][ParentIx(p)].blk = pages[ParentBlk(p)].right]
        /\ UNCHANGED <<pc, bfs>>
     \/ /\ pages[ParentBlk(p)].right = NoBlock
        /\ Proceed(p, "findpath")
        /\ bfs' = [bfs EXCEPT ![p] = {<<NewFrame(Root)>>}]
        /\ UNCHANGED stack
  /\ UNCHANGED <<pages, lsn, rowst, row, pos, xheld, child, ret, scan, aborts, errs>>

\* An error of the tree code: the backend gives up its row and its locks; what
\* it wrote stays.
Abandon(p) ==
  /\ rowst' = [rowst EXCEPT ![row[p]] = "aborted"]
  /\ xlock' = Released(p)
  /\ stack' = [stack EXCEPT ![p] = <<>>]
  /\ fin' = [fin EXCEPT ![p] = <<>>]
  /\ bfs' = [bfs EXCEPT ![p] = {}]
  /\ row' = [row EXCEPT ![p] = AnyRow]
  /\ pos' = [pos EXCEPT ![p] = 1]
  /\ NotLocked(p)
  /\ Proceed(p, "idle")
  /\ UNCHANGED <<pages, lsn, child, ret, scan>>

\* gistFindPath reads one page at a time, nearest to the root first.
NextPaths(p) == {w \in bfs[p] : \A x \in bfs[p] : Len(w) <= Len(x)}
Seen(w) == [w EXCEPT ![Len(w)] = [@ EXCEPT !.lsn = pages[w[Len(w)].blk].lsn]]
MissedRight(w) ==
  LET pg == pages[w[Len(w)].blk] IN
  IF Len(w) > 1 /\ w[Len(w) - 1].lsn < pg.nsn /\ pg.right # NoBlock
  THEN {Append(SubSeq(w, 1, Len(w) - 1), NewFrame(pg.right))} ELSE {}

FindPathStep(p) ==
  /\ pc[p] = "findpath"
  /\ \E w \in NextPaths(p) :
       LET b == w[Len(w)].blk IN
       /\ Free(b)
       /\ pages[b].type = "inner" /\ ~pages[b].follow
       /\ IF DownlinksOn(b, ChildBlk(p)) # {}
          THEN /\ stack' = [stack EXCEPT ![p] =
                              Seen(w) \o SubSeq(stack[p], ChildIx(p), Depth(p))]
               /\ bfs' = [bfs EXCEPT ![p] = {}]
               /\ Proceed(p, "finish")
          ELSE /\ bfs' = [bfs EXCEPT ![p] = (@ \ {w}) \cup MissedRight(w)
                            \cup {Append(Seen(w), NewFrame(d.ptr)) : d \in pages[b].items}]
               /\ UNCHANGED <<stack, pc>>
  /\ UNCHANGED <<treeVars, rowst, row, pos, xheld, child, fin, ret, scan, aborts, errs>>

\* The queue has run out, or the next page ends the search.
FindPathError(p) ==
  /\ pc[p] = "findpath"
  /\ IF bfs[p] = {} THEN errs' = errs \cup {"refind"}
     ELSE \E w \in NextPaths(p) :
            LET b == w[Len(w)].blk IN
            /\ Free(b)
            /\ pages[b].type = "inner" => pages[b].follow
            /\ errs' = errs \cup {IF pages[b].type = "inner" THEN "incomplete" ELSE "refind"}
  /\ Abandon(p)
  /\ UNCHANGED aborts

\* The tuples of the parent once the rightmost half has its downlink; with the
\* last two halves the child's own downlink is replaced in the same operation.
LinkOf(h) == [pred |-> h.pred, ptr |-> h.blk]

\* Variant: the child's old downlink stays.
KeepOldLink(p) ==
  LET hs == fin[p][1].halves
      items == pages[ParentBlk(p)].items
  IN IF Len(hs) > 2 THEN items \cup {LinkOf(hs[Len(hs)])}
     ELSE items \cup {LinkOf(hs[1]), LinkOf(hs[2])}

ParentItems(p) ==
  LET hs == fin[p][1].halves
      items == pages[ParentBlk(p)].items
  IN IF Len(hs) > 2 THEN items \cup {LinkOf(hs[Len(hs)])}
     ELSE (items \ DownlinksOn(ParentBlk(p), ChildBlk(p))) \cup {LinkOf(hs[1]), LinkOf(hs[2])}

\* The calls left when this insertion is done.
Remaining(p) ==
  LET f == fin[p][1] IN
  IF Len(f.halves) > 2
  THEN <<[f EXCEPT !.halves = SubSeq(@, 1, Len(@) - 1)]>> \o Tail(fin[p])
  ELSE Tail(fin[p])

\* The child pages whose locks the insertion releases: the rightmost half, and the
\* left one with the last downlink if the caller no longer needs it.
LetGo(f) ==
  LET n == Len(f.halves) IN
  {f.halves[n].blk} \cup (IF n = 2 /\ f.unlock THEN {f.halves[1].blk} ELSE {})

\* One mgistinserttuples call on the parent.  If that splits the parent, its
\* halves come first.
InsertDownlink(p) ==
  LET f == fin[p][1]
      n == Len(f.halves)
      par == ParentBlk(p)
      left == f.halves[n - 1].blk
      N == ParentItems(p)
      done == LetGo(f) \cup (IF n = 2 THEN {par} ELSE {})
      goOn == /\ xlock' = Unlocked(done)
              /\ fin' = [fin EXCEPT ![p] = Remaining(p)]
              /\ Proceed(p, IF Remaining(p) = <<>> THEN "return" ELSE "finish")
  IN /\ Finishing(p) /\ f.locked
     /\ DownlinksOn(par, ChildBlk(p)) # {} /\ ~pages[par].follow
     /\ lsn' = lsn + 1
     /\ stack' = IF n > 2 THEN stack ELSE [stack EXCEPT ![p][ChildIx(p)].retry = TRUE]
     /\ \/ /\ Fits(par, N)
           /\ pages' = FitPages(par, N, left)
           /\ goOn
        \/ /\ Overflows(par, N, FALSE) /\ par = Root
           /\ \E P \in Partitions(par, N) : \E blks \in FreshBlocks(Len(P)) :
                pages' = RootSplitPages(P, blks, left)
           /\ goOn
        \/ /\ Overflows(par, N, FALSE) /\ par # Root
           /\ \E P \in Partitions(par, N) : \E new \in FreshBlocks(Len(P) - 1) :
                LET blks == <<par>> \o new IN
                /\ pages' = SplitPages(par, P, blks, left)
                /\ xlock' = [b \in Blocks |->
                     IF b \in LetGo(f) THEN NoProc
                     ELSE IF \E i \in DOMAIN new : new[i] = b THEN p ELSE xlock[b]]
                /\ fin' = [fin EXCEPT ![p] =
                     <<[up |-> f.up + 1, halves |-> HalvesOf(P, blks),
                        unlock |-> n = 2, locked |-> FALSE]>> \o Remaining(p)]
           /\ UNCHANGED pc
     /\ UNCHANGED <<rowst, row, pos, xheld, child, ret, bfs, scan, aborts, errs>>

\* mgistplacetopage: "concurrent GiST page split was incomplete"
InsertDownlinkError(p) ==
  /\ Finishing(p) /\ fin[p][1].locked
  /\ DownlinksOn(ParentBlk(p), ChildBlk(p)) # {}
  /\ pages[ParentBlk(p)].follow
  /\ errs' = errs \cup {"incomplete"}
  /\ Abandon(p)
  /\ UNCHANGED aborts

\* Back in mgistdoinsert: the leaf's entry is in; otherwise go back to the parent.
FinishReturn(p) ==
  /\ pc[p] = "return"
  /\ \/ ret[p] = "leaf" /\ EntryDone(p)
     \/ /\ ret[p] # "leaf"
        /\ PopTo(p)
        /\ xlock' = Released(p)
        /\ NotLocked(p)
        /\ Proceed(p, "visit")
        /\ UNCHANGED <<rowst, row, pos>>
  /\ UNCHANGED <<pages, lsn, child, fin, ret, bfs, scan, aborts, errs>>

\* A backend fails (out of disk, out of memory, FATAL) outside a critical section.
Fail(p) ==
  /\ pc[p] \in FailPoints /\ pc[p] # "idle" /\ aborts < MaxAborts
  /\ aborts' = aborts + 1
  /\ Abandon(p)
  /\ UNCHANGED errs

\* Server crash: memory is lost, the logged pages are not.
Crash ==
  /\ Crashes /\ aborts < MaxAborts
  /\ \E p \in Inserters : pc[p] \in FailPoints \ {"idle"}
  /\ aborts' = aborts + 1
  /\ rowst' = [r \in Rows |-> IF rowst[r] = "inserting" THEN "aborted" ELSE rowst[r]]
  /\ xlock' = [b \in Blocks |-> NoProc]
  /\ pc' = [p \in Inserters |-> "idle"]
  /\ row' = [p \in Inserters |-> AnyRow]
  /\ pos' = [p \in Inserters |-> 1]
  /\ stack' = [p \in Inserters |-> <<>>]
  /\ xheld' = [p \in Inserters |-> FALSE]
  /\ fin' = [p \in Inserters |-> <<>>]
  /\ bfs' = [p \in Inserters |-> {}]
  /\ scan' = [s \in Scanners |-> ReadyScan]
  /\ UNCHANGED <<pages, lsn, child, ret, errs>>
-----------------------------------------------------------------------------
(***************************************************************************)
(* mgistgetbitmap and mgistScanPage: collect the rows that have an entry   *)
(* with the wanted key.                                                    *)
(***************************************************************************)
ScanStart(s, k) ==
  /\ scan[s].st = "ready"
  /\ scan' = [scan EXCEPT ![s] =
       [st |-> "running", key |-> k, queue |-> {[blk |-> Root, plsn |-> 0]}, found |-> {},
        must |-> {r \in Rows : rowst[r] = "present" /\ k \in RowKeys(r)}]]
  /\ UNCHANGED <<treeVars, procVars, aborts, errs>>

\* Variant: only splits that are finished are noticed.
GoRightIfFinished(i) ==
  LET pg == pages[i.blk] IN
  IF i.plsn # 0 /\ i.plsn < pg.nsn /\ pg.right # NoBlock
  THEN {[blk |-> pg.right, plsn |-> i.plsn]} ELSE {}

\* The page was split after its parent was read: its right sibling has to be
\* visited too.
GoRight(i) ==
  LET pg == pages[i.blk] IN
  IF i.plsn # 0 /\ (pg.follow \/ i.plsn < pg.nsn) /\ pg.right # NoBlock
  THEN {[blk |-> pg.right, plsn |-> i.plsn]} ELSE {}

\* Variant: a visited page is visited again.
ExaminedAgain(q, i) ==
  LET pg == pages[i.blk]
      hits == {t \in pg.items : q.key \in t.pred}
      others == q.queue \cup GoRight(i)
  IN IF pg.type = "leaf"
     THEN [q EXCEPT !.queue = others, !.found = q.found \cup {RowOf(t.ptr) : t \in hits}]
     ELSE [q EXCEPT !.queue = others \cup {[blk |-> t.ptr, plsn |-> pg.lsn] : t \in hits}]

\* What the visit of item i makes of the scan q: the matching tuples of a leaf
\* are found, those of an inner page are queued under the LSN of the page, and a
\* deleted page has none.
Examined(q, i) ==
  LET pg == pages[i.blk]
      hits == {t \in pg.items : q.key \in t.pred}
      others == (q.queue \ {i}) \cup GoRight(i)
  IN IF pg.type = "leaf"
     THEN [q EXCEPT !.queue = others, !.found = q.found \cup {RowOf(t.ptr) : t \in hits}]
     ELSE [q EXCEPT !.queue = others \cup {[blk |-> t.ptr, plsn |-> pg.lsn] : t \in hits}]

ScanPage(s) ==
  /\ scan[s].st = "running"
  /\ \E i \in scan[s].queue :
       /\ Free(i.blk)
       /\ scan' = [scan EXCEPT ![s] = Examined(scan[s], i)]
  /\ UNCHANGED <<treeVars, procVars, aborts, errs>>

ScanEnd(s) ==
  /\ scan[s].st = "running" /\ scan[s].queue = {}
  /\ scan' = [scan EXCEPT ![s].st = "done"]
  /\ UNCHANGED <<treeVars, procVars, aborts, errs>>
-----------------------------------------------------------------------------
\* What a backend does on its own once it inserts a row.
Step(p) ==
  \/ PopRetry(p) \/ VisitStale(p) \/ VisitInner(p) \/ VisitAdjust(p)
  \/ VisitLeaf(p) \/ VisitFollow(p) \/ LockInner(p) \/ LockLeaf(p) \/ LockFix(p)
  \/ FixChain(p) \/ FinishLock(p) \/ FinishMoveRight(p) \/ FindPathStep(p)
  \/ FindPathError(p) \/ InsertDownlink(p) \/ InsertDownlinkError(p) \/ FinishReturn(p)
ScanStep(s) == ScanPage(s) \/ ScanEnd(s)

\* All rows are dealt with and all scans are over: nothing is left to do.
Quiescent ==
  /\ \A p \in Inserters : pc[p] = "idle"
  /\ \A r \in Rows : rowst[r] # "absent"
  /\ \A s \in Scanners : scan[s].st = "done"

Next ==
  \/ \E p \in Inserters : (\E r \in Rows : BeginRow(p, r)) \/ Step(p) \/ Fail(p)
  \/ Crash
  \/ \E s \in Scanners : (\E k \in Keys : ScanStart(s, k)) \/ ScanStep(s)
  \/ Quiescent /\ UNCHANGED vars

Spec == Init /\ [][Next]_vars

\* A backend holds no lock for ever and the lock queues are served in order, so a
\* backend that can take its next step takes it.  Nobody has to start or to fail.
FairSpec ==
  /\ Spec
  /\ \A p \in Inserters : WF_vars(Step(p))
  /\ \A s \in Scanners : WF_vars(ScanStep(s))
-----------------------------------------------------------------------------
(***************************************************************************)
(* Properties                                                              *)
(***************************************************************************)
\* Every variable has its type.
TypeOK ==
  /\ pages \in [Blocks -> Page]
  /\ lsn \in Nat
  /\ xlock \in [Blocks -> Lockers \cup {NoProc}]
  /\ rowst \in [Rows -> {"absent", "inserting", "present", "aborted", "dead"}]
  /\ pc \in [Inserters -> PCs]
  /\ row \in [Inserters -> Rows]
  /\ pos \in [Inserters -> Nat]
  /\ stack \in [Inserters -> Seq(Frame)]
  /\ xheld \in [Inserters -> BOOLEAN]
  /\ child \in [Inserters -> Blocks]
  /\ fin \in [Inserters -> Seq(Call)]
  /\ ret \in [Inserters -> {"leaf", "inner", "fix"}]
  /\ bfs \in [Inserters -> SUBSET Seq(Frame)]
  /\ scan \in [Scanners -> ScanState]
  /\ aborts \in 0..MaxAborts
  /\ errs \subseteq {"refind", "incomplete"}

Used == {b \in Blocks : pages[b].type \in {"leaf", "inner"}}
Inner == {b \in Blocks : pages[b].type = "inner"}
AllDownlinks == UNION {{<<b, d>> : d \in pages[b].items} : b \in Inner}

\* The LSN-NSN interlock compares a page's NSN with the LSN its parent had when
\* it was read; that is sound only while no NSN is ahead of its own page's LSN,
\* no page is ahead of the WAL and no remembered LSN is ahead of its page.
LsnOrder ==
  /\ \A b \in Blocks : pages[b].nsn <= pages[b].lsn /\ pages[b].lsn <= lsn
  /\ \A p \in Inserters : \A i \in DOMAIN stack[p] : stack[p][i].lsn <= lsn
  /\ \A p \in Inserters : \A w \in bfs[p] : \A i \in DOMAIN w : w[i].lsn <= lsn
  /\ \A s \in Scanners : \A i \in scan[s].queue : i.plsn <= lsn

\* "follow the rightlink if and only if they looked at the parent page before we
\* inserted the downlink": who reads the parent now needs no right link, unless
\* the split is unfinished.  Were it false, mgistdoinsert would go back to the
\* parent for ever.
FreshParentSuffices ==
  \A x \in AllDownlinks : pages[x[2].ptr].nsn <= pages[x[1]].lsn

\* A page other than the root can be entered in exactly one way: by its one
\* downlink or, until the split that made it is finished, from its left sibling.
\* A page that is free or deleted cannot be entered at all.
OneWayIn ==
  LET downlinks == AllDownlinks
      unfinished == {b \in Used : pages[b].follow}
  IN \A c \in Blocks \ {Root} :
       Cardinality({x \in downlinks : x[2].ptr = c}) +
       Cardinality({b \in unfinished : pages[b].right = c}) = IF c \in Used THEN 1 ELSE 0

\* The tuples a reader may see after following the downlink to b: those of the
\* page and, while a split is unfinished, of the pages to its right.
Below(b) ==
  LET chain[x \in Blocks] ==
        pages[x].items \cup (IF pages[x].follow THEN chain[pages[x].right] ELSE {})
  IN chain[b]

\* The key representing a child covers everything below the child, whatever
\* concurrent splits replaced downlinks and concurrent inserts enlarged them.
DownlinksCover ==
  \A x \in AllDownlinks : UnionOf(Below(x[2].ptr)) \subseteq x[2].pred

\* Every entry of an indexed row is found by a search that starts now: at the
\* root, down the matching downlinks, right along unfinished splits.
Searched(k) ==
  LET hits[b \in Blocks] ==
        LET here == {t \in Below(b) : k \in t.pred} IN
        {t.ptr : t \in {u \in here : u.ptr \in Entries}} \cup
        UNION {hits[t.ptr] : t \in {u \in here : u.ptr \in Blocks}}
  IN hits[Root]
Findable ==
  \A r \in Rows : rowst[r] = "present" =>
    \A i \in DOMAIN EntriesOf[r] : EntriesOf[r][i] \in Searched(KeyOf[EntriesOf[r][i]])

\* The parent of a page is always re-found, and without a failed backend no
\* inserter ever meets an incomplete split.
NoTreeErrors ==
  /\ "refind" \notin errs
  /\ aborts = 0 => errs = {}

\* LSNs never move backwards, neither a page's nor the NSN, and a page changes
\* only together with its LSN (the recheck after swapping locks relies on it).
LsnMonotone ==
  [][/\ lsn <= lsn'
     /\ \A b \in Blocks :
          /\ pages[b].lsn <= pages'[b].lsn /\ pages[b].nsn <= pages'[b].nsn
          /\ pages'[b] # pages[b] => pages'[b].lsn > pages[b].lsn]_vars

\* A split is finished in one step: when F_FOLLOW_RIGHT goes off, the right
\* sibling's first downlink appears and the NSN becomes this record's LSN.
FinishAtomic ==
  [][\A b \in Blocks : pages[b].follow /\ ~pages'[b].follow =>
       LET r == pages[b].right IN
       /\ ~\E x \in AllDownlinks : x[2].ptr = r
       /\ (\E x \in AllDownlinks : x[2].ptr = r)'
       /\ pages'[b].right = r /\ pages'[b].nsn = lsn']_vars

\* Every insertion ends, however often it is sent back to a parent.
InsertEnds ==
  \A r \in Rows : rowst[r] = "inserting" ~> rowst[r] \in {"present", "aborted"}

\* Every scan ends.
ScanEnds == \A s \in Scanners : scan[s].st = "running" ~> scan[s].st # "running"

\* The tree keeps the promise of IndexContract: splits, repairs and retries are
\* invisible, and an answer is the set of TIDs the bitmap holds at the end.
Hidden(q) == [st |-> q.st, key |-> q.key, must |-> q.must,
              found |-> IF q.st = "done" THEN q.found ELSE {}]
Contract == INSTANCE IndexContract WITH
              KeysOf <- [r \in Rows |-> RowKeys(r)],
              Ready <- Hidden(ReadyScan),
              query <- [s \in Scanners |-> Hidden(scan[s])]
ImplementsContract == Contract!Spec
=============================================================================
