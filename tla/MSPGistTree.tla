---------------------------- MODULE MSPGistTree ----------------------------
(***************************************************************************)
(* The multi-entry SP-GiST tree under concurrent insertions and scans: the *)
(* loop over the entries of a row (mspginsert.c), the descent and the page *)
(* operations of mspgdoinsert.c, and mspgWalk of mspgscan.c.               *)
(*                                                                         *)
(* mspginsert calls spgdoinsert of the server, of which mspgdoinsert is a  *)
(* copy; the branches for an index that is not being built are modelled.   *)
(* Offsets matter here: a downlink names a tuple by block and offset, and  *)
(* a tuple that moves leaves a redirect behind.  Sizes are in units of a   *)
(* dead tuple with its line pointer.                                       *)
(*                                                                         *)
(* Keys are abstract.  The operator class is given by a family of nested   *)
(* groups of keys: in a radix tree (text_mspgist.c) a group is the set of  *)
(* keys with a certain prefix, in a quadtree it is what a centroid splits  *)
(* into quadrants.  The nulls tree, values longer than a page and the free *)
(* space map are left out.                                                 *)
(***************************************************************************)
EXTENDS Integers, FiniteSets, SequencesExt, FiniteSetsExt

CONSTANTS
  Blocks,     \* blocks of the file that can hold keys, Root among them
  Keys,       \* abstract key values
  Groups,     \* the sets of keys the operator class can tell apart
  Rows,       \* heap rows (TIDs)
  EntriesOf,  \* row -> the keys extracted from it, in order
  Inserters,  \* backends that insert
  Scanners,   \* backends that scan
  Cap,        \* leaf or inner -> SPGIST_PAGE_CAPACITY
  SameNodes,  \* nodes of an allTheSame tuple, 8 in the code
  MaxHits,    \* bound: interrupts, and locks held by somebody who is not modelled
  Clobber,    \* TRUE if freed memory is overwritten before it is read again
  InitTrees,  \* the indexes a behaviour may start from
  NoProc      \* no lock holder

Root == 1   \* SPGIST_ROOT_BLKNO; block 0 is the metapage, block 2 the nulls tree
Link == [blk : Blocks \cup {0}, off : Nat]
NoLink == [blk |-> 0, off |-> 0]
RootLink == [blk |-> Root, off |-> 1]
NoPar == [blk |-> 0, off |-> 0, node |-> 0]

ASSUME BlocksAssumption == Blocks \subseteq Nat \ {0, 2} /\ Root \in Blocks
ASSUME GroupsAssumption ==
  /\ Groups \subseteq SUBSET Keys /\ Keys \in Groups /\ \A k \in Keys : {k} \in Groups
  /\ \A G, H \in Groups : G \subseteq H \/ H \subseteq G \/ G \cap H = {}
ASSUME RowsAssumption == EntriesOf \in [Rows -> Seq(Keys)]
ASSUME BoundAssumption ==
  /\ Cap \in [{"leaf", "inner"} -> Nat] /\ SameNodes \in Nat \ {0}
  /\ MaxHits \in Nat /\ Clobber \in BOOLEAN

VARIABLES
  pages,  \* the index file
  eof,    \* its length in blocks
  radix,  \* TRUE for a radix tree, FALSE for a quadtree; never changes
  xlock,  \* exclusive buffer locks
  rowst,  \* where each heap row stands
  nextXid,
  ins,    \* inserter -> its private state
  scan,   \* scanner -> its private state
  hits,   \* number of interrupts and spurious lock failures so far
  errs    \* errors raised by the tree code itself

tree == <<pages, eof, xlock>>
vars == <<tree, radix, rowst, nextXid, ins, scan, hits, errs>>

Leaf(r, k, n) == [st |-> "leaf", row |-> r, key |-> k, next |-> n]
Inner(scope, same, nodes) == [st |-> "inner", scope |-> scope, same |-> same, nodes |-> nodes]
Node(label, link) == [label |-> label, link |-> link]
Redirect(to, xid) == [st |-> "redirect", to |-> to, xid |-> xid]
Placeholder == [st |-> "placeholder"]
Dead == [st |-> "dead"]
NoTuple == [st |-> "none"]

TupleAt(pgs, l) == IF l.off \in DOMAIN pgs[l.blk].tups THEN pgs[l.blk].tups[l.off] ELSE NoTuple
KeySet(r) == ToSet(EntriesOf[r])
AnyKey == CHOOSE k \in Keys : TRUE
AnyRow == CHOOSE r \in Rows : TRUE
Parity(b) == b % 3
-----------------------------------------------------------------------------
(***************************************************************************)
(* Space on a page (mspgutils.c)                                           *)
(***************************************************************************)
LeafSize == 2
Size(t) == CASE t.st = "leaf" -> LeafSize
             [] t.st = "inner" -> 1 + Len(t.nodes)
             [] OTHER -> 1
Used(ts) == FoldLeft(LAMBDA n, t : n + Size(t), 0, ts)
ExactFree(pg) == Cap[pg.type] - Used(pg.tups)
Slots(pg) == {o \in DOMAIN pg.tups : pg.tups[o] = Placeholder}
\* SpGistPageGetFreeSpace(page, 1): one placeholder may be replaced.
Room(pg) == ExactFree(pg) + (IF Slots(pg) = {} THEN 0 ELSE 1)

\* SpGistPageAddNewItem replaces the first placeholder or extends the page.
NewOff(pg) == IF Slots(pg) = {} THEN Len(pg.tups) + 1 ELSE Min(Slots(pg))
Put(pg, o, t) == [pg EXCEPT !.tups = [i \in DOMAIN @ \cup {o} |-> IF i = o THEN t ELSE @[i]]]
AddItem(pg, t) == Put(pg, NewOff(pg), t)

EmptyPage(type) == [type |-> type, tups |-> <<>>]
NoParity == 3

\* MSpGistGetBuffer: a page of the wanted kind in the local cache that has room,
\* an empty one, or the file is extended; a page another backend has locked is
\* passed over.  Extending for an inner page skips the blocks of wrong parity.
BuffersFor(pgs, end, kind, parity, need) ==
  LET right == {b \in Blocks \ {Root} : parity \in {NoParity, Parity(b)}}
      free == {b \in right : b < end /\ xlock[b] = NoProc}
      beyond == {b \in right : b >= end}
  IN {b \in free : pgs[b].tups # <<>> /\ pgs[b].type = kind /\ ExactFree(pgs[b]) >= need}
     \cup {b \in free : pgs[b].tups = <<>> /\ pgs[b].type \in {kind, "new"}}
     \cup (IF beyond = {} THEN {} ELSE {Min(beyond)})
EndWith(end, b) == IF b >= end THEN b + 1 ELSE end
WithBuffer(pgs, end, kind, b) ==
  [x \in Blocks |-> IF x = b /\ pgs[b].tups = <<>> THEN EmptyPage(kind)
                    ELSE IF end <= x /\ x < b THEN EmptyPage("inner") ELSE pgs[x]]

\* saveNodeLink
WithLink(pgs, par, l) ==
  IF par = NoPar THEN pgs ELSE [pgs EXCEPT ![par.blk].tups[par.off].nodes[par.node].link = l]

\* The offsets of the chain that starts at o.
Chain(ts, o) ==
  LET from[i \in 0..Len(ts)] ==
        IF i = 0 THEN <<>>
        ELSE <<i>> \o (IF ts[i].st = "leaf" THEN from[ts[i].next] ELSE <<>>)
  IN from[o]
-----------------------------------------------------------------------------
(***************************************************************************)
(* The operator class                                                      *)
(***************************************************************************)
Smallest(S) == CHOOSE G \in Groups : S \subseteq G /\ \A H \in Groups : S \subseteq H => G \subseteq H
Parts(G) ==
  IF Cardinality(G) = 1 THEN {G}
  ELSE {H \in Groups : H \subseteq G /\ H # G
          /\ \A I \in Groups : H \subseteq I /\ I \subseteq G => I \in {H, G}}
PartWith(G, k) == CHOOSE H \in Parts(G) : k \in H

\* picksplit: a radix tree makes a node for each next character that occurs, the
\* quadrants of a quadtree cover all keys.
PickScope(S) == IF radix THEN Smallest(S) ELSE Keys
PickLabels(S) ==
  LET G == Smallest(S)
  IN IF radix THEN SetToSeq({H \in Parts(G) : H \cap S # {}})
     ELSE LET ls == SetToSeq(Parts(G)) IN [ls EXCEPT ![1] = @ \cup (Keys \ G)]

\* Label -2 of text_mspgist.c: no key is inserted below it, every scan visits it.
Dummy == {}
Takes(n, k) == k \in n.label
Visits(n, k) == k \in n.label \/ n.label = Dummy
Matching(t, k) == {n \in DOMAIN t.nodes : Takes(t.nodes[n], k)}
\* The choose method, as the core code obeys it: a random node of an allTheSame
\* tuple, the only one that matches otherwise.
Choose(t, k) == IF t.st # "inner" THEN "error"
                ELSE IF k \notin t.scope THEN "split"
                ELSE IF Matching(t, k) # {} THEN "match"
                ELSE IF t.same THEN "split" ELSE "add"
-----------------------------------------------------------------------------
(***************************************************************************)
(* The state                                                               *)
(***************************************************************************)
IdleIns == [pc |-> "idle", row |-> AnyRow, keys |-> <<>>, pos |-> 1, xid |-> 0,
            cur |-> NoLink, par |-> NoPar]
ReadyScan == [st |-> "ready", key |-> AnyKey, xmin |-> 0, queue |-> {}, found |-> {}, must |-> {}]

Init ==
  /\ \E t \in InitTrees :
       /\ pages = [b \in Blocks |-> IF b \in DOMAIN t.pages THEN t.pages[b] ELSE EmptyPage("new")]
       /\ eof = Max(DOMAIN t.pages \cup {2}) + 1
       /\ radix = t.radix
       /\ rowst = [r \in Rows |-> IF r \in t.rows THEN "present"
                                 ELSE IF r \in t.absent THEN "absent" ELSE "aborted"]
  /\ xlock = [b \in Blocks |-> NoProc]
  /\ nextXid = 1
  /\ ins = [p \in Inserters |-> IdleIns]
  /\ scan = [s \in Scanners |-> ReadyScan]
  /\ hits = 0
  /\ errs = {}

Free(b) == xlock[b] = NoProc
Held(p) == {b \in Blocks : xlock[b] = p}
Holding(p, S) == [b \in Blocks |-> IF b \in S THEN p ELSE IF xlock[b] = p THEN NoProc ELSE xlock[b]]

\* The oldest transaction that a snapshot taken now sees as running.
RunningXids == {ins[p].xid : p \in {q \in Inserters : ins[q].pc # "idle"}}
Xmin == Min(RunningXids \cup {nextXid})

Cur(p) == ins[p].cur
Par(p) == ins[p].par
Key(p) == ins[p].keys[ins[p].pos]
CurPage(p) == pages[Cur(p).blk]
AtLeaf(p) == ins[p].pc = "work" /\ CurPage(p).type = "leaf"
AtInner(p) == ins[p].pc = "work" /\ CurPage(p).type = "inner"
Tuple(p) == TupleAt(pages, Cur(p))

\* Where the inserter goes next.
At(p, pc, cur, par) == ins' = [ins EXCEPT ![p] = [@ EXCEPT !.pc = pc, !.cur = cur, !.par = par]]
Done(p) == At(p, "next", NoLink, NoPar) /\ xlock' = Holding(p, {})

Fails(p, e) ==
  /\ errs' = errs \cup {e}
  /\ rowst' = [rowst EXCEPT ![ins[p].row] = "aborted"]
  /\ ins' = [ins EXCEPT ![p] = IdleIns]
  /\ xlock' = Holding(p, {})
  /\ UNCHANGED <<pages, eof, nextXid, hits>>
-----------------------------------------------------------------------------
(***************************************************************************)
(* mspginsert: one descent per entry; a descent that has to be given up is *)
(* repeated.                                                               *)
(***************************************************************************)
BeginRow(p, r) ==
  /\ ins[p].pc = "idle" /\ rowst[r] = "absent"
  /\ rowst' = [rowst EXCEPT ![r] = "inserting"]
  /\ ins' = [ins EXCEPT ![p] = [IdleIns EXCEPT !.pc = "root", !.row = r, !.keys = EntriesOf[r],
                                               !.xid = nextXid, !.cur = RootLink]]
  /\ nextXid' = nextXid + 1
  /\ UNCHANGED <<tree, radix, scan, hits, errs>>

\* Variant: the loop stops before the last entry.
NextEntryButLast(p) ==
  /\ ins[p].pc = "next"
  /\ \/ /\ ins[p].pos + 1 < Len(ins[p].keys)
        /\ ins' = [ins EXCEPT ![p] = [@ EXCEPT !.pc = "root", !.pos = @ + 1, !.cur = RootLink]]
        /\ UNCHANGED rowst
     \/ /\ ins[p].pos + 1 >= Len(ins[p].keys)
        /\ rowst' = [rowst EXCEPT ![ins[p].row] = "present"]
        /\ ins' = [ins EXCEPT ![p] = IdleIns]
  /\ UNCHANGED <<tree, radix, nextXid, scan, hits, errs>>

NextEntry(p) ==
  /\ ins[p].pc = "next"
  /\ \/ /\ ins[p].pos < Len(ins[p].keys)
        /\ ins' = [ins EXCEPT ![p] = [@ EXCEPT !.pc = "root", !.pos = @ + 1, !.cur = RootLink]]
        /\ UNCHANGED rowst
     \/ /\ ins[p].pos = Len(ins[p].keys)
        /\ rowst' = [rowst EXCEPT ![ins[p].row] = "present"]
        /\ ins' = [ins EXCEPT ![p] = IdleIns]
  /\ UNCHANGED <<tree, radix, nextXid, scan, hits, errs>>

\* MemoryContextReset(insertCtx) frees extracted_values while the loop still
\* needs the current entry and those after it.
KeysAfterReset(p) ==
  IF ~Clobber THEN {ins[p].keys}
  ELSE {ks \in [DOMAIN ins[p].keys -> Keys] : \A i \in 1..(ins[p].pos - 1) : ks[i] = ins[p].keys[i]}
\* Variant: the lock on the parent is not released.
AgainHolding(p) ==
  /\ ins' = [ins EXCEPT ![p] = [@ EXCEPT !.pc = "root", !.cur = RootLink, !.par = NoPar]]
  /\ UNCHANGED <<tree, rowst, nextXid, errs>>

Again(p) ==
  /\ \E ks \in KeysAfterReset(p) :
       ins' = [ins EXCEPT ![p] = [@ EXCEPT !.pc = "root", !.keys = ks, !.cur = RootLink, !.par = NoPar]]
  /\ xlock' = Holding(p, {})
  /\ UNCHANGED <<pages, eof, rowst, nextXid, errs>>

\* INTERRUPTS_PENDING_CONDITION is seen at the top of the loop or before an inner
\* tuple is processed, CHECK_FOR_INTERRUPTS after an entry has been inserted: the
\* query is cancelled, or spgdoinsert returns false.
Interrupt(p) ==
  /\ ins[p].pc \in {"child", "next"} \/ AtInner(p)
  /\ hits < MaxHits /\ hits' = hits + 1
  /\ \/ ins[p].pc # "next" /\ Again(p)
     \/ /\ rowst' = [rowst EXCEPT ![ins[p].row] = "aborted"]
        /\ ins' = [ins EXCEPT ![p] = IdleIns]
        /\ xlock' = Holding(p, {})
        /\ UNCHANGED <<pages, eof, nextXid, errs>>
  /\ UNCHANGED <<radix, scan>>
-----------------------------------------------------------------------------
(***************************************************************************)
(* The loop of spgdoinsert                                                 *)
(***************************************************************************)
LockRoot(p) ==
  /\ ins[p].pc = "root" /\ Free(Root)
  /\ xlock' = Holding(p, {Root})
  /\ At(p, "work", RootLink, NoPar)
  /\ UNCHANGED <<pages, eof, radix, rowst, nextXid, scan, hits, errs>>

\* The child is on the parent's page, or its lock is to be had at once.
LockChild(p) ==
  /\ ins[p].pc = "child" /\ Cur(p) # NoLink
  /\ xlock[Cur(p).blk] \in {p, NoProc}
  /\ xlock' = Holding(p, {Par(p).blk, Cur(p).blk})
  /\ At(p, "work", Cur(p), Par(p))
  /\ UNCHANGED <<pages, eof, radix, rowst, nextXid, scan, hits, errs>>

\* "If we fail to get lock, abandon the insertion and tell our caller to start
\* over."  The lock may also be held by the checkpointer or a reader.
ChildLocked(p) ==
  /\ ins[p].pc = "child" /\ Cur(p) # NoLink /\ xlock[Cur(p).blk] # p
  /\ \/ ~Free(Cur(p).blk) /\ UNCHANGED hits
     \/ Free(Cur(p).blk) /\ hits < MaxHits /\ hits' = hits + 1
  /\ Again(p)
  /\ UNCHANGED <<radix, scan>>

\* Variant: an existing tuple at the head of a chain is not kept.
LeafAddedUnchained(pgs, l, t) ==
  LET pg == pgs[l.blk] IN [pages |-> [pgs EXCEPT ![l.blk] = AddItem(pg, t)], off |-> NewOff(pg), st |-> "new"]

\* addLeafTuple: t is put on its own, as the second of a chain, or in place of a
\* dead tuple.
LeafAdded(pgs, l, t) ==
  LET pg == pgs[l.blk]
      o == NewOff(pg)
      head == TupleAt(pgs, l)
  IN IF l.off = 0 \/ l.blk = Root
     THEN [pages |-> [pgs EXCEPT ![l.blk] = AddItem(pg, t)], off |-> o, st |-> "new"]
     ELSE IF head.st = "leaf"
     THEN [pages |-> [pgs EXCEPT ![l.blk] = Put(AddItem(pg, [t EXCEPT !.next = head.next]), l.off,
                                                [head EXCEPT !.next = o])],
           off |-> l.off, st |-> "leaf"]
     ELSE [pages |-> [pgs EXCEPT ![l.blk] = Put(pg, l.off, t)], off |-> l.off, st |-> head.st]
NewTuple(p) == Leaf(ins[p].row, Key(p), 0)

AddLeaf(p) ==
  /\ AtLeaf(p) /\ LeafSize <= Room(CurPage(p))
  /\ LET added == LeafAdded(pages, Cur(p), NewTuple(p))
     IN IF added.st \in {"new", "leaf", "dead"}
        THEN /\ pages' = IF added.st = "new"
                         THEN WithLink(added.pages, Par(p), [blk |-> Cur(p).blk, off |-> added.off])
                         ELSE added.pages
             /\ Done(p)
             /\ UNCHANGED <<eof, rowst, nextXid, hits, errs>>
        ELSE Fails(p, "unexpected SPGiST tuple state")
  /\ UNCHANGED <<radix, scan>>

\* The downlink is empty: a leaf page is found for a new chain.
NewLeaf(p) ==
  /\ ins[p].pc = "child" /\ Cur(p) = NoLink
  /\ \E b \in BuffersFor(pages, eof, "leaf", NoParity, LeafSize) :
       LET added == LeafAdded(WithBuffer(pages, eof, "leaf", b), [blk |-> b, off |-> 0], NewTuple(p))
       IN /\ pages' = WithLink(added.pages, Par(p), [blk |-> b, off |-> added.off])
          /\ eof' = EndWith(eof, b)
  /\ Done(p)
  /\ UNCHANGED <<radix, rowst, nextXid, scan, hits, errs>>
-----------------------------------------------------------------------------
\* The chain at cur: its offsets and its live tuples.
Offsets(p) == Chain(CurPage(p).tups, Cur(p).off)
Live(pg, offs) == SelectSeq([i \in DOMAIN offs |-> pg.tups[offs[i]]], LAMBDA t : t.st = "leaf")
ChainTuples(p) == Live(CurPage(p), Offsets(p))
BadChain(p) ==
  Cur(p).blk # Root /\ \E i \in DOMAIN Offsets(p) :
    CurPage(p).tups[Offsets(p)[i]].st \notin (IF i = 1 THEN {"leaf", "dead"} ELSE {"leaf"})

\* spgPageIndexMultiDelete: the first tuple becomes t, the others placeholders.
Deleted(pg, offs, t) ==
  [pg EXCEPT !.tups = [o \in DOMAIN @ |-> IF offs # <<>> /\ o = offs[1] THEN t
                                          ELSE IF o \in ToSet(offs) THEN Placeholder ELSE @[o]]]

\* A chain is built on page pg by adding each tuple in front of the last one.
Chained(pg, ts) ==
  FoldLeft(LAMBDA x, t : [pg |-> AddItem(x.pg, [t EXCEPT !.next = x.off]), off |-> NewOff(x.pg)],
           [pg |-> pg, off |-> 0], ts)

\* moveLeafs: the chain is small, and goes to another page together with the new
\* tuple.  The root page has no chains.
Movable(p) ==
  LET size == LeafSize * Len(ChainTuples(p))
  IN Cur(p).blk # Root /\ 2 * size < Cap["leaf"] /\ size + LeafSize <= Cap["leaf"]

\* Variant: the place the chain moved from is left without a redirect, as in a build.
MoveLeafsNoRedirect(p) ==
  /\ AtLeaf(p) /\ LeafSize > Room(CurPage(p)) /\ Movable(p) /\ ~BadChain(p)
  /\ LET ts == Append(ChainTuples(p), NewTuple(p))
     IN \E b \in BuffersFor(pages, eof, "leaf", NoParity, LeafSize * Len(ts)) :
          LET pgs == WithBuffer(pages, eof, "leaf", b)
              moved == Chained(pgs[b], ts)
              to == [blk |-> b, off |-> moved.off]
          IN /\ pages' = WithLink([pgs EXCEPT ![b] = moved.pg,
                                    ![Cur(p).blk] = Deleted(@, Offsets(p), Placeholder)],
                                  Par(p), to)
             /\ eof' = EndWith(eof, b)
  /\ Done(p)
  /\ UNCHANGED <<radix, rowst, nextXid, scan, hits, errs>>

MoveLeafs(p) ==
  /\ AtLeaf(p) /\ LeafSize > Room(CurPage(p)) /\ Movable(p) /\ ~BadChain(p)
  /\ LET ts == Append(ChainTuples(p), NewTuple(p))
     IN \E b \in BuffersFor(pages, eof, "leaf", NoParity, LeafSize * Len(ts)) :
          LET pgs == WithBuffer(pages, eof, "leaf", b)
              moved == Chained(pgs[b], ts)
              to == [blk |-> b, off |-> moved.off]
          IN /\ pages' = WithLink([pgs EXCEPT ![b] = moved.pg,
                                    ![Cur(p).blk] = Deleted(@, Offsets(p), Redirect(to, ins[p].xid))],
                                  Par(p), to)
             /\ eof' = EndWith(eof, b)
  /\ Done(p)
  /\ UNCHANGED <<radix, rowst, nextXid, scan, hits, errs>>
-----------------------------------------------------------------------------
(***************************************************************************)
(* doPickSplit: a chain, or the root while it is a leaf, becomes an inner  *)
(* tuple over new chains on the current and on one other page.             *)
(***************************************************************************)
OldOffsets(p) == IF Cur(p).blk = Root THEN [i \in DOMAIN CurPage(p).tups |-> i] ELSE Offsets(p)
Splitting(p) == Append(Live(CurPage(p), OldOffsets(p)), NewTuple(p))

\* checkAllTheSame: if all tuples - all but the new one when they do not fit on
\* one page - went to one node, they are dealt out to SameNodes equal nodes; the
\* new tuple is left out if it belonged to another node.
CheckAllTheSame(ts) ==
  LET labels == PickLabels({ts[i].key : i \in DOMAIN ts})
      node == [i \in DOMAIN ts |-> CHOOSE n \in DOMAIN labels : ts[i].key \in labels[n]]
      tooBig == LeafSize * Len(ts) > Cap["leaf"]
      same == Len(ts) > 1 /\ \A i \in 1..(IF tooBig THEN Len(ts) - 1 ELSE Len(ts)) : node[i] = node[1]
  IN [same |-> same, withNew |-> ~same \/ node[Len(ts)] = node[1],
      labels |-> IF same THEN [n \in 1..SameNodes |-> IF radix THEN labels[node[1]] ELSE Keys]
                 ELSE labels,
      node |-> IF same THEN [i \in DOMAIN ts |-> ((i - 1) % SameNodes) + 1] ELSE node]

\* The first k tuples are assigned to pages node by node: to the current page as
\* long as it has room.
Assigned(split, k, curspace, newspace) ==
  FoldLeft(LAMBDA x, n :
             LET need == LeafSize * Cardinality({i \in 1..k : split.node[i] = n})
             IN IF need <= x.cur THEN [x EXCEPT !.cur = @ - need]
                ELSE [x EXCEPT !.new = @ - need, !.moved = @ \cup {n}],
           [cur |-> curspace, new |-> newspace, moved |-> {}],
           [n \in DOMAIN split.labels |-> n])
Fits(x) == x.cur >= 0 /\ x.new >= 0

\* The first k tuples are put on their pages, each in front of its node's chain.
Placed(split, ts, k, moved, curblk, curpg, newblk, newpg) ==
  FoldLeft(LAMBDA x, i :
             LET n == split.node[i]
                 t == [ts[i] EXCEPT !.next = x.links[n].off]
             IN IF n \in moved
                THEN [x EXCEPT !.new = AddItem(@, t), !.links[n] = [blk |-> newblk, off |-> NewOff(x.new)]]
                ELSE [x EXCEPT !.cur = AddItem(@, t), !.links[n] = [blk |-> curblk, off |-> NewOff(x.cur)]],
           [cur |-> curpg, new |-> newpg, links |-> [n \in DOMAIN split.labels |-> NoLink]],
           [i \in 1..k |-> i])

\* Variant: the room on the parent's page is not looked at.
InnerBlocksNearby(p, size) ==
  IF Par(p) = NoPar THEN {Root}
  ELSE IF Par(p).blk # Root THEN {Par(p).blk}
  ELSE BuffersFor(pages, eof, "inner", Parity(Par(p).blk + 1), size)

\* Where the inner tuple goes: on the root page if that is what is split, on the
\* parent's page if it has room and is not the root, else on a page of next parity.
InnerBlocks(p, size) ==
  IF Par(p) = NoPar THEN {Root}
  ELSE IF Par(p).blk # Root /\ size <= Room(pages[Par(p).blk]) THEN {Par(p).blk}
  ELSE BuffersFor(pages, eof, "inner", Parity(Par(p).blk + 1), size)

\* The split is written in one WAL record.  If the new tuple could not be placed
\* the loop goes on with the inner tuple.
SplitTo(p, split, k, moved, ib, nb, pgs, end) ==
  LET ts == Splitting(p)
      b == Cur(p).blk
      to == [blk |-> ib, off |-> IF b = Root THEN 1 ELSE NewOff(pgs[ib])]
      left == Deleted(pgs[b], OldOffsets(p), Redirect(to, ins[p].xid))
      put == Placed(split, ts, k, moved, b, left, nb, IF nb = 0 THEN left ELSE pgs[nb])
      inner == Inner(PickScope({ts[i].key : i \in DOMAIN ts}), split.same,
                     [n \in DOMAIN split.labels |-> Node(split.labels[n], put.links[n])])
      leafs == [x \in Blocks |-> IF x = b THEN put.cur ELSE IF x = nb THEN put.new ELSE pgs[x]]
      whole == IF b = Root THEN [leafs EXCEPT ![Root] = [type |-> "inner", tups |-> <<inner>>]]
               ELSE [leafs EXCEPT ![ib] = Put(@, to.off, inner)]
  IN /\ pages' = WithLink(whole, Par(p), to)
     /\ eof' = end
     /\ IF k = Len(ts) THEN Done(p)
        ELSE /\ At(p, "work", to, Par(p))
             /\ xlock' = Holding(p, {to.blk} \cup ({Par(p).blk} \cap Blocks))

PickSplit(p) ==
  /\ AtLeaf(p) /\ LeafSize > Room(CurPage(p)) /\ (~Movable(p) \/ BadChain(p))
  /\ IF BadChain(p) THEN Fails(p, "unexpected SPGiST tuple state") ELSE
     LET ts == Splitting(p)
         split == CheckAllTheSame(ts)
         isRoot == Cur(p).blk = Root
         old == Len(ts) - 1
         k == IF split.withNew THEN old + 1 ELSE old
         curspace == IF isRoot THEN 0
                     ELSE ExactFree(CurPage(p)) + (LeafSize - 1) * old
     IN \E ib \in InnerBlocks(p, 1 + Len(split.labels)) :
          LET pgs == IF ib = Root THEN pages ELSE WithBuffer(pages, eof, "inner", ib)
              end == EndWith(eof, ib)
          IN IF LeafSize * k <= curspace
             THEN SplitTo(p, split, k, {}, ib, 0, pgs, end) /\ UNCHANGED <<rowst, nextXid, hits, errs>>
             ELSE \E nb \in BuffersFor(pgs, end, "leaf", NoParity, Min({LeafSize * k, Cap["leaf"]})) :
                    LET pgs2 == WithBuffer(pgs, end, "leaf", nb)
                        newspace == ExactFree(pgs2[nb])
                        first == Assigned(split, k, curspace, newspace)
                        second == Assigned(split, old, curspace, newspace)
                    IN IF Fits(first)
                       THEN /\ SplitTo(p, split, k, first.moved, ib, nb, pgs2, EndWith(end, nb))
                            /\ UNCHANGED <<rowst, nextXid, hits, errs>>
                       ELSE IF Fits(second)
                       THEN /\ SplitTo(p, split, old, second.moved, ib, nb, pgs2, EndWith(end, nb))
                            /\ UNCHANGED <<rowst, nextXid, hits, errs>>
                       ELSE Fails(p, "failed to divide leaf tuple groups across pages")
  /\ UNCHANGED <<radix, scan>>

-----------------------------------------------------------------------------
(***************************************************************************)
(* At an inner tuple: spgMatchNodeAction, spgAddNodeAction and             *)
(* spgSplitNodeAction.                                                     *)
(***************************************************************************)
\* Only the current page stays locked, as that of the parent.  The choose method
\* is called on whatever the downlink leads to: it has to be an inner tuple.
MatchNode(p) ==
  /\ AtInner(p)
  /\ \/ /\ Choose(Tuple(p), Key(p)) = "match"
        /\ \E n \in IF Tuple(p).same THEN DOMAIN Tuple(p).nodes ELSE Matching(Tuple(p), Key(p)) :
             At(p, "child", Tuple(p).nodes[n].link, [blk |-> Cur(p).blk, off |-> Cur(p).off, node |-> n])
        /\ xlock' = Holding(p, {Cur(p).blk})
        /\ UNCHANGED <<pages, eof, rowst, nextXid, hits, errs>>
     \/ Choose(Tuple(p), Key(p)) = "error" /\ Fails(p, "not an inner tuple")
  /\ UNCHANGED <<radix, scan>>

\* The tuple is replaced in place, or moves to a page of the same parity and
\* leaves a redirect.
AddNode(p) ==
  /\ AtInner(p) /\ Choose(Tuple(p), Key(p)) = "add"
  /\ LET t == Tuple(p)
         wide == [t EXCEPT !.nodes = Append(@, Node(PartWith(t.scope, Key(p)), NoLink))]
         b == Cur(p).blk
     IN IF ExactFree(CurPage(p)) >= 1
        THEN /\ pages' = [pages EXCEPT ![b].tups[Cur(p).off] = wide]
             /\ UNCHANGED <<eof, xlock, rowst, nextXid, ins, hits, errs>>
        ELSE IF b = Root THEN Fails(p, "cannot enlarge root tuple any more")
        ELSE \E nb \in BuffersFor(pages, eof, "inner", Parity(b), Size(wide)) :
               LET pgs == WithBuffer(pages, eof, "inner", nb)
                   to == [blk |-> nb, off |-> NewOff(pgs[nb])]
                   moved == WithLink([pgs EXCEPT ![nb] = AddItem(@, wide)], Par(p), to)
               IN /\ pages' = [moved EXCEPT ![b].tups[Cur(p).off] = Redirect(to, ins[p].xid)]
                  /\ eof' = EndWith(eof, nb)
                  /\ At(p, "work", to, Par(p))
                  /\ xlock' = Holding(p, {nb, Par(p).blk})
                  /\ UNCHANGED <<rowst, nextXid, hits, errs>>
  /\ UNCHANGED <<radix, scan>>

\* spg_text_choose: the upper tuple has the common prefix and one node, the next
\* character, for the lower one; over an allTheSame tuple the dummy node.
UpperOf(t, k) ==
  IF k \in t.scope THEN [scope |-> t.scope, label |-> Dummy]
  ELSE LET G == Smallest(t.scope \cup {k})
       IN [scope |-> G, label |-> CHOOSE H \in Parts(G) : t.scope \subseteq H]

\* The upper tuple takes the place of the old one; the lower one goes to the same
\* page if there is room, but not if that is the root, else to the next parity.
SplitTuple(p) ==
  /\ AtInner(p) /\ Choose(Tuple(p), Key(p)) = "split"
  /\ LET t == Tuple(p)
         up == UpperOf(t, Key(p))
         b == Cur(p).blk
         upper(to) == Inner(up.scope, FALSE, <<Node(up.label, to)>>)
         size == Size(upper(NoLink))
     IN IF b = Root \/ Room(CurPage(p)) < size
        THEN \E nb \in BuffersFor(pages, eof, "inner", Parity(b + 1), Size(t)) :
               LET pgs == WithBuffer(pages, eof, "inner", nb)
                   to == [blk |-> nb, off |-> NewOff(pgs[nb])]
               IN /\ pages' = [pgs EXCEPT ![nb] = AddItem(@, t), ![b].tups[Cur(p).off] = upper(to)]
                  /\ eof' = EndWith(eof, nb)
        ELSE LET cut == Put(CurPage(p), Cur(p).off, upper(NoLink))
                 to == [blk |-> b, off |-> NewOff(cut)]
             IN /\ pages' = [pages EXCEPT ![b] = Put(AddItem(cut, t), Cur(p).off, upper(to))]
                /\ UNCHANGED eof
  /\ UNCHANGED <<xlock, radix, rowst, nextXid, ins, scan, hits, errs>>

-----------------------------------------------------------------------------
(***************************************************************************)
(* mspgWalk                                                                *)
(***************************************************************************)
ScanStart(s, k) ==
  /\ scan[s].st = "ready"
  /\ scan' = [scan EXCEPT ![s] =
       [st |-> "running", key |-> k, xmin |-> Xmin, queue |-> {RootLink}, found |-> {},
        must |-> {r \in Rows : rowst[r] = "present" /\ k \in KeySet(r)}]]
  /\ UNCHANGED <<tree, radix, rowst, nextXid, ins, hits, errs>>

\* What lies behind a queue item: rows, further items, or an error.
LeafRows(ts, offs, k) == {ts[o].row : o \in {x \in ToSet(offs) : ts[x].st = "leaf" /\ ts[x].key = k}}
Behind(l, k) ==
  LET pg == pages[l.blk]
      t == TupleAt(pages, l)
      none == [queue |-> {}, rows |-> {}, err |-> {}]
  IN IF pg.type = "leaf" /\ l.blk = Root
     THEN [none EXCEPT !.rows = LeafRows(pg.tups, [i \in DOMAIN pg.tups |-> i], k)]
     ELSE IF t.st = "redirect" THEN [none EXCEPT !.queue = {t.to}]
     ELSE IF t.st = "leaf" /\ pg.type = "leaf"
     THEN [none EXCEPT !.rows = LeafRows(pg.tups, Chain(pg.tups, l.off), k)]
     ELSE IF t.st = "dead" /\ pg.type = "leaf" THEN none
     ELSE IF t.st = "inner"
     THEN [none EXCEPT !.queue = {t.nodes[n].link : n \in {x \in DOMAIN t.nodes : Visits(t.nodes[x], k)}}
                                 \ {NoLink}]
     ELSE [none EXCEPT !.err = {"unexpected SPGiST tuple state"}]

ScanItem(s) ==
  /\ scan[s].st = "running"
  /\ \E l \in scan[s].queue :
       /\ Free(l.blk)
       /\ LET behind == Behind(l, scan[s].key)
          IN /\ scan' = [scan EXCEPT ![s] = [@ EXCEPT !.queue = (@ \ {l}) \cup behind.queue,
                                                      !.found = @ \cup behind.rows]]
             /\ errs' = errs \cup behind.err
  /\ UNCHANGED <<tree, radix, rowst, nextXid, ins, hits>>

ScanEnd(s) ==
  /\ scan[s].st = "running" /\ scan[s].queue = {}
  /\ scan' = [scan EXCEPT ![s].st = "done"]
  /\ UNCHANGED <<tree, radix, rowst, nextXid, ins, hits, errs>>
-----------------------------------------------------------------------------
\* What a backend does on its own once it inserts a row.
Step(p) ==
  \/ NextEntry(p) \/ LockRoot(p) \/ LockChild(p) \/ ChildLocked(p)
  \/ AddLeaf(p) \/ NewLeaf(p) \/ MoveLeafs(p) \/ PickSplit(p)
  \/ MatchNode(p) \/ AddNode(p) \/ SplitTuple(p)
ScanStep(s) == ScanItem(s) \/ ScanEnd(s)

\* All rows are dealt with and all scans are over: nothing is left to do.
Quiescent ==
  /\ \A p \in Inserters : ins[p].pc = "idle"
  /\ \A r \in Rows : rowst[r] # "absent"
  /\ \A s \in Scanners : scan[s].st = "done"

TreeNext ==
  \/ \E p \in Inserters : (\E r \in Rows : BeginRow(p, r)) \/ Step(p) \/ Interrupt(p)
  \/ \E s \in Scanners : (\E k \in Keys : ScanStart(s, k)) \/ ScanStep(s)
Next == TreeNext \/ (Quiescent /\ UNCHANGED vars)

Spec == Init /\ [][Next]_vars

\* Page locks are held for a bounded time and their queues are served in order,
\* so a backend that can take its next step takes it.  Nobody has to start, and
\* nothing has to interrupt.  CanStep(p) is ENABLED Step(p): only the root is
\* waited for, all other locks are conditional.
CanStep(p) == ins[p].pc # "idle" /\ (ins[p].pc = "root" => Free(Root))
FairSpec ==
  /\ Spec
  /\ \A p \in Inserters : <>[]CanStep(p) => []<><<Step(p)>>_vars
  /\ \A s \in Scanners : WF_vars(ScanStep(s))
-----------------------------------------------------------------------------
(***************************************************************************)
(* Properties                                                              *)
(***************************************************************************)
Sites == UNION {{[blk |-> b, off |-> o] : o \in DOMAIN pages[b].tups} : b \in Blocks}
TuplesOf(st) == {l \in Sites : TupleAt(pages, l).st = st}
LinksOf(t) == {n \in DOMAIN t.nodes : t.nodes[n].link # NoLink}
Downlinks == UNION {{<<l, n>> : n \in LinksOf(TupleAt(pages, l))} : l \in TuplesOf("inner")}
DownlinkTo(x) == TupleAt(pages, x[1]).nodes[x[2]].link

\* Every variable has its type.
TypeOK ==
  /\ \A b \in Blocks :
       /\ pages[b].type \in {"new", "leaf", "inner"}
       /\ pages[b].tups # <<>> => b < eof /\ Used(pages[b].tups) <= Cap[pages[b].type]
       /\ \A o \in DOMAIN pages[b].tups :
            LET t == pages[b].tups[o] IN
            \/ t \in {Placeholder, Dead}
            \/ t.st = "redirect" /\ t.to \in Link /\ t.xid \in 1..(nextXid - 1)
            \/ /\ t.st = "leaf" /\ pages[b].type = "leaf"
               /\ t.row \in Rows /\ t.key \in Keys /\ t.next \in Nat
            \/ /\ t.st = "inner" /\ pages[b].type = "inner"
               /\ t.scope \subseteq Keys /\ t.same \in BOOLEAN
               /\ \A n \in DOMAIN t.nodes :
                    t.nodes[n].label \subseteq Keys /\ t.nodes[n].link \in Link
  /\ eof \in Nat /\ nextXid \in Nat /\ hits \in 0..MaxHits /\ radix \in BOOLEAN
  /\ xlock \in [Blocks -> Inserters \cup {NoProc}]
  /\ rowst \in [Rows -> {"absent", "inserting", "present", "aborted", "dead"}]
  /\ \A p \in Inserters :
       /\ ins[p].pc \in {"idle", "root", "work", "child", "next"} /\ ins[p].cur \in Link
       /\ ins[p].pc \in {"idle", "root", "next"} => Held(p) = {}
       /\ ins[p].pc = "child" => Held(p) = {Par(p).blk}
       /\ ins[p].pc = "work" => Held(p) = ({Par(p).blk} \cup {Cur(p).blk}) \ {0}
  /\ \A s \in Scanners : scan[s].queue \subseteq Link /\ scan[s].found \subseteq Rows

\* The downlinks form a tree: each leads to a live inner tuple or to the head of
\* a chain (which may be a dead tuple), no two to the same one, and every inner
\* tuple, dead tuple and leaf tuple hangs on it, though nothing but the descent
\* order of the locks keeps two backends from relinking the same tuple.
OneWayIn ==
  LET downlinks == Downlinks
      leafs == TuplesOf("leaf")
      inChain == {m \in leafs : TupleAt(pages, m).next # 0}
      there == leafs \cup TuplesOf("dead") \cup TuplesOf("inner")
      linked == {DownlinkTo(x) : x \in downlinks}
      chained == {[blk |-> l.blk, off |-> TupleAt(pages, l).next] : l \in inChain}
      onRoot == IF pages[Root].type = "leaf" THEN {l \in leafs : l.blk = Root} ELSE {RootLink}
  IN /\ Cardinality(linked) = Cardinality(downlinks)
     /\ Cardinality(chained) = Cardinality(inChain)
     /\ linked \subseteq there /\ chained \subseteq leafs /\ linked \cap chained = {}
     /\ there \ onRoot \subseteq linked \cup chained
     /\ RootLink \notin linked

\* The rows a scan for k would find if nobody else did anything.
FoundNow(k) ==
  LET walk[n \in 0..Cardinality(Blocks)] ==
        IF n = 0 THEN [queue |-> {RootLink}, rows |-> {}]
        ELSE LET w == walk[n - 1]
             IN [queue |-> UNION {Behind(l, k).queue : l \in w.queue},
                 rows |-> w.rows \cup UNION {Behind(l, k).rows : l \in w.queue}]
  IN walk[Cardinality(Blocks)].rows

\* In every state - in the middle of a descent, between the entries of a row,
\* after a split that left the new tuple out - a row is found under each of its
\* keys from the moment they are inserted.
Findable ==
  \A r \in Rows : rowst[r] = "present" => \A k \in KeySet(r) : r \in FoundNow(k)

\* The index has a row only under keys extracted from it, however often an
\* insertion was repeated.
EntriesAreKeys ==
  \A l \in TuplesOf("leaf") :
    TupleAt(pages, l).key \in KeySet(TupleAt(pages, l).row)

\* No error of the tree code is ever raised: nobody arrives at a placeholder or
\* at a slot that no longer exists, no chain has a gap, every split succeeds.
NoTreeErrors == errs = {}

\* Every insertion ends, however often two inserters send each other back to the
\* root, and every scan ends too: in the end nobody is at work.
AllEnd ==
  <>[](/\ \A p \in Inserters : ins[p].pc = "idle"
       /\ \A s \in Scanners : scan[s].st # "running")

\* The tree keeps the promise of IndexContract: moves, splits, redirects and
\* repeated descents are invisible.
Hidden(q) == [st |-> q.st, key |-> q.key, must |-> q.must,
              found |-> IF q.st = "done" THEN q.found ELSE {}]
Contract == INSTANCE IndexContract WITH
              KeysOf <- [r \in Rows |-> KeySet(r)],
              Ready <- Hidden(ReadyScan),
              query <- [s \in Scanners |-> Hidden(scan[s])]
ImplementsContract == Contract!Spec
=============================================================================
