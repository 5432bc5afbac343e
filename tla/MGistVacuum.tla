---------------------------- MODULE MGistVacuum ----------------------------
(***************************************************************************)
(* gistbulkdelete of src/src/mgist/mgistvacuum.c, together with the        *)
(* insertions and scans of MGistTree: the pass over the blocks, which      *)
(* deletes index tuples and follows leaf splits back to earlier blocks;    *)
(* the deletion of the leaves that became empty; and, by a later pass, the *)
(* recycling of deleted pages.  One vacuum runs at a time.                 *)
(*                                                                         *)
(* Left out: statistics and the free space map (a page of type "new" is a  *)
(* page gistNewBuffer may take), and the cleanup without deletions.        *)
(***************************************************************************)
EXTENDS MGistTree, FiniteSetsExt

CONSTANTS
  Vacuum,    \* the vacuum as the holder of a lock
  MaxPasses  \* bound: vacuums

\* The blocks of a file are numbered without gaps.
ASSUME VacuumAssumption ==
  /\ Vacuum \in Lockers \ Inserters /\ MaxPasses \in Nat
  /\ IsFiniteSet(Blocks) /\ \A b \in Blocks : 0..b \subseteq Blocks

VARIABLES
  vac,     \* the vacuum
  seenBy   \* deleted block -> scanners and rows under way when it was deleted

allVars == <<vars, vac, seenBy>>

\* The pass is at block blk, having come back from block orig to it if they
\* differ; end is the length of the file as last read, nsn the start NSN, empty
\* and inner the sets of pages remembered for the second stage, where remaining
\* counts the empty leaves not yet met, par is the inner page, plsn its LSN when
\* it was read, todel the children to delete and leaf the one that is locked.
IdleVac == [st |-> "idle", blk |-> 0, orig |-> 0, end |-> 0, nsn |-> 0, doomed |-> {},
            empty |-> {}, inner |-> {}, remaining |-> 0, par |-> Root, plsn |-> 0,
            todel |-> {}, leaf |-> NoBlock, passes |-> 0]

VacInit ==
  /\ Init
  /\ vac = IdleVac
  /\ seenBy = [b \in Blocks |-> {}]

\* The length of the file, but for pages behind the last one in use, which the pass
\* would only report as free; a file that is being vacuumed is never cut.
FileEnd == 1 + Max({b \in Blocks : pages[b].type # "new"})

\* Dead to all: the row's deletion is visible to every running scan.
Running == {s \in Scanners : scan[s].st = "running"}
Removable == {r \in Rows : rowst[r] = "dead" /\ \A s \in Running : r \notin scan[s].must}

\* Variant: only the transactions that insert are waited for.
RecyclableForWriters(b) ==
  \/ pages[b].type = "new"
  \/ pages[b].type = "deleted" /\ \A r \in Rows \cap seenBy[b] : rowst[r] # "inserting"

\* gistPageRecyclable: when deleteXid is older than every snapshot, all who were
\* under way when the page was deleted have finished.
Recyclable(b) ==
  \/ pages[b].type = "new"
  \/ /\ pages[b].type = "deleted"
     /\ Running \cap seenBy[b] = {}
     /\ \A r \in Rows \cap seenBy[b] : rowst[r] # "inserting"
-----------------------------------------------------------------------------
(***************************************************************************)
(* The pass: gistvacuumscan and gistvacuumpage                             *)
(***************************************************************************)
\* Somebody deletes a row of the table.  A bound: before the first vacuum.
Kill(r) ==
  /\ vac = IdleVac /\ rowst[r] = "present"
  /\ rowst' = [rowst EXCEPT ![r] = "dead"]
  /\ UNCHANGED <<treeVars, pc, row, pos, stack, xheld, child, fin, ret, bfs, scan, aborts,
                 errs, vac, seenBy>>

\* A bound: another vacuum only if the one before has left something to recycle.
VacuumDue == vac.passes = 0 \/ \E b \in Blocks : pages[b].type = "deleted"
VacuumStart ==
  /\ vac.st = "idle" /\ vac.passes < MaxPasses /\ VacuumDue
  /\ vac' = [IdleVac EXCEPT !.st = "pass", !.end = FileEnd, !.nsn = lsn, !.doomed = Removable,
                            !.passes = vac.passes + 1]
  /\ UNCHANGED <<vars, seenBy>>

AtPage(types) ==
  /\ vac.st = "pass" /\ vac.blk < vac.end
  /\ Free(vac.blk) /\ pages[vac.blk].type \in types
Onward(v) == [v EXCEPT !.blk = vac.orig + 1, !.orig = vac.orig + 1]

\* A deleted page becomes free as soon as nobody can be on the way to it.
VacuumFree ==
  /\ AtPage({"new", "deleted"})
  /\ vac' = Onward(vac)
  /\ IF Recyclable(vac.blk)
     THEN /\ pages' = [pages EXCEPT ![vac.blk] = EmptyPage]
          /\ seenBy' = [seenBy EXCEPT ![vac.blk] = {}]
     ELSE UNCHANGED <<pages, seenBy>>
  /\ UNCHANGED <<lsn, xlock, procVars, scan, aborts, errs>>

\* Variant: only splits that are under way are noticed.
MovedBackIfUnfinished(pg) == pg.follow /\ pg.right # NoBlock /\ pg.right < vac.orig

\* A split since the vacuum began may have moved tuples to a block the pass has
\* left behind.
MovedBack(pg) ==
  (pg.follow \/ vac.nsn < pg.nsn) /\ pg.right # NoBlock /\ pg.right < vac.orig

VacuumLeaf ==
  /\ AtPage({"leaf"})
  /\ LET b == vac.blk
         pg == pages[b]
         stay == {t \in pg.items : RowOf(t.ptr) \notin vac.doomed}
         noted == IF stay = {} /\ b = vac.orig THEN [vac EXCEPT !.empty = @ \cup {b}] ELSE vac
     IN /\ IF stay = pg.items THEN UNCHANGED <<pages, lsn>>
           ELSE /\ pages' = [pages EXCEPT ![b].items = stay, ![b].lsn = lsn + 1]
                /\ lsn' = lsn + 1
        /\ vac' = IF MovedBack(pg) THEN [noted EXCEPT !.blk = pg.right] ELSE Onward(noted)
  /\ UNCHANGED <<xlock, procVars, scan, aborts, errs, seenBy>>

VacuumInner ==
  /\ AtPage({"inner"})
  /\ vac' = Onward(IF vac.blk = vac.orig THEN [vac EXCEPT !.inner = @ \cup {vac.blk}] ELSE vac)
  /\ UNCHANGED <<vars, seenBy>>

\* The file may have grown; if not, the second stage begins.
VacuumRecheck ==
  /\ vac.st = "pass" /\ vac.blk >= vac.end
  /\ vac' = IF vac.blk < FileEnd THEN [vac EXCEPT !.end = FileEnd]
            ELSE [vac EXCEPT !.st = "delete", !.end = 0, !.blk = 0, !.orig = 0, !.nsn = 0,
                             !.remaining = Cardinality(vac.empty)]
  /\ UNCHANGED <<vars, seenBy>>
-----------------------------------------------------------------------------
(***************************************************************************)
(* The second stage: gistvacuum_delete_empty_pages and gistdeletepage      *)
(***************************************************************************)
MoreParents == vac.remaining > 0 /\ vac.inner # {}

\* The downlinks to empty leaves are noted, but one of the page's downlinks has
\* to stay.  Their order on the page is left open.
VacuumParent ==
  /\ vac.st = "delete" /\ vac.todel = {} /\ vac.leaf = NoBlock /\ MoreParents
  /\ LET b == Min(vac.inner)
         links == pages[b].items
         empties == {d.ptr : d \in links} \cap vac.empty
         n == Min({Cardinality(empties), Cardinality(links) - 1})
     IN /\ Free(b)
        /\ \E D \in SUBSET empties :
             /\ Cardinality(D) = n
             /\ vac' = [vac EXCEPT !.todel = D, !.par = b, !.plsn = pages[b].lsn,
                                   !.inner = @ \ {b}, !.remaining = @ - n]
  /\ UNCHANGED <<vars, seenBy>>

\* "Don't remove the last downlink from the parent."
VacuumLastDownlink ==
  /\ vac.st = "delete" /\ vac.todel # {} /\ vac.leaf = NoBlock
  /\ Cardinality(pages[vac.par].items) = 1
  /\ vac' = [vac EXCEPT !.todel = {}]
  /\ UNCHANGED <<vars, seenBy>>

\* The child is locked before the parent.
VacuumLockLeaf ==
  /\ vac.st = "delete" /\ vac.leaf = NoBlock
  /\ Cardinality(pages[vac.par].items) > 1
  /\ \E c \in vac.todel :
       /\ Free(c)
       /\ xlock' = [xlock EXCEPT ![c] = Vacuum]
       /\ vac' = [vac EXCEPT !.leaf = c, !.todel = @ \ {c}]
  /\ UNCHANGED <<pages, lsn, procVars, scan, aborts, errs, seenBy>>

\* Variants: the leaf, the downlink or the number of downlinks is not looked at
\* again.
DeletableAnyLeaf(b, c) == Cardinality(pages[b].items) > 1 /\ DownlinksOn(b, c) # {}
DeletableAnyParent(b, c) ==
  pages[c].type = "leaf" /\ ~pages[c].follow /\ pages[c].items = {}
DeletableLast(b, c) ==
  /\ pages[c].type = "leaf" /\ ~pages[c].follow /\ pages[c].items = {}
  /\ DownlinksOn(b, c) # {}

\* The leaf is still empty, its downlink still there and not the last one.
Deletable(b, c) ==
  /\ pages[c].type = "leaf" /\ ~pages[c].follow /\ pages[c].items = {}
  /\ Cardinality(pages[b].items) > 1 /\ DownlinksOn(b, c) # {}

Underway == Running \cup {r \in Rows : rowst[r] = "inserting"}

VacuumDelete ==
  /\ vac.leaf # NoBlock /\ Free(vac.par) /\ Deletable(vac.par, vac.leaf)
  /\ LET b == vac.par
         c == vac.leaf
         same == pages[b].lsn = vac.plsn
     IN /\ pages' = [pages EXCEPT ![b].items = @ \ DownlinksOn(b, c), ![b].lsn = lsn + 1,
                                  ![c].type = "deleted", ![c].lsn = lsn + 1]
        /\ lsn' = lsn + 1
        /\ xlock' = Unlocked({c})
        /\ seenBy' = [seenBy EXCEPT ![c] = Underway]
        /\ vac' = [vac EXCEPT !.leaf = NoBlock, !.plsn = IF same THEN lsn + 1 ELSE @]
  /\ UNCHANGED <<procVars, scan, aborts, errs>>

\* If the parent was changed, the downlink may be there and not be found at the
\* offset where it was.
VacuumGiveUp ==
  /\ vac.leaf # NoBlock /\ Free(vac.par)
  /\ ~Deletable(vac.par, vac.leaf) \/ pages[vac.par].lsn # vac.plsn
  /\ xlock' = Unlocked({vac.leaf})
  /\ vac' = [vac EXCEPT !.leaf = NoBlock]
  /\ UNCHANGED <<pages, lsn, procVars, scan, aborts, errs, seenBy>>

VacuumEnd ==
  /\ vac.st = "delete" /\ vac.todel = {} /\ vac.leaf = NoBlock /\ ~MoreParents
  /\ vac' = [IdleVac EXCEPT !.passes = vac.passes]
  /\ UNCHANGED <<vars, seenBy>>
-----------------------------------------------------------------------------
VacuumStep ==
  \/ VacuumStart \/ VacuumFree \/ VacuumLeaf \/ VacuumInner \/ VacuumRecheck
  \/ VacuumParent \/ VacuumLastDownlink \/ VacuumLockLeaf \/ VacuumDelete
  \/ VacuumGiveUp \/ VacuumEnd

TreeStep ==
  /\ \/ \E p \in Inserters : (\E r \in Rows : BeginRow(p, r)) \/ Step(p)
     \/ \E s \in Scanners : (\E k \in Keys : ScanStart(s, k)) \/ ScanStep(s)
  /\ UNCHANGED <<vac, seenBy>>

VacNext ==
  \/ TreeStep
  \/ \E r \in Rows : Kill(r)
  \/ VacuumStep
  \/ Quiescent /\ vac.st = "idle" /\ vac.passes > 0 /\ UNCHANGED allVars
VacSpec == VacInit /\ [][VacNext]_allVars
-----------------------------------------------------------------------------
(***************************************************************************)
(* Properties, besides those of MGistTree                                  *)
(***************************************************************************)
\* When the pass is over, no entry of a row it was to remove is left, wherever
\* splits have moved it in the meantime: the row's place in the table is given to
\* a new row next.
PassComplete ==
  vac.st = "delete" =>
    \A b \in Blocks : pages[b].type = "leaf" =>
      \A t \in pages[b].items : RowOf(t.ptr) \notin vac.doomed

\* An internal page keeps a downlink, since "that would confuse the insertion
\* code": an inserter that arrives there must have somewhere to go, although the
\* page may be split between the vacuum's looking at it and its deleting a child.
InnerNotEmpty == \A b \in Inner : pages[b].items # {}

\* Nobody has a page in mind that was deleted and recycled: no queue of a scan and
\* no stack of an inserter leads to it, nor does the vacuum.
NobodyOnRecycled ==
  LET queued == UNION {{i.blk : i \in scan[s].queue} : s \in Scanners}
      stacked == UNION {{stack[p][i].blk : i \in DOMAIN stack[p]} : p \in Inserters}
      inMind == queued \cup stacked \cup vac.todel
  IN \A b \in inMind : pages[b].type # "new"
=============================================================================
