# Multi-Entry Search Trees: specifications and proofs

TLA+ models of the `mest` PostgreSQL extension (MGiST and MSP-GiST access
methods and their operator classes), TLC configurations that check them on
small instances, and TLAPS proofs that hold for every instance. Paths are
relative to the repository; `src/mgist/mgist.c` is `src/src/mgist/mgist.c` in
PROJECT.json.

## The system

An MGiST or MSP-GiST index is a GiST or SP-GiST index in which one heap row may
own several index entries: `extractValue` of the operator class turns the
indexed value into a list of keys, each inserted on its own. What was true of
the originals because a row has one entry has to be re-established: a scan must
return a row once, an ordered scan must return it at its nearest entry, and a
pruning test that is right for a value must be right for its pieces.

| part | state it keeps | operations | talks to |
|---|---|---|---|
| MGiST insertion (`mgist.c`) | index pages (tuples, right link, NSN, LSN, `F_FOLLOW_RIGHT`), buffer locks, the stack of a descent | descend, place tuples, split, finish a split, repair one | WAL, buffer manager, opclass (penalty, picksplit, union) |
| MGiST scan (`mgistget.c`, `mgistscan.c`) | queue of pages and rows, page data, killed offsets, TID tables | begin, rescan, next tuple, bitmap, kill items | pages, executor (`kill_prior_tuple`), opclass (consistent, distance) |
| MGiST vacuum (`mgistvacuum.c`) | pages, start NSN, sets of empty and inner pages | delete tuples, delete pages, recycle | pages, heap vacuum, FSM |
| MGiST build (`mgistbuild.c`, `mgistbuildbuffers.c`) | node buffers, parent map, build mode | sorted build, plain build, buffering build | insertion |
| utilities (`mgistutil.c`, `mgistsplit.c`) | none | space test, unions, adjusted keys, multi-column split | opclass |
| MSP-GiST insertion (`mspgdoinsert.c`) | inner tuples with nodes, leaf chains, redirects | add leaf, move chain, picksplit, add node, split tuple | pages, WAL |
| MSP-GiST scan (`mspgscan.c`) | queue, TID table | walk | pages, opclass |
| MSP-GiST vacuum (`mspgvacuum.c`) | pending list, redirects, placeholders | vacuum leaf chain, process pending | pages |
| operator classes (`multirangetypes_mest.c`, `path_mest.c`, `text_mspgist.c`, contrib) | none | extract, consistent, choose, picksplit | access methods |

Every backend works on shared pages with buffer locks. Hard are the
interleavings (a page read before and a page read after somebody else's split),
failures between the two halves of a split, retries, and everything a scan
remembers from a page it no longer has locked. What makes each part correct:

- insertion: the tree stays well formed; no indexed row ever becomes
  unfindable; an insertion raises no error of its own and ends;
- scans: all rows present when the scan began, only matching rows, each once,
  nearest first, and no hint bit on the tuple of a live row;
- vacuum: no tuple of a freed TID is left, no page is recycled that somebody may
  still visit;
- build: every row's entries all arrive;
- operator classes: no search prunes an entry it needs.

## Modules

| module | what it is |
|---|---|
| `MGistTree` | the tree: insertions, splits, repairs, failures, crashes, bitmap scans |
| `IndexContract` | what the executor may rely on: the abstract specification of `MGistTree` |
| `MGistTreeProofs` | types, locks, program points and LSNs of `MGistTree`, and its steps as steps of `IndexContract`, proved |
| `MGistStructureProofs` | the shape of the tree and of unfinished splits, proved from them |
| `MGistParentProofs` | a parent is always found again, and no error without a failure, proved from them |
| `MGistVacuum` | `MGistTree` and a vacuum that passes over it, deletes pages and recycles them |
| `MGistVacuumProofs` | the tree keeps its shape under a vacuum, proved from the proofs of `MGistTree` |
| `MGistScan` | one scan in full detail among the writes of other backends |
| `MGistScanProofs` | types, each row once, and kill hints of `MGistScan`, proved |
| `MGistScanSearchProofs` | no row lost and nearest first, proved from them |
| `MSPGistTree` | the SP-GiST tree: insertions with conditional locks and retries, bitmap scans; implements `IndexContract`, too |
| `MSPGistVacuum` | `MSPGistTree` and a vacuum that follows the tuples moved while it runs |
| `MultirangeSearch` | extraction and pruning for multiranges, R-tree and quadtree |
| `MultirangeSearchProofs` | what they find, proved for every size and limit |
| `NaturalLemmas` | lemmas on sets of naturals: least and greatest elements, ranks, enumerations, induction over finite sets |
| `MC*` and `MC*_*.cfg` | instances for TLC |

### MGistTree

State: `pages` (the file), `lsn` (end of WAL), `xlock` (exclusive buffer locks),
and per inserter the local variables of `mgistdoinsert`: `stack` (a
`GISTInsertStack`, root first), `xheld` (`xlocked`), `row`/`pos` (the loop over
entries in `mgistinsert`), `child` (the downlink chosen before a lock swap),
`fin` (the active calls of `mgistfinishsplit`, innermost first, each with the
halves still without downlink), `bfs` (the queue of `gistFindPath`). `pc` names
the place between two lock requests.

| code | actions |
|---|---|
| `mgistinsert` | `BeginRow`, `EntryDone` |
| `mgistdoinsert`, retry loop | `PopRetry` |
| reading a page: follow-right / NSN test / inner / leaf | `VisitFollow`, `VisitStale`, `VisitInner`, `VisitAdjust`, `VisitLeaf` |
| lock swaps and rechecks | `LockInner`, `LockLeaf`, `LockFix` |
| `mgistplacetopage` | `PlaceEntry`, `PlaceDownlink`, `InsertDownlink` through `FitPages`, `SplitPages`, `RootSplitPages`, `WithLeftChild`; its error `InsertDownlinkError` |
| `mgistfixsplit` | `StartFix`, `FixChain` |
| `mgistfinishsplit`, `mgistinserttuples` | `FinishLock`, `InsertDownlink`, `FinishReturn` |
| `gistFindCorrectParent`, `gistFindPath` | `FinishMoveRight`, `FindPathStep`, `FindPathError` |
| `mgistgetbitmap`, `mgistScanPage` | `ScanStart`, `ScanPage`, `ScanEnd` |
| a backend's ERROR or FATAL, a server crash | `Fail`, `Crash` |

One action is what a backend does between two lock requests. A page read under
a share lock is read in one action, so share locks are not part of the state;
exclusive locks are, with the order in which they are taken and released.
Abstractions: a key is a model value, a bounding predicate the set of keys below
it; penalty and picksplit are any choice; a tuple's offset is replaced by the
child it points to (the code re-finds offsets by the child's block number, too,
and rechecks by LSN when they may have moved); WAL records are their LSNs,
because each record's page changes happen in one critical section. A crash
loses locks and backends and keeps pages, which is what replay restores.
Pruning of dead leaf tuples (`gistprunepage`) and hint bits are in `MGistScan`, page
deletion is in `MGistVacuum`.

### MGistVacuum

Adds `vac`, the local variables of `gistvacuumscan` and
`gistvacuum_delete_empty_pages` (block, highest block reached, file length, start
NSN, the sets of empty and of inner pages, the parent in hand with the LSN it had,
the children to delete), and `seenBy`, for each deleted page the scans and
insertions under way at that moment, which is what its `deleteXid` stands for.

| code | actions |
|---|---|
| `gistbulkdelete`, start NSN | `VacuumStart` |
| `gistvacuumpage`: recyclable or deleted / leaf / inner | `VacuumFree`, `VacuumLeaf` (with the way back, `MovedBack`), `VacuumInner` |
| loop over the file's length | `VacuumRecheck` |
| `gistvacuum_delete_empty_pages` | `VacuumParent`, `VacuumLastDownlink`, `VacuumLockLeaf`, `VacuumEnd` |
| `gistdeletepage` | `VacuumDelete`, `VacuumGiveUp` |
| a heap row dies | `Kill`, also an action of `IndexContract` |

The parent is not locked between `VacuumParent` and `VacuumDelete`, so inserters
may split it or move its downlinks; if it was changed, the code may or may not
find the downlink at the offset it remembered, and the model leaves that open.
A recycled page becomes free when a vacuum comes by and everybody who was under way
at its deletion has finished; the code waits for older snapshots of the whole server,
so it recycles later, never earlier.

### MGistScan

The private state of the scan is the record `so`, field by field
`MGISTScanOpaqueData`: queue of pages, heap of rows (`mgist` keeps both in one
pairing heap ordered by `pairingheap_GISTSearchItem_cmp`), `tids` (the table of
returned TIDs), `best` and `freed` (the table of queued rows, which points to
heap items that are freed when they are returned: what the code reads through
such a pointer is arbitrary, `Froms`), page data and position, killed offsets,
current block and page LSN. The loops of `mgistgettuple` are `FirstCall`,
`ReturnRow`, `PageDone`, `KillItems`, `NextPage`, `NoMorePages`; the ordered
scan (`getNextMENearest`) is `PopRow`, `PopPage`, `NoMoreItems`; the bitmap scan
`Bitmap`, `BitmapPage`, `BitmapDone`. Between any two, other backends write: one
action per WAL record of an insertion, a split, a downlink, a pruning, a
vacuumed leaf or a deleted leaf, and heap rows are born, die and have their TIDs
reused once no index tuple points to them. The tree has at most two levels;
deeper trees are `MGistTree`'s subject.

### MSPGistTree

State: `pages` (inner tuples with nodes, leaf tuples in chains, redirects, dead
tuples and placeholders, at their offsets), `eof`, `xlock`, and per inserter the
loop variables of `mspginsert` and of the descent: entries, current and parent
position, which locks are held. A tuple's offset is state because downlinks, chains
and redirects name it. Sizes are units of a dead tuple, so placeholders that make
room, pages that are just full, and a split whose new tuple does not fit occur.

| code | actions |
|---|---|
| `mspginsert`: loop over entries, retry | `BeginRow`, `NextEntry`, `Again` |
| descent: root, conditional lock of the child, interrupts | `LockRoot`, `LockChild`, `ChildLocked`, `Interrupt` |
| `addLeafTuple`, `moveLeafs`, `doPickSplit` | `AddLeaf`, `NewLeaf`, `MoveLeafs`, `PickSplit` |
| `spgMatchNodeAction`, `spgAddNodeAction`, `spgSplitNodeAction` | `MatchNode`, `AddNode`, `SplitTuple` |
| `MSpGistGetBuffer`, `SpGistPageAddNewItem` | `BuffersFor`, `InnerBlocks`, `AddItem` |
| `mspgWalk`, `mspggetbitmap` | `ScanStart`, `ScanItem`, `ScanEnd` |

The operator class is a family of nested groups of keys: a radix tree's prefixes
(`text_mspgist.c`), or a quadtree's quadrants. `mspginsert` calls the server's
`spgdoinsert`, of which `mspgdoinsert` is a copy for more entries; the lines mapped
are those of the copy.

### MSPGistVacuum

`vac` is the main pass's block, the file length, the rows to remove and the pending
list with what is done of it. `Swept` is `vacuumLeafPage` (and `vacuumLeafRoot`),
`Cleaned` `vacuumRedirectAndPlaceholder`; the pending list is filled from redirects
younger than the vacuum and worked off after every page. `Horizon` is the oldest
transaction a running scan or insertion can see as running.

### MultirangeSearch

A multirange over a discrete type is a set of elements. `Extracted` is
`multirange_mest_extract`; `InnerConsistent` and `LeafConsistent` are the tests of
`multirange_mgist_consistent`; `Visited` with `AdjacentQuadrants` is
`mspg_multirange_quad_inner_consistent`, with the traversal value `prev`. A
behaviour takes one row and one query down a tree whose inner keys or centroids
are arbitrary (inner keys cover the entries below, a child's centroid lies in
its parent's quadrant). `Holds` says what the operator means without an index;
the executor rechecks, so only a lost row is an error.

## Runs

| run | instance and bounds | shows |
|---|---|---|
| `split` | 2 inserters, 2 new rows, 2 indexed rows of two entries, 2 keys, three levels with full leaves and a full inner page, two tuples a page, one failure between split and downlink | splits that propagate, parents that moved, repairs; `OneWayIn`, `DownlinksCover`, `Findable`, `NoTreeErrors`, `LsnOrder`, `LsnMonotone`, `FinishAtomic`, `TypeOK` |
| `scan` | three levels with room, one inserter, one scanner, one failure or crash, growing predicates may overflow (`VarSize`), fairness | `ImplementsContract` (refinement of `IndexContract`), `FreshParentSuffices`, `ScanEnds` |
| `live` | 2 inserters, three small trees (one leaf, one with a split left unfinished by a crash, a root that is a leaf), leaf splits in up to three pages, failures, crashes, fairness | `InsertEnds`; `OneWayIn` when the root is split and after crashes |
| `repair` | 2 inserters, three levels, one full leaf; one new row of two entries that splits it twice, one new row of one entry; one failure; seven blocks | finding: `DownlinksCover` is violated |
| `vacuum` | 1 inserter, 1 scanner, 2 vacuums; a full leaf behind a free block, with another leaf under the root, or both under a full inner page | `PassComplete`, `InnerNotEmpty`, `NobodyOnRecycled`, `OneWayIn`, `Findable`, `ImplementsContract` |
| `dedup` | 3 rows, one with two entries; a leaf or two leaves; 2 or 3 WAL records of other backends; all scan modes, bitmap and ordered scans restarted once | `ReturnedOnce`, `Complete`, `NearestFirst`, `OnlyDeadKilled`, `TypeOK` |
| `rescan` | as `dedup`, a plain scan restarted once | finding: `OnlyDeadKilled` is violated |
| `spinsert` | 2 inserters, 1 scanner; five trees: two chains on a full page, a full inner page, a root that is a full leaf (quadtree and equal keys); one interrupt or lock held by a stranger; fairness | `OneWayIn`, `Findable`, `NoTreeErrors`, `ImplementsContract`, `AllEnd`, `TypeOK` |
| `spvacuum` | 1 inserter of two entries, 1 scanner, 1 vacuum; chains behind free space, so that tuples move to blocks the pass has left | `PassComplete`, `RedirectsLead`, `OneWayIn`, `Findable`, `NoTreeErrors`, `ImplementsContract` |
| `spretry` | as `spinsert`, freed memory is overwritten (`Clobber`) | finding: `EntriesAreKeys` is violated |
| `find` | five elements, all multiranges, all arguments, `max_ranges` none or 2 | `EntriesCoverRow`, `IndexFindsRow`, `RTreeKeepsMatches`, `TypeOK` |
| `equal` | five elements, `=` | finding: `IndexFindsRow` is violated |

Why the bounds are enough: two tuples a page make every insertion split, which
is the interesting case; two inserters suffice for each race the code comments
name (each is between one descending and one splitting backend), and a
repairing third party is one of the two after the other failed. `MaxHalves`
three for leaves exercises the loop of `mgistfinishsplit`; more halves repeat
it. One failure leaves at most one chain of unfinished splits per level. In
`MGistScan` the shortest harmful sequences need two or three records. Five
elements give multiranges of up to three ranges, so merging two groups of
unequal size occurs. Inserters are symmetric, as are indexed rows with equal
entries and the entries of a row that is never inserted; runs with liveness use no
symmetry.

With a vacuum, the hazards need one splitter (the vacuum is the other party) and a
free block in front of the page that is split; one vacuum to delete a page and one
to recycle it. Rows die before the first vacuum begins: later deaths would only
be left to the next. An insertion does not fail in that run: an empty leaf whose
split is unfinished gets, on repair, the downlink of its left sibling's parent
(`mgistformdownlink`, `src/mgist/mgist.c:1170-1195`), and that branch is not modelled.
`FileEnd` is the end of the last block in use. The file itself never gets shorter;
the pass would find only free pages behind that block.
In `spinsert` the blocks suffice for any behaviour: no action is ever blocked for
want of one, or the run would report a deadlock.

Named bounds: `MaxHalves`, `MaxAborts`, `FailPoints`, `Crashes`, `Cap`, `Blocks`,
`InitTrees` (`MGistTree`); `MaxPasses` (`MGistVacuum`); `MaxHits`, `Cap`, `Blocks`,
`InitTrees` (`MSPGistTree`); `writes`, `MaxRescans`, `Cap` (`MGistScan`); `Size`, `Limits`
(`MultirangeSearch`). `NoTreeErrors` excuses the error "concurrent GiST page split was
incomplete" after a failure, which the comment in `mgistplacetopage` announces.

Deadlock is checked in the runs of `MGistTree`, `MGistVacuum` and `MSPGistTree` (the
only stop is when everything is done, `Quiescent`), except in `repair`, whose few blocks
may run out. The runs of the other modules end by design: a scan ends
and its bound on foreign writes is used up; a search ends.

### Fairness

`FairSpec` of `MGistTree` has weak fairness for the steps of each backend that
has begun an insertion or a scan. PostgreSQL justifies it: buffer locks are
LWLocks with first-come queues, no backend holds one while it waits for a
client, and locks are ordered child before parent and left before right, so
nobody waits for ever. Beginning an insertion or scan and failing are not fair.

`FairSpec` of `MSPGistTree` has the same for the steps of an inserter, in the form
"an inserter that can step from some point on steps again and again", with
`CanStep` in place of `ENABLED`: in SP-GiST only the root's lock is waited for, all
others are tried and the insertion starts again, so nothing else blocks. Interrupts
and strangers' locks are bounded by `MaxHits`, because a query that is interrupted
for ever need not end; what two inserters do to each other is not bounded.

### Findings

1. `rescan`: `mgistrescan` (`src/mgist/mgistscan.c:221-226`) resets queue and
   `firstCall` but not `numKilled` and `curBlkno`, and the first page of the
   restarted scan overwrites `curPageLSN`. When the remembered leaf was split and
   its downlink inserted, leaf and root carry the same LSN; the restarted scan
   reads the root, `mgistkillitems` finds the leaf "unmodified", and flags the
   tuple of a live row.
2. `repair`: a backend P reads root, inner page G and heads for leaf L. Another one
   splits L, and by that G; L's downlink now is on G's new right sibling G2, whose
   downlink in the root no longer covers P's key. L is split again, and that backend
   fails before the downlink is in. P arrives at L, sees F_FOLLOW_RIGHT
   and repairs the split before it looks at L's NSN (`src/mgist/mgist.c:719-736`);
   `gistFindCorrectParent` moves P's stack frame from G to G2 (line 1097), and there P
   goes on. G2 inherited G's old NSN (line 481), so P does not notice that G2 is not
   where its key was sent to, enlarges a downlink of G2, and inserts its entry below. The
   downlink of G2 in the root is left as it is: `DownlinksCover` is violated, and a few steps later
   `Findable`. It came to light in the attempt to prove `DownlinksCover`: the
   invariant "the key of an insertion is covered at each page on its stack that is not
   stale" is kept by every action but this one.
3. `equal`: the leaf test of `=` compares one entry with the span of the whole
   argument; a multirange of more than one range is never found.

4. `spretry`: when `spgdoinsert` gives up because a lock is not free, `mspginsert`
   (`src/mspgist/mspginsert.c:231-239`) resets the memory context that holds the
   extracted entries and repeats the descent with them. If the memory is reused in
   between, the index gets keys the row does not have. The build's callback
   (lines 97-103) has the same loop.

Not a finding, but good to know: `mgistindex_keytest` tests all scan keys on the same
entry (`src/mgist/mgistget.c:200`), so a row that satisfies two conditions with
different entries is not returned; with two scan keys `Complete` does not hold.

The passing runs leave out exactly these cases (restarted plain scans, two scan
keys, `=`, overwritten memory; the new rows of `split` have one entry each, and
`repair` needs three), and in `find` also `@>` with an empty argument and empty multirange
arguments or rows (hazards without property in PROJECT.json), so that everything
else is shown to hold around them.

## Proofs

A theorem holds for every value of the constants that meets the named assumptions
of the component's module (TLC evaluates those in every run). The inductive
invariants were checked by TLC on the instances above before they were proved, except
`ParentInv`, whose heights range over all naturals. Unless it is said otherwise there
are no further hypotheses.

| module | theorem | states |
|---|---|---|
| `MGistTreeProofs` | `TypeCorrect` | `Spec => []TypeOK` |
| | `LsnsOrdered`, `LsnsGrow` | `Spec => []LsnOrder`, `Spec => LsnMonotone` |
| | `Refines` | `Spec => (ImplementsContract <=> []AnswersComplete)` |
| `MGistStructureProofs` | `OneWayInAlways` | `Spec => []OneWayIn` |
| | `ParentsFresh` | `Spec => []FreshParentSuffices` |
| | `SplitsFinishAtOnce` | `Spec => FinishAtomic` |
| `MGistParentProofs` | `ParentRefound` | `Spec => []("refind" \notin errs)` |
| | `NoErrors` | `Spec => []NoTreeErrors`, no split unfinished at the start (`CleanStart`) |
| `MGistVacuumProofs` | `VacuumTypeCorrect`, `VacuumOneWayIn` | `VacSpec => []TypeOK`, `VacSpec => []OneWayIn` |
| | `InnerNeverEmpty`, `VacuumParentsFresh` | `VacSpec => []InnerNotEmpty`, `VacSpec => []FreshParentSuffices` |
| | `NobodyIsOnRecycled` | `VacSpec => []NobodyOnRecycled` |
| | `PassIsComplete` | `VacSpec => []PassComplete` |
| | `VacuumRefines` | `VacSpec => (ImplementsContract <=> []AnswersComplete)` |
| `MGistScanProofs` | `ScanTypes`, `RowsReturnedOnce` | `Spec => []TypeOK`, `Spec => []ReturnedOnce` |
| | `DeadTuplesFlagged` | `Spec => []OnlyDeadKilled`, plain scans not restarted |
| `MGistScanSearchProofs` | `EveryRowFound` | `Spec => []Complete`, plain scans not restarted, one scan key |
| | `NearestRowsFirst` | `Spec => []NearestFirst`, the same, ordered scans without scan key |
| `MultirangeSearchProofs` | `SearchTypes`, `EntriesAlwaysCover` | `Spec => []TypeOK`, `Spec => []EntriesCoverRow` |
| | `RTreeNeverPrunesMatches` | `Spec => []RTreeKeepsMatches` |
| | `IndexAlwaysFindsRow` | `Spec => []IndexFindsRow`, queries the operator class can answer |

### MGistTreeProofs

The theorems rest on `Inductive`: `Spec => []IInv`. Types alone are not inductive: an
insertion pops its stack, indexes it from the top by `fin[p][1].up`, and follows
downlinks and right links, so `IInv` adds

- `GoodPages`: downlinks of inner pages lead to blocks and tuples of leaves to
  entries, right links to pages in use, never to the root; the root is in use,
  without right sibling, NSN or flag; `nsn <= lsn <=` end of WAL on every page;
- `ProcOK`: the stack of a busy backend is anchored at the root, whose frame is
  never marked for retry; the calls of `mgistfinishsplit` are nested bottom-up and
  each works for a frame that has a parent; a split under way has at least two
  halves, all pages in use; the kind of a page whose lock is being swapped is the
  one seen; every remembered LSN is at most the end of WAL;
- the same bound for the parent LSNs a scan has queued.

Pages that a vacuum has deleted are of the type `deleted`, which the actions of
`MGistTree` alone never produce. The invariants allow them all the same, and locks
of a process that is no inserter (`Lockers` is who may lock a page; `ProcAssumption`):
a deleted page keeps the LSN of its deletion and no way leads to it (`InTree` are the pages in
use that are not deleted, `RightUsed` the blocks whose right link leads to one).
`TreeStepOK` states what any step of an inserter keeps, whoever else writes.

There is one lemma per action (`VisitInnerOK`, `InsertDownlinkOK`, ...), each
concluding `IInv' /\ Grown`, where `Grown` says that the step left the pages alone or
wrote pages all of which carry the new LSN. The lemmas on `SplitPages`,
`RootSplitPages` and `FitPages` are shared by the actions that place tuples.
`InitAssumption` describes an index as a build or a crash leaves it.

`Refines` maps every step to a step of `IndexContract`, or to none. `AnswersComplete`
says that a scan that is done has found all it had to find; everything else the
contract asks is proved: a row is begun once and ended once, as inserted or as
given up, scans start and answer once, a crash ends what is in progress, and an answer
has no row without the key and none that was never given to the index. The converse
shows that the contract asks for no less. `ContractInv`, inductive relative to `IInv`, says that

- busy backends insert rows of their own (`OwnRows`);
- the index tuples on leaves are those of the entries of rows given to the index, with
  their keys (`LeavesIndexed`): what a step adds to the leaves is the entry its
  backend inserts (`LeavesKept`), because splits distribute the tuples of one page and
  a page that gets a downlink is no leaf. `IndexedAssumption` says it of the initial trees;
- the rows a scan has found match its key (`ScansSound`).

`RowEffect` is what a step of an inserter is for the contract: it goes on with its row, or
ends it.

### MGistStructureProofs

`OneWayIn` is not inductive on top of `IInv`: that the downlink a backend inserts is the
second way into no page depends on what it knows of the split. `StructInv` has

- `OneWay`: each page in use but the root has exactly one way in, a downlink or a
  right link of an unfinished split, and no unused block has one;
- `FreshLinks`: no child's NSN is ahead of the LSN of the page with its downlink;
- `Held`: locks are on pages in use;
- `ProcStruct`, for each backend: the halves of a split are distinct, chained by
  F_FOLLOW_RIGHT (which goes on behind the last one only while `mgistfixsplit` still
  collects them), and locked by it together with the parent once that is locked
  (`SplitsOK`); nested calls of `mgistfinishsplit` share no page but the parent that was
  split, which is what allows the inner one to release its locks (`Apart`); a page
  whose lock is swapped and whose LSN is unchanged is not half split (`Unmoved`).

One lemma per action (`PlaceEntryStruct`, `InsertDownlinkStruct`, ...) shows that the
actor's part is kept, and `Held` with the locks that the parts of the others are.
`Logged` says what one step writes, and that pages a stranger has locked stay as they are.
`StepStruct` is the theorem's step with nothing assumed about who else writes.
The initial trees have one way into each page by `OneWayAssumption`; they include
trees with splits that a crash left unfinished. By `InitTree` right links join pages of
the same kind and inner pages have downlinks.

### MGistParentProofs

`NoTreeErrors` has two parts, with an invariant for each.

That a parent is found again is not about the parent that was on the stack: it may have been
split away since, up to the root. `gistFindCorrectParent` then lets `gistFindPath` search
the tree from the root by breadth, one page at a time, among the splits of other backends.
The search must neither run dry nor come down to the leaves. `ParentInv`, inductive
relative to `StructInv`, has

- `Rooted`: every set of blocks that contains the root and is closed under downlinks and
  the right links of unfinished splits (`Closed`) contains all pages in use: with
  `OneWay` alone pages could lead to each other in a ring;
- `Levels`: there is a height for each page, one more on a parent than on its children, 0 on the
  leaves, and equal along right links. Heights change only when the root is split, which adds
  one to the root's;
- `Ahead`: the page that leads to the child is in every closed set that contains the pages the
  queued paths stand for, each with the siblings split from it since its parent was read
  (`Rightward`). Reading a page replaces its path by those to its children and to a
  sibling missed, which stand for the same; a write moves what it takes off a page to blocks
  that are to the right of it (`ChainReached`). The empty set leads to no page, so the
  queue never runs out (`QueueNotEmpty`);
- `Deep`: queued paths lead to pages in use, and height and length of the path add up to the same
  for all of them. So when a path leads to a leaf all do, and by `Ahead` the
  page that leads to the child would have to be a leaf, the left half of an unfinished split
  with the child on its right;
- `LeafEntered`: but a backend comes to a leaf by a downlink and never by such a
  right link (`ParentAbove` is the contradiction).

The second part is `Attended`: unless a backend has failed, every page with
F_FOLLOW_RIGHT is a half in one of the calls of `mgistfinishsplit` of some backend, which
has it locked (`AttendedLocked`). So nobody else can read a flag (`NothingIncomplete`), and the
branches that report or repair an incomplete split are not taken. A call hands its halves
on in pairs from the right (`RemainingMinds`), and a parent that is split in turn gets a call of its own
in the same step (`InsertDownlinkMinds`). `CleanStart` is needed: with a split left
over from a crash before, a backend that searches a parent and reads that page, or has to
write a downlink to it, reports the error though nobody has failed since, as
`mgistplacetopage` announces.

`BalanceAssumption` says of the initial trees that all pages in use are reached from the root
and all leaves are at the same depth, as a build and earlier insertions, also
those cut off by a crash, leave them.

### MGistVacuumProofs

`MGistVacuum` has the actions of `MGistTree` as they are, so an inserter's part of `IInv`
and `StructInv` is `TreeStepOK` and `StepStruct` again, which allow deleted pages and the
locks of a stranger. `VInv` adds

- `VacLocks`: the vacuum holds the lock of the leaf it looks at and no other;
- `VacTargets`: pages remembered as internal still are, and the children to be deleted
  are in use: only the vacuum deletes pages, and it deletes leaves;
- `RowsBusy`, `Witnessed`: a backend that has a deleted page in mind, at the end of
  its stack or of a path of `gistFindPath`, inserts a row that was under way when the
  page was deleted. So `gistPageRecyclable` holds the page back until it is done, and
  recycling takes no page from under a stack;
- `NonEmpty`: internal pages have downlinks.

`Tended` states what a step of the vacuum leaves alone: pages inserters have locked, the
kind of internal pages, pages that are in mind. From it `TendedOK` derives the part of
the inserters once for all steps of the vacuum; `ThinnedOK` (index tuples go),
`DeletedOK` (the leaf and its downlink go, the right link stays), and `EmptiedGood` (the
block becomes free) are the changes of pages. That deletion removes the only
way into the leaf needs `OneWay`, and that its left sibling is not half split needs that it has a
downlink. In the other direction `Moves` says what a step of an inserter does to
its row, stack and paths: a page that is newly in mind is one it just read and found in
the tree (`KnownEnd`).

For scans `NobodyOnRecycled` needs more, since right links are not repaired when a page is
deleted and may lead to a recycled one. `ScansInv` is proved inductive relative to `VInv`:

- `ScanAhead`: for a running scan there is a set of items that contains its queue, is closed under
  the right links the scan would follow (`Closed`), and whose pages are in use or were
  deleted while the scan was running (`Reserved`), so that recycling waits for it;
- `FreshChains`: there is a bound on the NSN of every page (`Bounds`) that the LSN of the page with
  its downlink reaches, and which is inherited along F_FOLLOW_RIGHT. So the
  children of a page that was just read lead to the right only over unfinished
  splits, whose right siblings are in use.

A write keeps both because what it moves off a page, it moves to blocks on the way to the
old right sibling (`WriteSpread`), and because the left sibling whose NSN it sets is led to
from a downlink on the very page it writes (`LedFrom`). The vacuum only takes ways away
(`Recedes`).

`PassComplete` is about the pass that inserters overtake: a split may move a tuple to a
block the pass has left behind. `PassInv`, inductive relative to `VInv`, says where such
tuples are while the pass is on its way. A leaf is marked (`Marked`) if its split is unfinished
or its NSN is newer than the pass, so that the pass looks to its right.

- Each leaf with a tuple that is to be removed (`Dirty`) is ahead of the pass (`Ahead`), or
  right links of marked leaves lead to it from a block that is ahead: every set of
  blocks that contains those ahead and is closed under these links (`Reaching`) contains it.
- When the pass has gone back behind its place `orig`, the blocks it has come by since are
  clean, and from a marked one among them the right link leads to a clean one or to a
  block ahead (`Trail`). Without this part the step that goes on at `orig + 1` could forget
  the chain it came back along.
- The rows to be removed are dead, so no inserter adds a tuple of theirs
  (`NothingDoomed`): a tuple names its row (`OwnersAssumption`).

A split puts the halves of a page on a chain of marked leaves that begins at the page and
ends with its old right sibling (`Halved`); finishing a split clears the flag but sets an NSN that
is newer than the pass (`KeptMarks`). The root has no right sibling and no link leads to it,
so that it can be dirty only as the first block of the pass, with all its halves ahead (`RootOnWay`). A step
of the pass cleans its page and either goes back along the link (`BackPass`) or on (`OnwardPass`); at the
end of the file no block in use is ahead, and nothing is left.

For `VacuumRefines` a step of the vacuum only takes tuples off leaves (`VacuumThins`) and is no step
of the contract; everything else is as in `Refines`, since `RowsBusy` has `OwnRows` in it.

### MGistScanProofs

`ScanInv` is `GoodIndex` (links and right links lead to pages in use, an unfinished split
has a sibling and a link) with the shape of the private state at each program point,
and says which rows are in the table of TIDs: all that were returned and all in the page
data. `ReturnedOnce` follows because `mgistScanPage` and `getNextMENearest` look there
first. Other backends enter by `RecordOK`, which every one of their
records satisfies: a page that is changed gets an LSN the scan has not seen, and flags of
dead rows move with their tuples.

For kill hints, `KillInv` says that on a page that still has the LSN the scan read
(`Fresh`), the remembered offsets are of dead rows, and each row of the page data is at
its offset. A row that is dead stays dead while a tuple of it is on the page, because a
TID is freed only after that. The hypothesis `MaxRescans["plain"] = 0` is needed: it is the
finding `rescan` that a restarted plain scan compares the LSN of one page with that of another.

### MGistScanSearchProofs

That no row is lost needs what a queued item leads to. `Chain(pages, b, p)` is the page and
the siblings the scan will follow from it, stated without recursion as what lies in every set
of pages closed under "the page is half split, or its NSN is newer than p". `Ahead` says
that an entry is on the chain of a queued item which is no farther than the entry. Then

- `AllIndexed`: each entry of a live row whose insertion is complete is on the root or on
  a leaf to which a link leads, perhaps over an unfinished split (`TwoLevels` is the shape
  that this needs);
- `AllFound`: each matching entry of a row of the snapshot is ahead, or its row is in the
  table of TIDs, or queued at least as near;
- `Handed`, `Finished`: rows in the table were returned or wait in the page data, and at
  the end neither a page nor a row is queued;
- `TableOK`, `HeapOfRows`: the table of queued rows (`tidisttable`) points to an item of
  the heap, or the item was freed because the row was returned;
- `Near`: no row still to be returned is nearer than one that was returned.

Each record of another backend satisfies `Carries`: chains only grow (`Lengthens`), an
entry moves at most to the sibling of an unfinished split (`Keeps`), and what is complete
stays covered. Reading a page keeps `AllFound` because the sibling is queued with the
distance and the parent LSN of its page (`ReadFinds`), and reading the root
establishes it (`RootFinds`). Pruning must take no tuple of a live row, hence `KillInv`
and its hypothesis. `OneKey` is needed because all scan keys are tested on the same entry,
and an ordered scan with a scan key is a hazard of its own: entries that fail it do not
count for the distance.

### MultirangeSearchProofs

The entries of a multirange are its runs, enumerated by rank; `EntriesAlwaysCover` shows
that groups of neighbouring runs are merged so that the limit is met and nothing is left
out. The search is proved with `Match`, a condition on one entry that is
stronger than the leaf test and that some entry of a row that holds satisfies;
`SearchInv` says that on the way to an entry that matches, nothing was pruned: the R-tree
visits its subtree, and in the quadtree no matching entry has left `live`, the entries
still reachable. A centroid below the first lies in the quadrant of `prev` the entry
lies in, which is why the bounds drawn from `prev` are sound there. `Answerable` excludes `=` (the
finding `equal`) and containment of an empty argument (a hazard).

### NaturalLemmas

Least elements, greatest elements and the enumeration of a finite set in ascending order by
counting. The induction theorems of the library take an operator as a parameter;
`SetInduction` states well-foundedness of strict inclusion for a set of sets, which
needs none.

### Only model-checked

- `DownlinksCover` and `Findable` of `MGistTree`: not provable, since they are false in
  general (finding `repair`); the run `split` shows them for rows of one entry.
- `AnswersComplete` of `MGistTree` and `MGistVacuum`, which by `Refines` and
  `VacuumRefines` is all that is left of their refinement of `IndexContract`: the runs
  check it as part of `ImplementsContract`.
- The refinement of `IndexContract` by `MSPGistTree` and `MSPGistVacuum`.
- The properties of `MSPGistTree` and `MSPGistVacuum`.
- Liveness, which is out of the prover's reach as is `ENABLED`, and what the
  recursive functions `Below` and `Searched` compute for every tree, which would
  need induction over data.

## Not modelled

- The build of either access method: see the plan. Its buffers and parent map
  serve one backend alone; what is wrong with its memory and its limits is listed
  among the hazards.
- WAL replay: page changes of one record are one step, which replay repeats. No
  failures in the runs of SP-GiST, where an insertion leaves no unfinished work:
  each of its records keeps the tree whole.
- In SP-GiST: the nulls tree, values longer than a page, the order of ordered scans
  and the table that suppresses repeated rows (the scan of the model collects a set),
  recheck flags.
- The empty half of a split that is repaired after a vacuum emptied it
  (`mgistformdownlink`), see the bounds above.
- Statistics and the free space map: hints, rechecked where they are used.
- Penalty, picksplit and multi-column splitting: the tree is shown correct
  whatever they choose.
- Opclass validation, SQL declarations: no state.
- `text_mspgist.c` beyond choose and picksplit over abstract prefixes: characters,
  collations, and the recheck logic of its searches.
- `path_mest.c`: see the plan.
- contrib: pieces computed by library calls outside the repository, or vendored
  libraries. By lines most of the repository is a vendored copy of PostGIS
  (`contrib/postgis/liblwgeom`, parsers and tables), which carries none of the
  program's own logic and would be modelled in vain.
- Infinite bounds, continuous ranges, empty ranges as keys, NULL keys and NULL
  distances.

## Plan

1. Done: `MGistTree`, `IndexContract`, `MGistScan`, `MultirangeSearch`,
   `MGistTreeProofs`, `MSPGistTree`, `MSPGistVacuum`, `MGistVacuum`.
2. `MGistBuild`: build modes, the memory context of the callback, step tests.
3. `PathSearch`: boxes of paths and their pruning tests, like `MultirangeSearch`.
4. Proofs. Done: types, LSNs, structure, split completion and errors of `MGistTree`; types,
   structure, `InnerNotEmpty`, `NobodyOnRecycled` and `PassComplete` of `MGistVacuum`; all
   properties of `MGistScan`; all properties of `MultirangeSearch`. The refinement
   of `IndexContract` by both but for the completeness of answers. Left: that; types and safety of
   `MSPGistTree`; the search for parents when a vacuum deletes leaves meanwhile.
