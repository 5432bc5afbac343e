--------------------------- MODULE MSPGistVacuum ---------------------------
(***************************************************************************)
(* spgbulkdelete of mspgvacuum.c, together with the insertions and scans   *)
(* of MSPGistTree.  The vacuum walks over the blocks of the file once and  *)
(* locks one page at a time, while insertions move tuples to other pages:  *)
(* each such move leaves a redirect, and the vacuum follows those made     *)
(* since it began.  One vacuum runs at a time.  What a page visit does is  *)
(* one step: the page is locked exclusively all the time.                  *)
(*                                                                         *)
(* Left out: the statistics, the nulls tree, the free space map (an empty  *)
(* page is free for any use), and the cleanup without deletions.           *)
(***************************************************************************)
EXTENDS MSPGistTree

VARIABLE vac  \* the running vacuum

allVars == <<vars, vac>>

\* blk is the next block of the main pass, end the length of the file as last
\* read, todo the list of pending TIDs and done those of them that are done.
IdleVac == [st |-> "idle", blk |-> Root, end |-> 0, doomed |-> {}, xmin |-> 0,
            todo |-> <<>>, done |-> {}]
VacInit == Init /\ vac = IdleVac

NextBlock(b) == Min({x \in Blocks : x > b} \cup {Max(Blocks) + 1})
Pending == {i \in DOMAIN vac.todo : vac.todo[i] \notin vac.done}

\* Dead to all: the row's deletion is visible to every running scan.
Removable == {r \in Rows : rowst[r] \in {"dead", "aborted"}
                /\ \A s \in Scanners : scan[s].st = "running" => r \notin scan[s].must}

\* Variant: the snapshots of scans are not looked at.
HorizonOfWriters == Xmin
\* GlobalVisTestIsRemovableXid: nobody's snapshot sees the transaction as running.
Horizon == Min({Xmin} \cup {scan[s].xmin : s \in {x \in Scanners : scan[x].st = "running"}})
-----------------------------------------------------------------------------
(***************************************************************************)
(* One page                                                                *)
(***************************************************************************)
\* Variant: a chain whose head goes becomes a dead tuple.
SweptWithHead(ts, dead) ==
  [o \in DOMAIN ts |->
     IF ts[o].st # "leaf" \/ ts[o].row \notin dead THEN ts[o]
     ELSE IF \E i \in DOMAIN ts : ts[i].st = "leaf" /\ ts[i].next = o THEN Placeholder ELSE Dead]

\* vacuumLeafPage: a downlink leads to the head of a chain, so the first tuple
\* that stays moves there, and the others are linked to it; a dead tuple keeps
\* the place of a chain nothing is left of.
Swept(ts, dead) ==
  LET leafs == {o \in DOMAIN ts : ts[o].st = "leaf"}
      heads == leafs \ {ts[i].next : i \in leafs}
      stays(o) == ts[o].row \notin dead
      kept(h) == SelectSeq(Chain(ts, h), stays)
      after(h, i) == IF i < Len(kept(h)) THEN kept(h)[i + 1] ELSE 0
      swept(o, h) ==
        IF o = h THEN IF kept(h) = <<>> THEN Dead ELSE [ts[kept(h)[1]] EXCEPT !.next = after(h, 1)]
        ELSE IF ~stays(o) \/ (~stays(h) /\ o = kept(h)[1]) THEN Placeholder
        ELSE [ts[o] EXCEPT !.next = after(h, CHOOSE i \in DOMAIN kept(h) : kept(h)[i] = o)]
  IN [o \in DOMAIN ts |-> IF o \notin leafs THEN ts[o]
                          ELSE swept(o, CHOOSE h \in heads : o \in ToSet(Chain(ts, h)))]

\* Variant: dead tuples at the end of the page go, too.
CleanedOfDead(ts) ==
  LET last == Max({0} \cup {o \in DOMAIN ts : ts[o] \notin {Placeholder, Dead}})
  IN SubSeq(ts, 1, last)

\* vacuumRedirectAndPlaceholder: redirects no scan can be on its way to become
\* placeholders, and the placeholders at the end of the page go.
Cleaned(ts) ==
  LET old(t) == t.st = "redirect" /\ t.xid < Horizon
      faded == [o \in DOMAIN ts |-> IF old(ts[o]) THEN Placeholder ELSE ts[o]]
      last == Max({0} \cup {o \in DOMAIN ts : faded[o] # Placeholder})
  IN SubSeq(faded, 1, last)

\* spgAddPendingTID, for one TID after the other.
WithPending(todo, links) ==
  FoldLeft(LAMBDA q, l : IF l \in ToSet(q) THEN q ELSE Append(q, l), todo, links)

\* Variant: redirects of the transaction that was the oldest are not followed.
FreshIfLater(t) == t.st = "redirect" /\ t.xid > vac.xmin
\* The redirects that may have been made since the vacuum began.
Fresh(t) == t.st = "redirect" /\ t.xid >= vac.xmin
Targets(ts) ==
  LET fresh == SelectSeq(ts, Fresh) IN [i \in DOMAIN fresh |-> fresh[i].to]

Vacuumed(b) ==
  LET ts == pages[b].tups
  IN IF pages[b].type # "leaf" THEN Cleaned(ts)
     ELSE IF b = Root THEN SelectSeq(ts, LAMBDA t : t.row \notin vac.doomed)
     ELSE Cleaned(Swept(ts, vac.doomed))
-----------------------------------------------------------------------------
(***************************************************************************)
(* The pass                                                                *)
(***************************************************************************)
\* Somebody deletes a row of the table.  A bound: not after the vacuum has begun,
\* since it would not look at the row.
Kill(r) ==
  /\ vac.st = "idle" /\ rowst[r] = "present"
  /\ rowst' = [rowst EXCEPT ![r] = "dead"]
  /\ UNCHANGED <<tree, radix, nextXid, ins, scan, hits, errs, vac>>

VacuumStart ==
  /\ vac.st = "idle"
  /\ vac' = [IdleVac EXCEPT !.st = "running", !.end = eof, !.doomed = Removable, !.xmin = Xmin]
  /\ UNCHANGED vars

\* spgvacuumpage.  An empty page may be used again for anything.
VacuumPage ==
  /\ vac.st = "running" /\ Pending = {} /\ vac.blk < vac.end /\ Free(vac.blk)
  /\ LET b == vac.blk
         pg == [pages[b] EXCEPT !.tups = Vacuumed(b)]
         leaf == pages[b].type = "leaf" /\ b # Root
     IN /\ pages' = [pages EXCEPT ![b] = IF pg.tups = <<>> /\ b # Root THEN EmptyPage("new") ELSE pg]
        /\ vac' = [vac EXCEPT !.blk = NextBlock(b), !.done = {},
                              !.todo = IF leaf THEN WithPending(<<>>, Targets(pages[b].tups)) ELSE <<>>]
  /\ UNCHANGED <<eof, xlock, radix, rowst, nextXid, ins, scan, hits, errs>>

\* The pending items on an inner page, one after the other and with those that
\* are added on the way: the downlinks of the tuple, or where it went.
FollowInner(b, todo, done) ==
  FoldLeft(LAMBDA x, n :
             LET mine == {i \in DOMAIN x.todo : x.todo[i].blk = b /\ x.todo[i] \notin x.done}
             IN IF mine = {} THEN x
                ELSE LET l == x.todo[Min(mine)]
                         t == TupleAt(pages, l)
                         nodes == IF t.st = "inner" THEN SelectSeq(t.nodes, LAMBDA m : m.link # NoLink) ELSE <<>>
                         next == IF t.st = "redirect" THEN <<t.to>> ELSE [m \in DOMAIN nodes |-> nodes[m].link]
                     IN [todo |-> WithPending(x.todo, next), done |-> x.done \cup {l},
                         bad |-> x.bad \/ t.st \notin {"inner", "redirect"}],
           [todo |-> todo, done |-> done, bad |-> FALSE],
           [n \in 1..(Len(todo) + Len(pages[b].tups)) |-> n])

\* One turn of the loop of spgprocesspending.  A leaf page settles every item that
\* points at it; an item whose page is empty is passed over alone, so that a later
\* item of the same page looks again.
VacuumPending ==
  /\ vac.st = "running" /\ Pending # {}
  /\ LET l == vac.todo[Min(Pending)]
         b == l.blk
         todo == IF pages[b].type = "leaf" THEN WithPending(vac.todo, Targets(pages[b].tups)) ELSE vac.todo
         followed == FollowInner(b, todo, vac.done)
         settled == IF pages[b].type = "new" THEN {l} ELSE {x \in ToSet(todo) : x.blk = b}
     IN /\ Free(b)
        /\ IF pages[b].type = "inner"
           THEN /\ vac' = [vac EXCEPT !.todo = followed.todo, !.done = followed.done]
                /\ errs' = IF followed.bad THEN errs \cup {"unexpected SPGiST tuple state"} ELSE errs
                /\ UNCHANGED pages
           ELSE /\ vac' = [vac EXCEPT !.todo = todo, !.done = @ \cup settled]
                /\ errs' = IF b = Root THEN errs \cup {"redirection leads to root page"} ELSE errs
                /\ pages' = [pages EXCEPT ![b].tups = IF b = Root THEN @ ELSE Vacuumed(b)]
  /\ UNCHANGED <<eof, xlock, radix, rowst, nextXid, ins, scan, hits>>

\* The file may have grown.
VacuumRecheck ==
  /\ vac.st = "running" /\ Pending = {} /\ vac.blk >= vac.end
  /\ vac' = [vac EXCEPT !.st = IF vac.blk >= eof THEN "done" ELSE @, !.end = eof,
                        !.todo = <<>>, !.done = {}]
  /\ UNCHANGED vars
-----------------------------------------------------------------------------
VacNext ==
  \/ TreeNext /\ UNCHANGED vac
  \/ \E r \in Rows : Kill(r)
  \/ VacuumStart \/ VacuumPage \/ VacuumPending \/ VacuumRecheck
  \/ Quiescent /\ vac.st = "done" /\ UNCHANGED allVars
VacSpec == VacInit /\ [][VacNext]_allVars
-----------------------------------------------------------------------------
(***************************************************************************)
(* Properties, besides those of MSPGistTree                                *)
(***************************************************************************)
\* When the vacuum is over, no entry of a row it was to remove is left, wherever
\* moves and splits have put it in the meantime: the row's place in the table is
\* given to a new row next.
PassComplete ==
  vac.st = "done" => \A l \in TuplesOf("leaf") : TupleAt(pages, l).row \notin vac.doomed

\* A redirect stays as long as a scan may be on its way to it, and leads to where
\* its tuples went: another redirect, a live tuple or a dead one.
RedirectsLead ==
  \A l \in TuplesOf("redirect") :
    LET t == TupleAt(pages, l)
    IN t.xid >= Horizon => TupleAt(pages, t.to).st \in {"redirect", "leaf", "dead", "inner"}
=============================================================================
