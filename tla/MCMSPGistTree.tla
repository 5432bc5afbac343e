--------------------------- MODULE MCMSPGistTree ---------------------------
(***************************************************************************)
(* Small instances of MSPGistTree.  Keys k1 and k2 have a common prefix    *)
(* that k3 does not have; a leaf page holds three live tuples.             *)
(***************************************************************************)
EXTENDS MSPGistTree, TLC

CONSTANTS r0, r1, r2, r3, r4, k1, k2, k3

McGroups == {{k1, k2, k3}, {k1, k2}, {k1}, {k2}, {k3}}
\* Rows r0, r1 and r4 may be indexed already; r2 and r3 are inserted.
McEntriesOf == [r \in Rows |-> IF r = r2 THEN <<k2, k3>> ELSE IF r = r1 THEN <<k1, k3>> ELSE <<k1>>]
McCap == [t \in {"leaf", "inner"} |-> IF t = "leaf" THEN 6 ELSE 5]

McTo(b, o) == [blk |-> b, off |-> o]
McLeafPage(ts) == [type |-> "leaf", tups |-> ts]
McInnerPage(ts) == [type |-> "inner", tups |-> ts]

\* A root over one full page of two chains.
McTwoChains ==
  (1 :> McInnerPage(<<Inner(Keys, FALSE, <<Node({k1, k2}, McTo(3, 1)), Node({k3}, McTo(3, 3))>>)>>))
  @@ (3 :> McLeafPage(<<Leaf(r0, k1, 2), Leaf(r1, k1, 0), Leaf(r1, k3, 0)>>))
\* The root is a full leaf.
McRootLeaf == 1 :> McLeafPage(<<Leaf(r0, k1, 0), Leaf(r1, k1, 0), Leaf(r1, k3, 0)>>)
\* Three times the same key, once of a row whose insertion was aborted.
McEqualLeaf == 1 :> McLeafPage(<<Leaf(r0, k1, 0), Leaf(r1, k1, 0), Leaf(r4, k1, 0)>>)
\* Three levels: an inner page without room for another node.
McFullInner ==
  (1 :> McInnerPage(<<Inner(Keys, FALSE, <<Node({k1, k2}, McTo(5, 1)), Node({k3}, McTo(5, 2))>>)>>))
  @@ (3 :> McLeafPage(<<Leaf(r0, k1, 0), Leaf(r1, k1, 1), Leaf(r1, k3, 0)>>))
  @@ (5 :> McInnerPage(<<Inner({k1, k2}, FALSE, <<Node({k1}, McTo(3, 2))>>),
                         Inner({k3}, TRUE, <<Node({k3}, McTo(3, 3)), Node({k3}, NoLink)>>)>>))

McTree(pgs, rad, rows, new) == [pages |-> pgs, radix |-> rad, rows |-> rows, absent |-> new]
McStart == {McTree(McTwoChains, TRUE, {r0, r1}, {r2, r3}),
            McTree(McFullInner, TRUE, {r0, r1}, {r2, r3}),
            McTree(McRootLeaf, FALSE, {r0, r1}, {r2, r3}),
            McTree(McEqualLeaf, TRUE, {r0, r4}, {r2}),
            McTree(McEqualLeaf, TRUE, {r0, r4}, {r3})}
=============================================================================
