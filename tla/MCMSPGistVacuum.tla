-------------------------- MODULE MCMSPGistVacuum --------------------------
(***************************************************************************)
(* Small instances of MSPGistVacuum: the chains are on block 4 (or 6), and *)
(* the free space is on block 3, which the vacuum visits first.            *)
(***************************************************************************)
EXTENDS MSPGistVacuum, TLC

CONSTANTS r0, r1, r2, k1, k2, k3

McGroups == {{k1, k2, k3}, {k1, k2}, {k1}, {k2}, {k3}}
McEntriesOf == [r \in Rows |-> IF r = r2 THEN <<k2, k3>> ELSE IF r = r1 THEN <<k1, k3>> ELSE <<k1>>]
McCap == [t \in {"leaf", "inner"} |-> IF t = "leaf" THEN 6 ELSE 5]

McTo(b, o) == [blk |-> b, off |-> o]
McPage(type, ts) == [type |-> type, tups |-> ts]

McTwoChains ==
  (1 :> McPage("inner", <<Inner(Keys, FALSE, <<Node({k1, k2}, McTo(4, 1)), Node({k3}, McTo(4, 3))>>)>>))
  @@ (3 :> McPage("leaf", <<>>))
  @@ (4 :> McPage("leaf", <<Leaf(r0, k1, 2), Leaf(r1, k1, 0), Leaf(r1, k3, 0)>>))
McFullInner ==
  (1 :> McPage("inner", <<Inner(Keys, FALSE, <<Node({k1, k2}, McTo(5, 1)), Node({k3}, McTo(5, 2))>>)>>))
  @@ (3 :> McPage("leaf", <<>>))
  @@ (5 :> McPage("inner", <<Inner({k1, k2}, FALSE, <<Node({k1}, McTo(6, 2))>>),
                             Inner({k3}, TRUE, <<Node({k3}, McTo(6, 3)), Node({k3}, NoLink)>>)>>))
  @@ (6 :> McPage("leaf", <<Leaf(r0, k1, 0), Leaf(r1, k1, 1), Leaf(r1, k3, 0)>>))
McRootLeaf == 1 :> McPage("leaf", <<Leaf(r0, k1, 0), Leaf(r1, k1, 0), Leaf(r1, k3, 0)>>)

McTree(pgs) == [pages |-> pgs, radix |-> TRUE, rows |-> {r0, r1}, absent |-> {r2}]
McStart == {McTree(McTwoChains), McTree(McFullInner), McTree(McRootLeaf)}
=============================================================================
