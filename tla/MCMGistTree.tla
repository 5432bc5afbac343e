---------------------------- MODULE MCMGistTree ----------------------------
(***************************************************************************)
(* Small instances of MGistTree: full pages on three levels, so that any   *)
(* insertion splits a leaf and the first finished split splits an inner    *)
(* page; a root that still is a full leaf; a single leaf; and what a crash *)
(* in the middle of a split leaves behind.                                 *)
(***************************************************************************)
EXTENDS MGistTree, TLC

CONSTANTS r0, r1, r2, r3, r4, a0, b0, a1, b1, a2, b2, b3, a4, k1, k2

\* Rows r0 and r1 are indexed; r2 and r3 are inserted.  In the wide instances
\* r0 and r1 have an entry for each key.
McWide == [r \in Rows |-> IF r = r0 THEN <<a0, b0>> ELSE IF r = r1 THEN <<a1, b1>>
                          ELSE IF r = r2 THEN <<a2>> ELSE <<b3>>]
McThin == [r \in Rows |-> IF r = r0 THEN <<a0>> ELSE IF r = r1 THEN <<b1>>
                          ELSE IF r = r2 THEN <<a2>> ELSE IF r = r3 THEN <<b3>>
                          ELSE <<a4>>]
McThinTwo == [r \in Rows |-> IF r = r2 THEN <<a2, b2>> ELSE McThin[r]]
McKeyOf == [e \in Entries |-> IF e \in {a0, a1, a2, a4} THEN k1 ELSE k2]
McOneKey == [e \in Entries |-> k1]

\* Two tuples fit on a page; or four on an inner page.
McTwoTuples == [t \in {"leaf", "inner"} |-> 2]
McWideInner == [t \in {"leaf", "inner"} |-> IF t = "leaf" THEN 2 ELSE 4]

\* A page is split in two; or a leaf in up to three.
McTwo == [t \in {"leaf", "inner"} |-> 2]
McThree == [t \in {"leaf", "inner"} |-> IF t = "leaf" THEN 3 ELSE 2]

McLeaf(e) == [pred |-> {KeyOf[e]}, ptr |-> e]
McLink(b, es) == [pred |-> {KeyOf[e] : e \in es}, ptr |-> b]

\* One full leaf, its siblings deleted by vacuum.
McLoneItems == (0 :> {McLink(1, {a0, b1})}) @@ (1 :> {McLeaf(a0), McLeaf(b1)})
McLone == [items |-> McLoneItems, inner |-> {0}, follow |-> {}, rows |-> {r0, r1},
           right |-> (0 :> NoBlock) @@ (1 :> NoBlock)]

\* A crash left the split of the one leaf unfinished.
McBrokenItems == (0 :> {McLink(1, {a0, b1})}) @@ (1 :> {McLeaf(a0)}) @@ (2 :> {McLeaf(b1)})
McBroken == [items |-> McBrokenItems, inner |-> {0}, follow |-> {1}, rows |-> {r0, r1},
             right |-> (0 :> NoBlock) @@ (1 :> 2) @@ (2 :> NoBlock)]

\* The root is a full leaf.
McRootItems == 0 :> {McLeaf(a0), McLeaf(b1)}
McRoot == [items |-> McRootItems, inner |-> {}, follow |-> {}, rows |-> {r0, r1}, right |-> 0 :> NoBlock]

\* Three levels: a full inner page over two full leaves, or over two leaves
\* with room.
McDeepItems == (0 :> {McLink(1, {a0, a1, b0, b1})})
               @@ (1 :> {McLink(2, {a0, a1}), McLink(3, {b0, b1})})
               @@ (2 :> {McLeaf(a0), McLeaf(a1)}) @@ (3 :> {McLeaf(b0), McLeaf(b1)})
McRoomItems == (0 :> {McLink(1, {a0, b1})})
               @@ (1 :> {McLink(2, {a0}), McLink(3, {b1})})
               @@ (2 :> {McLeaf(a0)}) @@ (3 :> {McLeaf(b1)})
McThreeLevels(items) ==
  [items |-> items, inner |-> {0, 1}, follow |-> {}, rows |-> {r0, r1},
   right |-> (0 :> NoBlock) @@ (1 :> NoBlock) @@ (2 :> 3) @@ (3 :> NoBlock)]

\* Three levels, one full leaf: the entries of r2 split it, and with it the inner
\* page; r4 has the key of a0.
McRepairs == [r \in Rows |-> IF r = r0 THEN <<a0, b0>> ELSE IF r = r1 THEN <<b1>>
                             ELSE IF r = r2 THEN <<b2, b3>> ELSE <<a4>>]
McLopsidedItems == (0 :> {McLink(1, {a0, b0, b1})})
                   @@ (1 :> {McLink(2, {a0, b0}), McLink(3, {b1})})
                   @@ (2 :> {McLeaf(a0), McLeaf(b0)}) @@ (3 :> {McLeaf(b1)})

\* The indexes the runs start from.
McStartDeep == {McThreeLevels(McDeepItems)}
McStartRoom == {McThreeLevels(McRoomItems)}
McStartLopsided == {McThreeLevels(McLopsidedItems)}
McStartSmall == {McLone, McBroken, McRoot}

\* Inserters differ in nothing but their names; nor do, in the wide instances, the
\* indexed rows together with their entries.  AnyRow, the row field of an idle
\* inserter, may be swapped with another: no step of an idle inserter reads it.
McSwap(x, y) == [z \in {x, y} |-> IF z = x THEN y ELSE x]
McPlus(S, f) == S \cup {s @@ f : s \in S}
McSymmetry == Permutations(Inserters)
McSymmetryWide == McPlus(McSymmetry, McSwap(r0, r1) @@ McSwap(a0, a1) @@ McSwap(b0, b1))
=============================================================================
