--------------------------- MODULE MCMGistVacuum ---------------------------
(***************************************************************************)
(* Small instances of MGistVacuum: two leaves, one full, and a free block  *)
(* in front of them, to which a leaf may be split; and a level more.       *)
(***************************************************************************)
EXTENDS MGistVacuum, TLC

CONSTANTS r0, r1, r2, a0, b0, c1, a2, k1, k2

\* Rows r0 and r1 are indexed; r2 is inserted.
McEntriesOf == [r \in Rows |-> IF r = r0 THEN <<a0, b0>> ELSE IF r = r1 THEN <<c1>> ELSE <<a2>>]
McKeyOf == [e \in Entries |-> IF e = c1 THEN k2 ELSE k1]
McTwo == [t \in {"leaf", "inner"} |-> 2]

McLeaf(e) == [pred |-> {KeyOf[e]}, ptr |-> e]
McLink(b, es) == [pred |-> {KeyOf[e] : e \in es}, ptr |-> b]
McTree(items, inner, right) ==
  [items |-> items, inner |-> inner, follow |-> {}, rows |-> {r0, r1}, right |-> right]

\* A full leaf, in a block behind that of the other leaf.
McTurned == McTree((0 :> {McLink(3, {a0, b0}), McLink(2, {c1})})
                   @@ (3 :> {McLeaf(a0), McLeaf(b0)}) @@ (2 :> {McLeaf(c1)}), {0},
                   (0 :> NoBlock) @@ (2 :> NoBlock) @@ (3 :> 2))
\* The two leaves are under a full inner page.
McInnerPage == McTree((0 :> {McLink(2, {a0, b0, c1})})
                  @@ (2 :> {McLink(3, {a0, b0}), McLink(4, {c1})})
                  @@ (3 :> {McLeaf(a0), McLeaf(b0)}) @@ (4 :> {McLeaf(c1)}), {0, 2},
                  (0 :> NoBlock) @@ (2 :> NoBlock) @@ (3 :> 4) @@ (4 :> NoBlock))
McStart == {McTurned, McInnerPage}

\* The entries of r0, which is never inserted, differ in nothing but their names.
McSymmetry == Permutations({a0, b0})
=============================================================================
