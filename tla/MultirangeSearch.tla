-------------------------- MODULE MultirangeSearch --------------------------
(***************************************************************************)
(* The operator classes for multiranges (src/src/multirangetypes_mest.c):  *)
(* how a multirange is broken into index entries, and how a search in the  *)
(* multi-entry R-tree and in the multi-entry quadtree prunes by them.      *)
(*                                                                         *)
(* A multirange over a discrete type is the set of its elements (Cells); a *)
(* range [l, u) is a pair of naturals in canonical form.  One behaviour    *)
(* follows one row and one query down a tree: the row is found if at least *)
(* one entry survives every inner page and the leaf test.  The executor    *)
(* rechecks what is found, so what matters is that nothing is missed.      *)
(***************************************************************************)
EXTENDS Integers, Sequences, FiniteSets

CONSTANTS
  Size,      \* bound: elements are 0 .. Size - 1
  Limits,    \* values of the option max_ranges; 0: no option
  Queries    \* [op, kind, set]: strategy, type of the argument, its elements

Cells == 0..(Size - 1)
Kinds == {"multirange", "range", "element"}
Ops == {"before", "overleft", "overlaps", "overright", "after", "adjacent",
        "contains", "contained_by", "contains_elem", "eq"}
Ranges == {r \in [l : 0..Size, u : 0..Size] : r.l < r.u}
Least(S) == CHOOSE x \in S : \A y \in S : x <= y
Greatest(S) == CHOOSE x \in S : \A y \in S : x >= y
\* The span of a non-empty set of elements.
Span(S) == [l |-> Least(S), u |-> Greatest(S) + 1]
Elems(r) == r.l..(r.u - 1)

ASSUME SizeAssumption == Size \in Nat \ {0}
ASSUME LimitsAssumption == Limits \subseteq Nat
\* An argument that is a range is a set of consecutive elements.
ASSUME QueriesAssumption ==
  /\ Queries \subseteq [op : Ops, kind : Kinds, set : SUBSET Cells]
  /\ \A q \in Queries :
       /\ q.kind = "element" <=> q.op = "contains_elem"
       /\ q.kind = "element" => Cardinality(q.set) = 1
       /\ q.kind = "range" => q.set = {} \/ q.set = Elems(Span(q.set))
       /\ q.op = "eq" => q.kind = "multirange"

VARIABLES
  row,    \* the multirange of the row
  limit,  \* max_ranges
  query,  \* the scan key
  tree,   \* which access method is searched
  stage,  \* how far the search is
  keys,   \* the entries of the row, in order
  live,   \* positions of the entries that were not pruned so far
  prev,   \* quadtree: the centroid of the level above (traversalValue)
  found   \* the row is returned to the executor
vars == <<row, limit, query, tree, stage, keys, live, prev, found>>
-----------------------------------------------------------------------------
(***************************************************************************)
(* What the operators mean (PostgreSQL's multirange operators).            *)
(***************************************************************************)
Before(r, s) == r.u <= s.l
OverLeft(r, s) == r.u <= s.u
OverRight(r, s) == r.l >= s.l
Adjacent(r, s) == r.u = s.l \/ s.u = r.l

Holds(q, S) ==
  CASE q.op = "contains_elem" -> q.set \subseteq S
    [] q.op = "contains" -> q.set \subseteq S
    [] q.op = "contained_by" -> S \subseteq q.set
    [] q.op = "eq" -> S = q.set
    [] q.op = "overlaps" -> S \cap q.set # {}
    [] OTHER ->
         /\ S # {} /\ q.set # {}
         /\ LET r == Span(S)
                s == Span(q.set)
            IN CASE q.op = "before" -> Before(r, s)
                 [] q.op = "after" -> Before(s, r)
                 [] q.op = "overleft" -> OverLeft(r, s)
                 [] q.op = "overright" -> OverRight(r, s)
                 [] q.op = "adjacent" -> Adjacent(r, s)
-----------------------------------------------------------------------------
(***************************************************************************)
(* multirange_mest_extract.                                                *)
(***************************************************************************)
\* multirange_deserialize: the maximal runs of elements, in order.
RunAt(S, a) ==
  [l |-> a, u |-> Least({x \in (a + 1)..Size : x \notin S})]
Starts(S) == {a \in S : (a - 1) \notin S}
Components(S) ==
  [i \in 1..Cardinality(Starts(S)) |->
     RunAt(S, CHOOSE a \in Starts(S) : Cardinality({b \in Starts(S) : b < a}) = i - 1)]

Smaller(m, n) == IF m < n THEN m ELSE n

\* Variant: the remainder of the division is forgotten.
NoRemainder(n, max, k) == (k - 1) * (n \div max) + 1

\* The first of the components merged into the k-th entry: the first n % max entries
\* merge one component more than the others.
FirstOf(n, max, k) == (k - 1) * (n \div max) + Smaller(k - 1, n % max) + 1

\* Variant: the super-union takes the bounds of the merged run the wrong way round.
MergedSwapped(S, max) ==
  LET c == Components(S)
      n == Len(c)
  IN IF max < 1 \/ n <= max THEN c
     ELSE [k \in 1..max |-> [l |-> c[FirstOf(n, max, k + 1) - 1].l,
                             u |-> c[FirstOf(n, max, k)].u]]

\* multirange_ranges_internal; range_super_union of the first and the last merged.
Extracted(S, max) ==
  LET c == Components(S)
      n == Len(c)
  IN IF max < 1 \/ n <= max THEN c
     ELSE [k \in 1..max |-> [l |-> c[FirstOf(n, max, k)].l,
                             u |-> c[FirstOf(n, max, k + 1) - 1].u]]
-----------------------------------------------------------------------------
(***************************************************************************)
(* The consistent functions of the R-tree, and the leaf test both access   *)
(* methods share.  An argument that is an element is a range of one.       *)
(***************************************************************************)
Overlaps(r, S) == Elems(r) \cap S # {}

\* range_mest_consistent_leaf_range, _multirange and _element.
LeafConsistent(q, r) ==
  CASE q.op \in {"overlaps", "contains", "contained_by", "contains_elem"} -> Overlaps(r, q.set)
    [] q.op = "eq" -> q.set # {} /\ r = Span(q.set)
    [] OTHER ->
         /\ q.set # {}
         /\ LET s == Span(q.set)
            IN CASE q.op = "before" -> Before(r, s)
                 [] q.op = "after" -> Before(s, r)
                 [] q.op = "overleft" -> OverLeft(r, s)
                 [] q.op = "overright" -> OverRight(r, s)
                 [] q.op = "adjacent" -> Adjacent(r, s)

\* Variant: the test of the leaves on an inner page.
InnerAsLeaf(q, k) == LeafConsistent(q, k)

\* range_gist_consistent_int_range, _multirange and _element, for an inner key k.
InnerConsistent(q, k) ==
  CASE q.op \in {"overlaps", "contains", "contained_by", "contains_elem"} -> Overlaps(k, q.set)
    [] q.op = "eq" -> q.set # {} /\ Overlaps(k, q.set)
    [] OTHER ->
         /\ q.set # {}
         /\ LET s == Span(q.set)
            IN CASE q.op = "before" -> ~OverRight(k, s)
                 [] q.op = "overleft" -> ~Before(s, k)
                 [] q.op = "overright" -> ~Before(k, s)
                 [] q.op = "after" -> ~OverLeft(k, s)
                 [] q.op = "adjacent" -> Adjacent(k, s) \/ Overlaps(k, q.set)
-----------------------------------------------------------------------------
(***************************************************************************)
(* mspg_multirange_quad_inner_consistent.  Bounds are compared as numbers: *)
(* an exclusive upper bound u lies just below an inclusive lower bound u.  *)
(***************************************************************************)
LowerB(x) == 2 * x + 1
UpperB(x) == 2 * x
None == [l |-> 0, u |-> 0]   \* no previous centroid

\* getQuadrant: on which side of the centroid c the bounds of r lie.
Quadrant(c, r) ==
  IF r.l >= c.l THEN IF r.u >= c.u THEN 1 ELSE 2
  ELSE IF r.u >= c.u THEN 4 ELSE 3

\* adjacent_cmp_bounds, for a centroid's lower and for its upper bound: is a lower
\* bound adjacent to u (an upper bound adjacent to l) to the right of it?
LowerIsRight(u, cl) == ~(UpperB(u) < LowerB(cl) /\ u # cl)
UpperIsRight(l, cu) == LowerB(l) > UpperB(cu)

\* adjacent_inner_consistent: no direction at all if the level above should have been
\* left the other way.
Sides(right, prevRight, went) ==
  IF prev # None /\ prevRight # went THEN {} ELSE {right}

AdjacentQuadrants(s, c) ==
  LET up == Sides(UpperIsRight(s.l, c.u), UpperIsRight(s.l, prev.u), c.u >= prev.u)
      lo == Sides(LowerIsRight(s.u, c.l), LowerIsRight(s.u, prev.l), c.l >= prev.l)
  IN UNION ({IF right THEN {1, 4} ELSE {2, 3} : right \in up} \cup
            {IF right THEN {1, 2} ELSE {3, 4} : right \in lo})

\* The bounds of the search key; an element has inclusive bounds on both sides.
KeyLower(q) == LowerB(Least(q.set))
KeyUpper(q) == IF q.kind = "element" THEN LowerB(Least(q.set)) ELSE UpperB(Greatest(q.set) + 1)

\* The quadrants left by a limit on the lower or upper bounds of matching entries.
MinLower(c, b) == IF LowerB(c.l) <= b THEN {1, 2} ELSE 1..4
MaxLower(c, b, incl) ==
  IF LowerB(c.l) > b \/ (~incl /\ LowerB(c.l) = b) THEN {3, 4} ELSE 1..4
MinUpper(c, b) == IF UpperB(c.u) <= b THEN {1, 4} ELSE 1..4
MaxUpper(c, b, incl) ==
  IF UpperB(c.u) > b \/ (~incl /\ UpperB(c.u) = b) THEN {2, 3} ELSE 1..4

\* The quadrants of centroid c that are visited.  An empty range: nothing but its own
\* quadrant, or all of them under contains.
Visited(q, c) ==
  IF q.set = {} THEN IF q.op = "contains" THEN 1..4 ELSE {}
  ELSE CASE q.op = "before" -> MaxUpper(c, KeyLower(q), FALSE)
         [] q.op = "overleft" -> MaxUpper(c, KeyUpper(q), TRUE)
         [] q.op = "overlaps" -> MaxLower(c, KeyUpper(q), TRUE) \cap MinUpper(c, KeyLower(q))
         [] q.op = "overright" -> MinLower(c, KeyLower(q))
         [] q.op = "after" -> MinLower(c, KeyUpper(q))
         [] q.op = "adjacent" -> AdjacentQuadrants(Span(q.set), c)
         [] q.op = "contains" /\ q.kind = "multirange" ->
              MaxLower(c, KeyUpper(q), TRUE) \cap MinUpper(c, KeyLower(q))
         [] q.op = "contains_elem" \/ (q.op = "contains" /\ q.kind # "multirange") ->
              MaxLower(c, KeyLower(q), TRUE) \cap MinUpper(c, KeyUpper(q))
         [] q.op = "contained_by" ->
              MinLower(c, KeyLower(q)) \cap MaxUpper(c, KeyUpper(q), TRUE)
         [] q.op = "eq" ->
              {Quadrant(c, Components(q.set)[Len(Components(q.set))])}
-----------------------------------------------------------------------------
(***************************************************************************)
(* A search.                                                               *)
(***************************************************************************)
Init ==
  /\ row \in (SUBSET Cells) \ {{}} /\ limit \in Limits /\ query \in Queries
  /\ tree \in {"rtree", "quadtree"} /\ stage = "row"
  /\ keys = <<>> /\ live = {} /\ prev = None /\ found = FALSE

Extract ==
  /\ stage = "row" /\ stage' = "inner"
  /\ keys' = Extracted(row, limit)
  /\ live' = DOMAIN keys'
  /\ UNCHANGED <<row, limit, query, tree, prev, found>>

\* An inner key covers the entries below it.
RTreeInner ==
  /\ tree = "rtree" /\ stage = "inner" /\ stage' = "leaf"
  /\ \E k \in [live -> Ranges] :
       /\ \A i \in live : k[i].l <= keys[i].l /\ keys[i].u <= k[i].u
       /\ live' = {i \in live : InnerConsistent(query, k[i])}
  /\ UNCHANGED <<row, limit, query, tree, keys, prev, found>>

\* The entries of the row share the topmost centroid.
QuadTop ==
  /\ tree = "quadtree" /\ stage = "inner" /\ stage' = "below"
  /\ \E c \in Ranges :
       /\ live' = {i \in live : Quadrant(c, keys[i]) \in Visited(query, c)}
       /\ prev' = c
  /\ UNCHANGED <<row, limit, query, tree, keys, found>>

\* The centroid of a child is made of bounds of entries in that quadrant.
QuadBelow ==
  /\ tree = "quadtree" /\ stage = "below" /\ stage' = "leaf"
  /\ \E c \in [{Quadrant(prev, keys[i]) : i \in live} -> Ranges] :
       /\ \A k \in DOMAIN c : Quadrant(prev, c[k]) = k
       /\ live' = {i \in live : LET d == c[Quadrant(prev, keys[i])]
                                IN Quadrant(d, keys[i]) \in Visited(query, d)}
  /\ UNCHANGED <<row, limit, query, tree, keys, prev, found>>

Leaf ==
  /\ stage = "leaf" /\ stage' = "done"
  /\ found' = \E i \in live : LeafConsistent(query, keys[i])
  /\ UNCHANGED <<row, limit, query, tree, keys, live, prev>>

Next == Extract \/ RTreeInner \/ QuadTop \/ QuadBelow \/ Leaf
Spec == Init /\ [][Next]_vars
-----------------------------------------------------------------------------
(***************************************************************************)
(* Properties.                                                             *)
(***************************************************************************)
TypeOK ==
  /\ row \subseteq Cells /\ limit \in Limits /\ query \in Queries
  /\ tree \in {"rtree", "quadtree"} /\ stage \in {"row", "inner", "below", "leaf", "done"}
  /\ keys \in Seq(Ranges) /\ live \subseteq DOMAIN keys
  /\ prev \in Ranges \cup {None} /\ found \in BOOLEAN

\* The entries of a row (multirange_ranges_internal), however its ranges are merged to
\* respect max_ranges: they cover the row, start and end with ranges of the row, do
\* not touch each other, and are as many as there are ranges or as max_ranges allows.
EntriesCoverRow ==
  stage # "row" =>
    LET n == Len(Components(row)) IN
    /\ Len(keys) = IF limit < 1 THEN n ELSE Smaller(n, limit)
    /\ row \subseteq UNION {Elems(keys[i]) : i \in DOMAIN keys}
    /\ \A i \in DOMAIN keys : {keys[i].l, keys[i].u - 1} \subseteq row
    /\ \A i \in 1..(Len(keys) - 1) : keys[i].u < keys[i + 1].l

\* An index scan returns every row a sequential scan returns: an entry of a row that
\* satisfies the operator survives any inner key (R-tree) or any two levels of
\* centroids (quadtree) and the leaf test.
IndexFindsRow == stage = "done" /\ Holds(query, row) => found

\* No key of an inner page of the R-tree hides an entry the leaf test would accept.
RTreeKeepsMatches ==
  tree = "rtree" /\ stage \in {"leaf", "done"} =>
    \A i \in DOMAIN keys : LeafConsistent(query, keys[i]) => i \in live
=============================================================================
