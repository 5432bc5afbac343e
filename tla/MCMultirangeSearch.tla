------------------------- MODULE MCMultirangeSearch -------------------------
(***************************************************************************)
(* All multiranges and queries over a few elements.                        *)
(***************************************************************************)
EXTENDS MultirangeSearch

McSize == 5
McAll ==
  {q \in [op : Ops, kind : Kinds, set : SUBSET Cells] :
     /\ q.kind = "element" <=> q.op = "contains_elem"
     /\ q.kind = "element" => Cardinality(q.set) = 1
     /\ q.kind = "range" => q.set = {} \/ q.set = Elems(Span(q.set))
     /\ q.op = "eq" => q.kind = "multirange"}
\* Left out: equality, an empty argument of "contains", and empty multiranges.
McQueries ==
  {q \in McAll : /\ q.op # "eq"
                 /\ q.set = {} => q.kind = "range" /\ q.op # "contains"}
McEquals == {q \in McAll : q.op = "eq" /\ q.set # {}}
=============================================================================
