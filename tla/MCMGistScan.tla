---------------------------- MODULE MCMGistScan ----------------------------
(***************************************************************************)
(* Small instances of MGistScan: three rows, the first with two entries    *)
(* each, on one or two leaves of two tuples.                               *)
(***************************************************************************)
EXTENDS MGistScan, TLC

CONSTANTS r1, r2, r3, a1, b1, a2, a3, q1, q2

McBlocks == 0..4
McRowOf == a1 :> r1 @@ b1 :> r1 @@ a2 :> r2 @@ a3 :> r3
\* r1 is met first at the larger of its distances when the page of a1 is read first.
McDist == a1 :> 2 @@ b1 :> 0 @@ a2 :> 1 @@ a3 :> 1
\* a1 and b1 satisfy different scan keys.
McSat == q1 :> {a1, a2, a3} @@ q2 :> {b1, a2, a3}
\* A plain or bitmap scan has a WHERE clause, an ordered one only ORDER BY.
McOneQual == [m \in Modes |-> IF m = "ordered" THEN {} ELSE {q1}]

McNoRescanPlain == [m \in Modes |-> IF m = "plain" THEN 0 ELSE 1]
McRescan == [m \in Modes |-> 1]

\* The root is a leaf, or has two leaves; row r3 is not there yet.
McLone == [leaves |-> 0 :> <<a1, b1>>, rows |-> {r1}, writes |-> 2]
McTwo == [leaves |-> 1 :> <<a1, a2>> @@ 2 :> <<b1>>, rows |-> {r1, r2}, writes |-> 3]
McIndexes == {McLone, McTwo}
McOnlyLone == {McLone}
McOnlyTwo == {McTwo}
=============================================================================
