--------------------------- MODULE IndexContract ---------------------------
(***************************************************************************)
(* What the executor may rely on, whatever the index does inside: rows are *)
(* inserted one at a time by each backend, and a scan for a key returns    *)
(* every row that was indexed under it when the scan began, and nothing    *)
(* but rows that have it.                                                  *)
(*                                                                         *)
(* mgistinsert is Begin and Commit (or Abort, when it raises an error);    *)
(* mgistgetbitmap is Start and Answer; mspginsert and mspggetbitmap do the *)
(* same.  Rows die in the table; a vacuum is no step at all.               *)
(***************************************************************************)
CONSTANTS
  Keys,      \* what a scan can ask for
  Rows,      \* heap rows
  KeysOf,    \* row -> its keys
  Scanners,  \* backends that scan
  Ready      \* state of a scanner that has not asked yet

VARIABLES
  rowst,  \* row -> absent, inserting, present, aborted or dead
  query   \* scanner -> Ready, a running or an answered query

Init ==
  /\ rowst \in [Rows -> {"absent", "present", "aborted"}]
  /\ query = [s \in Scanners |-> Ready]

Begin(r) ==
  /\ rowst[r] = "absent"
  /\ rowst' = [rowst EXCEPT ![r] = "inserting"]
  /\ UNCHANGED query

Commit(r) ==
  /\ rowst[r] = "inserting"
  /\ rowst' = [rowst EXCEPT ![r] = "present"]
  /\ UNCHANGED query

Abort(r) ==
  /\ rowst[r] = "inserting"
  /\ rowst' = [rowst EXCEPT ![r] = "aborted"]
  /\ UNCHANGED query

\* The row is deleted from the heap; its entries stay until a vacuum.
Kill(r) ==
  /\ rowst[r] = "present"
  /\ rowst' = [rowst EXCEPT ![r] = "dead"]
  /\ UNCHANGED query

Start(s, k) ==
  /\ query[s] = Ready
  /\ query' = [query EXCEPT ![s] =
       [st |-> "running", key |-> k, found |-> {},
        must |-> {r \in Rows : rowst[r] = "present" /\ k \in KeysOf[r]}]]
  /\ UNCHANGED rowst

Answer(s) ==
  /\ query[s].st = "running"
  /\ \E answer \in SUBSET {r \in Rows : query[s].key \in KeysOf[r] /\ rowst[r] # "absent"} :
       /\ query[s].must \subseteq answer
       /\ query' = [query EXCEPT ![s] = [@ EXCEPT !.st = "done", !.found = answer]]
  /\ UNCHANGED rowst

\* A server crash aborts what is in progress and forgets the queries.
Crash ==
  /\ rowst' = [r \in Rows |-> IF rowst[r] = "inserting" THEN "aborted" ELSE rowst[r]]
  /\ query' = [s \in Scanners |-> Ready]

Next ==
  \/ \E r \in Rows : Begin(r) \/ Commit(r) \/ Abort(r) \/ Kill(r)
  \/ \E s \in Scanners : Answer(s) \/ \E k \in Keys : Start(s, k)
  \/ Crash

Spec == Init /\ [][Next]_<<rowst, query>>
=============================================================================
