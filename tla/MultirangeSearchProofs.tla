----------------------- MODULE MultirangeSearchProofs -----------------------
(***************************************************************************)
(* Proofs about MultirangeSearch.                                          *)
(***************************************************************************)
EXTENDS MultirangeSearch, NaturalLemmas

(***************************************************************************)
(* Sets of elements: least and greatest elements, spans and runs.          *)
(***************************************************************************)
\* Least is the least element.
LEMMA LeastIn ==
  ASSUME NEW S \in SUBSET Nat, S # {}
  PROVE  Least(S) \in S /\ \A y \in S : Least(S) <= y
BY LeastExists DEF Least

\* Greatest is the greatest element.
LEMMA GreatestIn ==
  ASSUME NEW S \in SUBSET Cells, S # {}
  PROVE  Greatest(S) \in S /\ \A y \in S : Greatest(S) >= y
<1>1. Size - 1 \in Nat BY SizeAssumption
<1>2. S \in SUBSET Nat /\ \A x \in S : x <= Size - 1 BY SizeAssumption DEF Cells
<1>3. \E x \in S : \A y \in S : x >= y BY <1>1, <1>2, GreatestExists
<1> QED BY <1>3 DEF Greatest

\* The span of a set is a range that begins and ends in it and holds all of it.
LEMMA SpanFacts ==
  ASSUME NEW S \in SUBSET Cells, S # {}
  PROVE  /\ Span(S) \in Ranges
         /\ Span(S).l = Least(S) /\ Span(S).u = Greatest(S) + 1
         /\ Span(S).l \in S /\ Span(S).u - 1 \in S
         /\ \A x \in S : Span(S).l <= x /\ x < Span(S).u
<1>1. S \in SUBSET Nat /\ \A x \in S : x \in 0..Size - 1 BY DEF Cells
<1>2. Least(S) \in S /\ \A y \in S : Least(S) <= y BY <1>1, LeastIn
<1>3. Greatest(S) \in S /\ \A y \in S : Greatest(S) >= y BY GreatestIn
<1>4. Size \in Nat BY SizeAssumption
<1>5. /\ Span(S).l = Least(S) /\ Span(S).u = Greatest(S) + 1
      /\ Span(S) = [l |-> Least(S), u |-> Greatest(S) + 1] BY DEF Span
<1>6. Least(S) <= Greatest(S) /\ Least(S) \in 0..Size - 1 /\ Greatest(S) \in 0..Size - 1
  BY <1>1, <1>2, <1>3
<1>7. Span(S) \in Ranges BY <1>4, <1>5, <1>6 DEF Ranges
<1>8. Span(S).u - 1 = Greatest(S) BY <1>5, <1>6
<1> QED BY <1>1, <1>2, <1>3, <1>5, <1>6, <1>7, <1>8

\* A range is made of two limits.
LEMMA RangeFacts ==
  ASSUME NEW r \in Ranges
  PROVE  /\ r = [l |-> r.l, u |-> r.u] /\ r.l \in 0..Size /\ r.u \in 0..Size /\ r.l < r.u
         /\ r.l \in Int /\ r.u \in Int
         /\ \A x : x \in Elems(r) <=> x \in Int /\ r.l <= x /\ x < r.u
BY SizeAssumption DEF Ranges, Elems

\* The run of elements from a start on: all of it belongs to the set, what follows
\* does not.
LEMMA RunFacts ==
  ASSUME NEW S \in SUBSET Cells, NEW a \in Starts(S)
  PROVE  /\ RunAt(S, a) \in Ranges /\ RunAt(S, a).l = a
         /\ RunAt(S, a).u - 1 \in S /\ RunAt(S, a).u \notin S
         /\ \A x \in Elems(RunAt(S, a)) : x \in S
<1> DEFINE T == {x \in (a + 1)..Size : x \notin S}
           u == Least(T)
<1>1. a \in S /\ a \in 0..Size - 1 /\ Size \in Nat /\ (\A x \in S : x \in 0..Size - 1)
  BY SizeAssumption DEF Starts, Cells
<1>2. T \in SUBSET Nat /\ Size \in T BY <1>1
<1>3. RunAt(S, a) = [l |-> a, u |-> u] BY DEF RunAt
<1> HIDE DEF T
<1>4. u \in T /\ \A y \in T : u <= y BY <1>2, LeastIn
<1> HIDE DEF u
<1>5. /\ u \in (a + 1)..Size /\ u \notin S
      /\ \A y \in (a + 1)..Size : y \notin S => u <= y
  BY <1>4 DEF T
<1>6. \A x \in a..u - 1 : x \in S BY <1>1, <1>5
<1>7. u - 1 \in a..u - 1 BY <1>1, <1>5
<1>8. [l |-> a, u |-> u] \in Ranges BY <1>1, <1>5 DEF Ranges
<1> QED BY <1>3, <1>5, <1>6, <1>7, <1>8 DEF Elems

\* Of two starts the run of the smaller one ends before the other, with a gap.
LEMMA RunsApart ==
  ASSUME NEW S \in SUBSET Cells, NEW a \in Starts(S), NEW b \in Starts(S), a < b
  PROVE  RunAt(S, a).u < b
<1>1. /\ a \in 0..Size - 1 /\ b \in 0..Size - 1 /\ b \in S /\ b - 1 \notin S /\ Size \in Nat
  BY SizeAssumption DEF Starts, Cells
<1> DEFINE r == RunAt(S, a)
<1>2. r \in Ranges /\ r.l = a /\ \A x \in Elems(r) : x \in S BY RunFacts
<1>3. r.u \notin S BY RunFacts
<1> HIDE DEF r
<1>4. /\ r.u \in Int
      /\ \A x : x \in Elems(r) <=> x \in Int /\ r.l <= x /\ x < r.u BY <1>2, RangeFacts
<1>5. b - 1 \notin Elems(r) BY <1>1, <1>2
<1>6. r.u <= b - 1 BY <1>1, <1>2, <1>4, <1>5
<1> QED BY <1>1, <1>4, <1>6 DEF r

\* Every element lies in the run of a start.
LEMMA RunCovers ==
  ASSUME NEW S \in SUBSET Cells, NEW x \in S
  PROVE  \E a \in Starts(S) : x \in Elems(RunAt(S, a))
<1> DEFINE T == {a \in S : a <= x /\ \A y \in a..x : y \in S}
<1>1. x \in 0..Size - 1 /\ Size \in Nat /\ (\A y \in S : y \in 0..Size - 1)
  BY SizeAssumption DEF Cells
<1>2. T \in SUBSET Nat /\ x \in T
  <2>1. \A y \in x..x : y = x BY <1>1
  <2>2. x <= x /\ \A y \in S : y \in Nat BY <1>1
  <2> QED BY <2>1, <2>2
<1>3. PICK a \in T : \A y \in T : a <= y
  <2> HIDE DEF T
  <2> QED BY <1>2, LeastExists
<1>4. a \in S /\ a <= x /\ (\A y \in a..x : y \in S) /\ a \in 0..Size - 1 BY <1>1
<1>5. a - 1 \notin S
  <2>1. SUFFICES ASSUME a - 1 \in S PROVE FALSE OBVIOUS
  <2>2. a - 1 <= x /\ \A y \in a - 1..x : y = a - 1 \/ y \in a..x BY <1>1, <1>4
  <2>3. a - 1 \in T BY <2>1, <2>2, <1>4
  <2> QED BY <2>3, <1>3, <1>4
<1>6. a \in Starts(S) BY <1>4, <1>5 DEF Starts
<1> DEFINE r == RunAt(S, a)
<1>7. r \in Ranges /\ r.l = a /\ r.u \notin S BY <1>6, RunFacts
<1> HIDE DEF r
<1>8. r.u \in Int /\ r.u > a /\ \A z : z \in Elems(r) <=> z \in Int /\ r.l <= z /\ z < r.u
  BY <1>7, RangeFacts
<1>9. r.u \notin a..x BY <1>4, <1>7
<1>10. x < r.u BY <1>1, <1>4, <1>8, <1>9
<1> QED BY <1>1, <1>4, <1>6, <1>7, <1>8, <1>10 DEF r

\* The components of a set: its maximal runs, in order.
LEMMA ComponentFacts ==
  ASSUME NEW S \in SUBSET Cells
  PROVE  LET c == Components(S)
             n == Len(c)
         IN /\ n \in Nat /\ c \in Seq(Ranges) /\ DOMAIN c = 1..n
            /\ \A i \in 1..n : /\ c[i] \in Ranges /\ c[i].l \in S /\ c[i].u - 1 \in S
                               /\ \A x \in Elems(c[i]) : x \in S
            /\ \A i, j \in 1..n : i < j => c[i].u < c[j].l
            /\ \A x \in S : \E i \in 1..n : x \in Elems(c[i])
<1> DEFINE T == Starts(S)
           n == Cardinality(T)
           start == [i \in 1..n |-> CHOOSE a \in T : Cardinality({b \in T : b < a}) = i - 1]
           c == [i \in 1..n |-> RunAt(S, start[i])]
<1>1. T \in SUBSET Nat /\ T \subseteq 0..Size - 1 /\ IsFiniteSet(T)
  <2>1. Size - 1 \in Nat BY SizeAssumption
  <2>2. T \subseteq 0..Size - 1 BY DEF Starts, Cells
  <2>3. \A t \in 0..Size - 1 : t \in Nat /\ t <= Size - 1 BY <2>1
  <2> HIDE DEF T
  <2>4. T \in SUBSET Nat /\ \A t \in T : t <= Size - 1 BY <2>2, <2>3
  <2> QED BY <2>1, <2>2, <2>4, FS_BoundedSetOfNaturals
<1>2. n \in Nat BY <1>1, FS_CardinalityType
<1>3. Components(S) = c BY DEF Components
<1>4. /\ \A i \in 1..n : start[i] \in T
      /\ \A i, j \in 1..n : i < j => start[i] < start[j]
      /\ \A a \in T : \E i \in 1..n : start[i] = a
  <2> HIDE DEF T
  <2>1. start = Enumeration(T) BY DEF Enumeration
  <2>2. T \subseteq Nat /\ IsFiniteSet(T) BY <1>1
  <2> HIDE DEF start
  <2> QED BY <2>1, <2>2, EnumerationFacts
<1> HIDE DEF T, n
<1>10. \A i \in 1..n : c[i] = RunAt(S, start[i]) OBVIOUS
<1>11. Len(c) = n /\ DOMAIN c = 1..n BY <1>2
<1> HIDE DEF c, start
<1>12. ASSUME NEW i \in 1..n
       PROVE  /\ c[i] \in Ranges /\ c[i].l \in S /\ c[i].u - 1 \in S
              /\ \A x \in Elems(c[i]) : x \in S
              /\ c[i].l = start[i]
  <2>1. start[i] \in Starts(S) BY <1>4 DEF T
  <2>2. start[i] \in S BY <2>1 DEF Starts
  <2> QED BY <2>1, <2>2, <1>10, RunFacts
<1>13. \A i, j \in 1..n : i < j => c[i].u < c[j].l
  <2> TAKE i, j \in 1..n
  <2> HAVE i < j
  <2>1. start[i] \in Starts(S) /\ start[j] \in Starts(S) /\ start[i] < start[j]
    BY <1>4 DEF T
  <2>2. RunAt(S, start[i]).u < start[j] BY <2>1, RunsApart
  <2> QED BY <2>2, <1>10, <1>12
<1>14. \A x \in S : \E i \in 1..n : x \in Elems(c[i])
  <2> TAKE x \in S
  <2>1. PICK a \in Starts(S) : x \in Elems(RunAt(S, a)) BY RunCovers
  <2>2. PICK i \in 1..n : start[i] = a BY <2>1, <1>4 DEF T
  <2> QED BY <2>1, <2>2, <1>10
<1>15. c \in Seq(Ranges)
  <2>1. c \in [1..n -> Ranges] BY <1>10, <1>11, <1>12 DEF c
  <2> QED BY <2>1, <1>2
<1> QED BY <1>2, <1>3, <1>11, <1>12, <1>13, <1>14, <1>15

(***************************************************************************)
(* The entries of a row (multirange_ranges_internal).                      *)
(***************************************************************************)
\* The division of n components into max groups: the groups are consecutive, none is
\* empty, and together they are all components.
LEMMA FirstOfFacts ==
  ASSUME NEW n \in Nat, NEW max \in Nat, max >= 1, n > max
  PROVE  /\ FirstOf(n, max, 1) = 1 /\ FirstOf(n, max, max + 1) = n + 1
         /\ \A k \in 1..max : /\ FirstOf(n, max, k) \in 1..n
                              /\ FirstOf(n, max, k + 1) \in 1..(n + 1)
                              /\ FirstOf(n, max, k) < FirstOf(n, max, k + 1)
<1> DEFINE q == n \div max
           r == n % max
<1>1. q \in Nat /\ r \in Nat /\ r < max /\ n = max * q + r OBVIOUS
<1>2. q >= 1
  <2>1. SUFFICES ASSUME q = 0 PROVE FALSE BY <1>1
  <2>2. n = r BY <1>1, <2>1
  <2> QED BY <1>1, <2>2
<1>3. \A k : FirstOf(n, max, k) = (k - 1) * q + Smaller(k - 1, r) + 1 BY DEF FirstOf
<1> HIDE DEF q, r
<1>4. FirstOf(n, max, 1) = 1 BY <1>1, <1>3 DEF Smaller
<1>5. FirstOf(n, max, max + 1) = n + 1 BY <1>1, <1>3 DEF Smaller
<1>6. ASSUME NEW k \in 1..max
      PROVE  /\ FirstOf(n, max, k) \in 1..n
             /\ FirstOf(n, max, k + 1) \in 1..(n + 1)
             /\ FirstOf(n, max, k) < FirstOf(n, max, k + 1)
  <2> DEFINE m == k - 1
             a == m * q
             rest == max - k
             b == rest * q
  <2>1. m \in Nat /\ rest \in Nat /\ m + 1 + rest = max OBVIOUS
  <2>2. a \in Nat /\ b \in Nat BY <1>1, <2>1
  <2>3. max * q = a + q + b
    <3>1. max = m + 1 + rest BY <2>1
    <3> HIDE DEF m, rest
    <3>2. (m + 1 + rest) * q = m * q + q + rest * q BY <1>1, <2>1
    <3> QED BY <3>1, <3>2
  <2>4. k * q = a + q
    <3>1. k = m + 1 OBVIOUS
    <3> HIDE DEF m
    <3>2. (m + 1) * q = m * q + q BY <1>1, <2>1
    <3> QED BY <3>1, <3>2
  <2>5. FirstOf(n, max, k) = a + Smaller(k - 1, r) + 1 BY <1>3
  <2>6. FirstOf(n, max, k + 1) = a + q + Smaller(k, r) + 1
    <3>1. FirstOf(n, max, k + 1) = ((k + 1) - 1) * q + Smaller((k + 1) - 1, r) + 1 BY <1>3
    <3>2. (k + 1) - 1 = k OBVIOUS
    <3> QED BY <3>1, <3>2, <2>4
  <2> HIDE DEF a, b
  <2>7. n = a + q + b + r BY <1>1, <2>3
  <2> QED BY <1>1, <1>2, <2>2, <2>5, <2>6, <2>7 DEF Smaller
<1> QED BY <1>4, <1>5, <1>6

\* Every component is in one of the groups.
LEMMA GroupExists ==
  ASSUME NEW n \in Nat, NEW max \in Nat, max >= 1, n > max, NEW j \in 1..n
  PROVE  \E k \in 1..max : FirstOf(n, max, k) <= j /\ j < FirstOf(n, max, k + 1)
<1> DEFINE T == {k \in 1..max : j < FirstOf(n, max, k + 1)}
<1>1. /\ FirstOf(n, max, 1) = 1 /\ FirstOf(n, max, max + 1) = n + 1
      /\ \A k \in 1..max : /\ FirstOf(n, max, k) \in 1..n
                           /\ FirstOf(n, max, k + 1) \in 1..(n + 1) BY FirstOfFacts
<1>2. T \in SUBSET Nat /\ max \in T BY <1>1
<1>3. PICK k \in T : \A y \in T : k <= y
  <2> HIDE DEF T
  <2> QED BY <1>2, LeastExists
<1>4. k \in 1..max /\ j < FirstOf(n, max, k + 1) OBVIOUS
<1>5. CASE k = 1 BY <1>1, <1>4, <1>5
<1>6. CASE k # 1
  <2>1. k - 1 \in 1..max /\ (k - 1) + 1 = k /\ ~(k <= k - 1) BY <1>4, <1>6
  <2>2. k - 1 \notin T BY <2>1, <1>3
  <2>3. ~(j < FirstOf(n, max, k)) BY <2>1, <2>2
  <2> QED BY <2>3, <1>1, <1>4
<1> QED BY <1>5, <1>6

\* The entries are ranges, cover the row, begin and end with elements of the row, are
\* in order with gaps between them, are as many as max_ranges allows; and each run of
\* elements of the row lies in one of them.
LEMMA ExtractedFacts ==
  ASSUME NEW S \in SUBSET Cells, NEW max \in Nat
  PROVE  LET e == Extracted(S, max)
             n == Len(Components(S))
             m == IF max < 1 THEN n ELSE Smaller(n, max)
         IN /\ e \in Seq(Ranges) /\ m \in Nat /\ Len(e) = m /\ DOMAIN e = 1..m
            /\ \A i \in 1..m : e[i] \in Ranges /\ e[i].l \in S /\ e[i].u - 1 \in S
            /\ \A i \in 1..(m - 1) : e[i].u < e[i + 1].l
            /\ \A x \in S : \E i \in 1..m : x \in Elems(e[i])
            /\ \A x, y \in S : (\A z \in x..y : z \in S) =>
                 \E i \in 1..m : x \in Elems(e[i]) /\ (x <= y => y \in Elems(e[i]))
<1> DEFINE c == Components(S)
           n == Len(c)
           e == Extracted(S, max)
           m == IF max < 1 THEN n ELSE Smaller(n, max)
<1>1. /\ n \in Nat /\ c \in Seq(Ranges) /\ DOMAIN c = 1..n
      /\ \A i \in 1..n : /\ c[i] \in Ranges /\ c[i].l \in S /\ c[i].u - 1 \in S
                         /\ \A x \in Elems(c[i]) : x \in S
      /\ \A i, j \in 1..n : i < j => c[i].u < c[j].l
      /\ \A x \in S : \E i \in 1..n : x \in Elems(c[i])
  BY ComponentFacts
<1>2. \A x \in S : x \in Int BY SizeAssumption DEF Cells
<1>3. e = IF max < 1 \/ n <= max THEN c
          ELSE [k \in 1..max |-> [l |-> c[FirstOf(n, max, k)].l,
                                  u |-> c[FirstOf(n, max, k + 1) - 1].u]]
  BY DEF Extracted
\* A run that starts in a component ends in it.
<1>4. ASSUME NEW i \in 1..n, NEW x \in S, NEW y \in S, x \in Elems(c[i]), x <= y,
             \A z \in x..y : z \in S
      PROVE  y \in Elems(c[i])
  <2> SUFFICES ASSUME y \notin Elems(c[i]) PROVE FALSE OBVIOUS
  <2>1. /\ c[i].l \in Int /\ c[i].u \in Int
        /\ \A z : z \in Elems(c[i]) <=> z \in Int /\ c[i].l <= z /\ z < c[i].u
    BY <1>1, RangeFacts
  <2>2. c[i].u \in x..y BY <2>1, <1>2, <1>4
  <2>3. c[i].u \in S BY <2>2, <1>4
  <2>4. PICK j \in 1..n : c[i].u \in Elems(c[j]) BY <2>3, <1>1
  <2>5. /\ c[j].l \in Int /\ c[j].u \in Int /\ c[i].l < c[i].u
        /\ \A z : z \in Elems(c[j]) <=> z \in Int /\ c[j].l <= z /\ z < c[j].u
    BY <1>1, RangeFacts
  <2>6. c[j].l <= c[i].u /\ c[i].u < c[j].u BY <2>4, <2>5
  <2>7. ~(i < j) BY <2>1, <2>5, <2>6, <1>1
  <2>8. ~(j < i)
    <3>1. j < i => c[j].u < c[i].l BY <1>1
    <3>2. \A l1, u1, u2 \in Int : l1 < u1 /\ u1 < u2 => ~(u2 < l1) OBVIOUS
    <3> QED BY <2>1, <2>5, <2>6, <3>1, <3>2
  <2>9. i = j BY <2>7, <2>8, <1>1
  <2> QED BY <2>6, <2>9, <2>5
<1> HIDE DEF e, c
<1>5. CASE max < 1 \/ n <= max
  <2>1. e = c /\ m = n BY <1>1, <1>3, <1>5 DEF Smaller
  <2>2. \A i \in 1..(n - 1) : c[i].u < c[i + 1].l
    <3> TAKE i \in 1..(n - 1)
    <3>1. i \in 1..n /\ i + 1 \in 1..n /\ i < i + 1 BY <1>1
    <3> QED BY <3>1, <1>1
  <2>3. \A x, y \in S : (\A z \in x..y : z \in S) =>
           \E i \in 1..n : x \in Elems(c[i]) /\ (x <= y => y \in Elems(c[i]))
    <3> TAKE x, y \in S
    <3> HAVE \A z \in x..y : z \in S
    <3>1. PICK i \in 1..n : x \in Elems(c[i]) BY <1>1
    <3>2. x <= y => y \in Elems(c[i]) BY <3>1, <1>4
    <3> QED BY <3>1, <3>2
  <2> HIDE DEF n
  <2>4. /\ e \in Seq(Ranges) /\ m \in Nat /\ Len(e) = m /\ DOMAIN e = 1..m
        /\ \A i \in 1..m : e[i] \in Ranges /\ e[i].l \in S /\ e[i].u - 1 \in S
        /\ \A i \in 1..(m - 1) : e[i].u < e[i + 1].l
        /\ \A x \in S : \E i \in 1..m : x \in Elems(e[i])
        /\ \A x, y \in S : (\A z \in x..y : z \in S) =>
             \E i \in 1..m : x \in Elems(e[i]) /\ (x <= y => y \in Elems(e[i]))
    <3> HIDE DEF m
    <3> QED BY <1>1, <2>1, <2>2, <2>3 DEF n
  <2> QED BY <2>4 DEF e, c, n
<1>6. CASE ~(max < 1 \/ n <= max)
  <2> DEFINE F(k) == FirstOf(n, max, k)
  <2>1. max >= 1 /\ n > max /\ m = max BY <1>1, <1>6 DEF Smaller
  <2> HIDE DEF n, m
  <2>2. /\ \A k \in 1..max : F(k) \in 1..n /\ F(k + 1) \in 1..(n + 1) /\ F(k) < F(k + 1)
    BY <2>1, <1>1, FirstOfFacts
  <2>3. \A j \in 1..n : \E k \in 1..max : F(k) <= j /\ j < F(k + 1)
    BY <2>1, <1>1, GroupExists
  <2> HIDE DEF F
  <2>4. ASSUME NEW k \in 1..max
        PROVE  /\ F(k) \in 1..n /\ F(k + 1) - 1 \in 1..n /\ F(k) <= F(k + 1) - 1
               /\ e[k] = [l |-> c[F(k)].l, u |-> c[F(k + 1) - 1].u]
               /\ e[k].l = c[F(k)].l /\ e[k].u = c[F(k + 1) - 1].u
    <3>1. e[k] = [l |-> c[F(k)].l, u |-> c[F(k + 1) - 1].u] BY <1>3, <1>6 DEF F
    <3>2. F(k) \in 1..n /\ F(k + 1) - 1 \in 1..n /\ F(k) <= F(k + 1) - 1 BY <2>2, <1>1
    <3> QED BY <3>1, <3>2
  \* Bounds of components grow with their index.
  <2>5. ASSUME NEW i \in 1..n, NEW j \in 1..n, i <= j
        PROVE  c[i].l <= c[j].l /\ c[i].u <= c[j].u /\ c[i].l < c[j].u
    <3>1. /\ c[i].l \in Int /\ c[i].u \in Int /\ c[j].l \in Int /\ c[j].u \in Int
          /\ c[i].l < c[i].u /\ c[j].l < c[j].u
      BY <1>1, RangeFacts
    <3>2. CASE i = j BY <3>1, <3>2
    <3>3. CASE i # j
      <4>1. i < j BY <1>1, <2>5, <3>3
      <4>2. c[i].u < c[j].l BY <4>1, <1>1
      <4> QED BY <3>1, <4>2
    <3> QED BY <3>2, <3>3
  <2>6. ASSUME NEW k \in 1..max
        PROVE  e[k] \in Ranges /\ e[k].l \in S /\ e[k].u - 1 \in S
    <3> DEFINE i == F(k)
               j == F(k + 1) - 1
    <3>1. /\ i \in 1..n /\ j \in 1..n /\ i <= j /\ e[k].l = c[i].l /\ e[k].u = c[j].u
          /\ e[k] = [l |-> c[i].l, u |-> c[j].u]
      BY <2>4
    <3> HIDE DEF i, j
    <3>2. c[i].l < c[j].u BY <3>1, <2>5
    <3>3. c[i].l \in 0..Size /\ c[j].u \in 0..Size BY <3>1, <1>1, RangeFacts
    <3>4. e[k] \in Ranges BY <3>1, <3>2, <3>3 DEF Ranges
    <3> QED BY <3>1, <3>4, <1>1
  <2>7. \A k \in 1..(max - 1) : e[k].u < e[k + 1].l
    <3> TAKE k \in 1..(max - 1)
    <3>1. k \in 1..max /\ k + 1 \in 1..max BY <2>1
    <3>2. /\ e[k].u = c[F(k + 1) - 1].u /\ e[k + 1].l = c[F(k + 1)].l
          /\ F(k + 1) - 1 \in 1..n /\ F(k + 1) \in 1..n
      BY <3>1, <2>4
    <3>3. F(k + 1) - 1 < F(k + 1) BY <3>2
    <3> QED BY <3>2, <3>3, <1>1
  \* A component lies in the entry of its group.
  <2>8. ASSUME NEW j \in 1..n
        PROVE  \E k \in 1..max : \A x \in Elems(c[j]) : x \in Elems(e[k])
    <3>1. PICK k \in 1..max : F(k) <= j /\ j < F(k + 1) BY <2>3
    <3>2. /\ F(k) \in 1..n /\ F(k + 1) - 1 \in 1..n /\ e[k].l = c[F(k)].l
          /\ e[k].u = c[F(k + 1) - 1].u
      BY <2>4
    <3>3. j <= F(k + 1) - 1 BY <1>1, <2>2, <3>1
    <3>4. e[k].l <= c[j].l BY <3>1, <3>2, <2>5
    <3>5. c[j].u <= e[k].u BY <3>2, <3>3, <2>5
    <3>6. /\ c[j].l \in Int /\ c[j].u \in Int /\ e[k].l \in Int /\ e[k].u \in Int
          /\ \A z : z \in Elems(e[k]) <=> z \in Int /\ e[k].l <= z /\ z < e[k].u
          /\ \A z : z \in Elems(c[j]) <=> z \in Int /\ c[j].l <= z /\ z < c[j].u
      BY <2>6, <1>1, RangeFacts
    <3>7. \A x \in Elems(c[j]) : x \in Elems(e[k]) BY <3>4, <3>5, <3>6
    <3> QED BY <3>7
  <2>9. \A x, y \in S : (\A z \in x..y : z \in S) =>
             \E i \in 1..max : x \in Elems(e[i]) /\ (x <= y => y \in Elems(e[i]))
    <3> TAKE x, y \in S
    <3> HAVE \A z \in x..y : z \in S
    <3>1. PICK j \in 1..n : x \in Elems(c[j]) BY <1>1
    <3>2. x <= y => y \in Elems(c[j]) BY <3>1, <1>4 DEF n
    <3>3. PICK k \in 1..max : \A z \in Elems(c[j]) : z \in Elems(e[k]) BY <2>8
    <3> QED BY <3>1, <3>2, <3>3
  <2>10. \A x \in S : \E i \in 1..max : x \in Elems(e[i])
    <3> TAKE x \in S
    <3>1. PICK j \in 1..n : x \in Elems(c[j]) BY <1>1
    <3>2. PICK k \in 1..max : \A z \in Elems(c[j]) : z \in Elems(e[k]) BY <2>8
    <3> QED BY <3>1, <3>2
  <2>11. DOMAIN e = 1..max /\ Len(e) = max /\ e \in Seq(Ranges)
    <3>1. e = [k \in 1..max |-> [l |-> c[F(k)].l, u |-> c[F(k + 1) - 1].u]]
      BY <1>3, <1>6 DEF F
    <3>2. DOMAIN e = 1..max /\ e = [k \in 1..max |-> e[k]] BY <3>1
    <3>3. e \in [1..max -> Ranges] BY <3>2, <2>6
    <3> QED BY <3>3
  <2>12. /\ e \in Seq(Ranges) /\ m \in Nat /\ Len(e) = m /\ DOMAIN e = 1..m
         /\ \A i \in 1..m : e[i] \in Ranges /\ e[i].l \in S /\ e[i].u - 1 \in S
         /\ \A i \in 1..(m - 1) : e[i].u < e[i + 1].l
         /\ \A x \in S : \E i \in 1..m : x \in Elems(e[i])
         /\ \A x, y \in S : (\A z \in x..y : z \in S) =>
              \E i \in 1..m : x \in Elems(e[i]) /\ (x <= y => y \in Elems(e[i]))
    BY <2>1, <2>6, <2>7, <2>9, <2>10, <2>11
  <2> QED BY <2>12 DEF m, e, n, c
<1> QED BY <1>5, <1>6

(***************************************************************************)
(* Pruning.                                                                *)
(***************************************************************************)
\* What a query is made of.
LEMMA QueryFacts ==
  ASSUME NEW q \in Queries
  PROVE  /\ q.op \in Ops /\ q.kind \in Kinds /\ q.set \in SUBSET Cells
         /\ q.kind = "element" <=> q.op = "contains_elem"
         /\ q.kind = "element" => Cardinality(q.set) = 1
         /\ q.kind = "range" => q.set = {} \/ q.set = Elems(Span(q.set))
BY QueriesAssumption

\* The facts about the argument's span that the tests use.
LEMMA ArgumentFacts ==
  ASSUME NEW q \in Queries, q.set # {}
  PROVE  LET s == Span(q.set) IN
         /\ s.l \in Int /\ s.u \in Int /\ s.l < s.u /\ s.l \in q.set /\ s.u - 1 \in q.set
         /\ \A x \in q.set : x \in Int /\ s.l <= x /\ x < s.u
         /\ KeyLower(q) = 2 * s.l + 1
         /\ KeyUpper(q) = IF q.kind = "element" THEN 2 * s.l + 1 ELSE 2 * s.u
<1> DEFINE s == Span(q.set)
<1>1. q.set \in SUBSET Cells BY QueryFacts
<1>2. /\ s \in Ranges /\ s.l = Least(q.set) /\ s.u = Greatest(q.set) + 1
      /\ s.l \in q.set /\ s.u - 1 \in q.set /\ \A x \in q.set : s.l <= x /\ x < s.u
  BY <1>1, SpanFacts
<1>3. \A x \in q.set : x \in Int BY <1>1, SizeAssumption DEF Cells
<1> HIDE DEF s
<1>4. s.l \in Int /\ s.u \in Int /\ s.l < s.u BY <1>2, RangeFacts
<1>5. KeyLower(q) = 2 * s.l + 1 BY <1>2 DEF KeyLower, LowerB
<1>6. KeyUpper(q) = IF q.kind = "element" THEN 2 * s.l + 1 ELSE 2 * s.u
  BY <1>2 DEF KeyUpper, LowerB, UpperB
<1> QED BY <1>2, <1>3, <1>4, <1>5, <1>6 DEF s

\* A key that covers an entry passes the inner test if the entry passes the leaf test.
LEMMA InnerKeepsLeaf ==
  ASSUME NEW q \in Queries, NEW r \in Ranges, NEW k \in Ranges,
         k.l <= r.l, r.u <= k.u, LeafConsistent(q, r)
  PROVE  InnerConsistent(q, k)
<1>1. /\ r.l \in Int /\ r.u \in Int /\ r.l < r.u /\ k.l \in Int /\ k.u \in Int /\ k.l < k.u
      /\ \A x : x \in Elems(r) <=> x \in Int /\ r.l <= x /\ x < r.u
      /\ \A x : x \in Elems(k) <=> x \in Int /\ k.l <= x /\ x < k.u
  BY RangeFacts
<1>2. Overlaps(r, q.set) => Overlaps(k, q.set) BY <1>1 DEF Overlaps
<1>3. CASE q.op \in {"overlaps", "contains", "contained_by", "contains_elem"}
  BY <1>2, <1>3 DEF LeafConsistent, InnerConsistent
<1>4. CASE q.op = "eq"
  <2>1. q.set # {} /\ r = Span(q.set) BY <1>4 DEF LeafConsistent
  <2>2. r.l \in q.set /\ r.l \in Elems(k) BY <2>1, <1>1, ArgumentFacts
  <2> QED BY <2>1, <2>2, <1>4 DEF InnerConsistent, Overlaps
<1>5. CASE q.op \in {"before", "after", "overleft", "overright", "adjacent"}
  <2>1. q.set # {} BY <1>5 DEF LeafConsistent
  <2> DEFINE s == Span(q.set)
  <2>2. s.l \in Int /\ s.u \in Int /\ s.l < s.u /\ s.l \in q.set /\ s.u - 1 \in q.set
    BY <2>1, ArgumentFacts
  <2>3. CASE q.op = "before"
    <3>1. r.u <= s.l BY <2>3 DEF LeafConsistent, Before
    <3>2. ~(k.l >= s.l) BY <3>1, <1>1, <2>2
    <3> QED BY <3>2, <2>1, <2>3 DEF InnerConsistent, OverRight
  <2>4. CASE q.op = "after"
    <3>1. s.u <= r.l BY <2>4 DEF LeafConsistent, Before
    <3>2. ~(k.u <= s.u) BY <3>1, <1>1, <2>2
    <3> QED BY <3>2, <2>1, <2>4 DEF InnerConsistent, OverLeft
  <2>5. CASE q.op = "overleft"
    <3>1. r.u <= s.u BY <2>5 DEF LeafConsistent, OverLeft
    <3>2. ~(s.u <= k.l) BY <3>1, <1>1, <2>2
    <3> QED BY <3>2, <2>1, <2>5 DEF InnerConsistent, Before
  <2>6. CASE q.op = "overright"
    <3>1. r.l >= s.l BY <2>6 DEF LeafConsistent, OverRight
    <3>2. ~(k.u <= s.l) BY <3>1, <1>1, <2>2
    <3> QED BY <3>2, <2>1, <2>6 DEF InnerConsistent, Before
  <2>7. CASE q.op = "adjacent"
    <3>1. r.u = s.l \/ s.u = r.l BY <2>7 DEF LeafConsistent, Adjacent
    <3> HIDE DEF s
    <3>2. \/ k.u = s.l \/ s.u = k.l \/ s.l \in Elems(k) \/ s.u - 1 \in Elems(k)
      BY <3>1, <1>1, <2>2
    <3>3. (k.u = s.l \/ s.u = k.l) \/ Overlaps(k, q.set) BY <3>2, <2>2 DEF Overlaps
    <3> QED BY <3>3, <2>1, <2>7 DEF InnerConsistent, Adjacent, s
  <2> QED BY <1>5, <2>3, <2>4, <2>5, <2>6, <2>7
<1>6. q.op \in Ops BY QueryFacts
<1> QED BY <1>3, <1>4, <1>5, <1>6 DEF Ops

\* What the quadtree needs of an entry to keep it: that it passes the leaf test, holds
\* all of an argument that it must contain, lies within one that must contain it.
Match(q, r) ==
  /\ LeafConsistent(q, r) /\ q.set # {} /\ q.op # "eq"
  /\ q.op = "contains" /\ q.kind = "range" => q.set \subseteq Elems(r)
  /\ q.op = "contained_by" => r.l >= Span(q.set).l /\ r.u <= Span(q.set).u

\* In terms of bounds.
LEMMA MatchBounds ==
  ASSUME NEW q \in Queries, NEW r \in Ranges, Match(q, r)
  PROVE  LET s == Span(q.set) IN
         /\ q.op = "before" => r.u <= s.l
         /\ q.op = "after" => s.u <= r.l
         /\ q.op = "overleft" => r.u <= s.u
         /\ q.op = "overright" => r.l >= s.l
         /\ q.op = "adjacent" => r.u = s.l \/ s.u = r.l
         /\ q.op \in {"overlaps", "contains", "contains_elem"} => r.l < s.u /\ s.l < r.u
         /\ q.op = "contains_elem" \/ (q.op = "contains" /\ q.kind # "multirange") =>
              r.l <= s.l /\ s.u <= r.u
         /\ q.op = "contained_by" => r.l >= s.l /\ r.u <= s.u
<1> DEFINE s == Span(q.set)
<1>1. /\ s.l \in Int /\ s.u \in Int /\ s.l < s.u /\ s.l \in q.set /\ s.u - 1 \in q.set
      /\ \A x \in q.set : x \in Int /\ s.l <= x /\ x < s.u
  BY ArgumentFacts DEF Match
<1>2. /\ r.l \in Int /\ r.u \in Int /\ r.l < r.u
      /\ \A x : x \in Elems(r) <=> x \in Int /\ r.l <= x /\ x < r.u
  BY RangeFacts
<1>3. /\ q.op \in Ops /\ q.kind \in Kinds /\ (q.kind = "element" <=> q.op = "contains_elem")
      /\ q.kind = "element" => Cardinality(q.set) = 1 /\ IsFiniteSet(q.set)
  <2>1. q.set \in SUBSET Nat /\ \A x \in q.set : x <= Size
    BY QueryFacts, SizeAssumption DEF Cells
  <2>2. IsFiniteSet(q.set) BY <2>1, SizeAssumption, FS_BoundedSetOfNaturals
  <2> QED BY <2>2, QueryFacts
<1> HIDE DEF s
<1>4. LeafConsistent(q, r) BY DEF Match
<1>5. /\ q.op = "before" => r.u <= s.l
      /\ q.op = "after" => s.u <= r.l
      /\ q.op = "overleft" => r.u <= s.u
      /\ q.op = "overright" => r.l >= s.l
      /\ q.op = "adjacent" => r.u = s.l \/ s.u = r.l
  BY <1>4 DEF LeafConsistent, Before, OverLeft, OverRight, Adjacent, s
<1>6. q.op \in {"overlaps", "contains", "contains_elem"} => r.l < s.u /\ s.l < r.u
  <2> SUFFICES ASSUME q.op \in {"overlaps", "contains", "contains_elem"}
               PROVE  r.l < s.u /\ s.l < r.u OBVIOUS
  <2>1. PICK x \in q.set : x \in Elems(r) BY <1>4 DEF LeafConsistent, Overlaps
  <2> QED BY <2>1, <1>1, <1>2
<1>7. q.op = "contains_elem" => r.l <= s.l /\ s.u <= r.u
  <2> SUFFICES ASSUME q.op = "contains_elem" PROVE r.l <= s.l /\ s.u <= r.u OBVIOUS
  <2>1. PICK x : q.set = {x}
    <3>1. Cardinality(q.set) = 1 /\ IsFiniteSet(q.set) BY <1>3
    <3> QED BY <3>1, FS_Singleton
  <2>2. s.l = x /\ s.u - 1 = x BY <2>1, <1>1
  <2>3. s.u = s.l + 1 BY <2>2, <1>1
  <2> QED BY <2>3, <1>6, <1>1, <1>2
<1>8. q.op = "contains" /\ q.kind = "range" => r.l <= s.l /\ s.u <= r.u
  <2> SUFFICES ASSUME q.op = "contains", q.kind = "range" PROVE r.l <= s.l /\ s.u <= r.u
    OBVIOUS
  <2>1. q.set \subseteq Elems(r) BY DEF Match
  <2>2. s.l \in Elems(r) /\ s.u - 1 \in Elems(r) BY <2>1, <1>1
  <2> QED BY <2>2, <1>1, <1>2
<1>9. q.op = "contained_by" => r.l >= s.l /\ r.u <= s.u BY DEF Match, s
<1>10. q.op = "contains" => q.kind # "element" BY <1>3
<1> QED BY <1>3, <1>5, <1>6, <1>7, <1>8, <1>9, <1>10 DEF s, Kinds

\* The quadrant of an entry below a centroid is one of those that are visited.  With
\* a level above, entry and centroid lie in one quadrant of the centroid there.
LEMMA VisitedKeepsMatch ==
  ASSUME NEW q \in Queries, NEW r \in Ranges, NEW c \in Ranges, Match(q, r),
         prev = None \/ (prev \in Ranges /\ Quadrant(prev, c) = Quadrant(prev, r))
  PROVE  Quadrant(c, r) \in Visited(q, c)
<1> DEFINE s == Span(q.set)
           n == Quadrant(c, r)
<1>1. /\ s.l \in Int /\ s.u \in Int /\ s.l < s.u
      /\ KeyLower(q) = 2 * s.l + 1
      /\ KeyUpper(q) = IF q.kind = "element" THEN 2 * s.l + 1 ELSE 2 * s.u
  BY ArgumentFacts DEF Match
<1>2. r.l \in Int /\ r.u \in Int /\ c.l \in Int /\ c.u \in Int BY RangeFacts
<1>3. /\ n \in 1..4
      /\ n \in {1, 2} <=> r.l >= c.l
      /\ n \in {3, 4} <=> r.l < c.l
      /\ n \in {1, 4} <=> r.u >= c.u
      /\ n \in {2, 3} <=> r.u < c.u
  BY <1>2 DEF Quadrant
<1>4. /\ q.op = "before" => r.u <= s.l
      /\ q.op = "after" => s.u <= r.l
      /\ q.op = "overleft" => r.u <= s.u
      /\ q.op = "overright" => r.l >= s.l
      /\ q.op = "adjacent" => r.u = s.l \/ s.u = r.l
      /\ q.op \in {"overlaps", "contains", "contains_elem"} => r.l < s.u /\ s.l < r.u
      /\ q.op = "contains_elem" \/ (q.op = "contains" /\ q.kind # "multirange") =>
           r.l <= s.l /\ s.u <= r.u
      /\ q.op = "contained_by" => r.l >= s.l /\ r.u <= s.u
  BY MatchBounds
<1>5. /\ q.op \in Ops /\ q.set # {} /\ q.op # "eq"
      /\ q.kind = "element" <=> q.op = "contains_elem"
  BY QueryFacts DEF Match
<1> HIDE DEF n
<1>6. CASE q.op = "before"
  <2>1. Visited(q, c) = MaxUpper(c, KeyLower(q), FALSE) BY <1>5, <1>6 DEF Visited
  <2>2. UpperB(c.u) > KeyLower(q) \/ UpperB(c.u) = KeyLower(q) => r.u < c.u
    BY <1>1, <1>2, <1>4, <1>6 DEF UpperB
  <2> QED BY <2>1, <2>2, <1>3 DEF MaxUpper, n
<1>7. CASE q.op = "overleft"
  <2>1. Visited(q, c) = MaxUpper(c, KeyUpper(q), TRUE) BY <1>5, <1>7 DEF Visited
  <2>2. UpperB(c.u) > KeyUpper(q) => r.u < c.u
    BY <1>1, <1>2, <1>4, <1>5, <1>7 DEF UpperB
  <2> QED BY <2>1, <2>2, <1>3 DEF MaxUpper, n
<1>8. CASE q.op = "overlaps" \/ (q.op = "contains" /\ q.kind = "multirange")
  <2>1. Visited(q, c) = MaxLower(c, KeyUpper(q), TRUE) \cap MinUpper(c, KeyLower(q))
    <3>1. CASE q.op = "overlaps" BY <1>5, <3>1 DEF Visited
    <3>2. CASE q.op = "contains" /\ q.kind = "multirange" BY <1>5, <3>2 DEF Visited
    <3> QED BY <3>1, <3>2, <1>8
  <2>2. LowerB(c.l) > KeyUpper(q) => r.l < c.l
    BY <1>1, <1>2, <1>4, <1>5, <1>8 DEF LowerB
  <2>3. UpperB(c.u) <= KeyLower(q) => r.u >= c.u
    BY <1>1, <1>2, <1>4, <1>8 DEF UpperB
  <2>4. n \in MaxLower(c, KeyUpper(q), TRUE) BY <2>2, <1>3 DEF MaxLower
  <2>5. n \in MinUpper(c, KeyLower(q)) BY <2>3, <1>3 DEF MinUpper
  <2> QED BY <2>1, <2>4, <2>5 DEF n
<1>9. CASE q.op = "overright"
  <2>1. Visited(q, c) = MinLower(c, KeyLower(q)) BY <1>5, <1>9 DEF Visited
  <2>2. LowerB(c.l) <= KeyLower(q) => r.l >= c.l BY <1>1, <1>2, <1>4, <1>9 DEF LowerB
  <2> QED BY <2>1, <2>2, <1>3 DEF MinLower, n
<1>10. CASE q.op = "after"
  <2>1. Visited(q, c) = MinLower(c, KeyUpper(q)) BY <1>5, <1>10 DEF Visited
  <2>2. LowerB(c.l) <= KeyUpper(q) => r.l >= c.l
    BY <1>1, <1>2, <1>4, <1>5, <1>10 DEF LowerB
  <2> QED BY <2>1, <2>2, <1>3 DEF MinLower, n
<1>11. CASE q.op = "contains_elem" \/ (q.op = "contains" /\ q.kind # "multirange")
  <2>1. Visited(q, c) = MaxLower(c, KeyLower(q), TRUE) \cap MinUpper(c, KeyUpper(q))
    BY <1>5, <1>11 DEF Visited
  <2>2. LowerB(c.l) > KeyLower(q) => r.l < c.l
    BY <1>1, <1>2, <1>4, <1>11 DEF LowerB
  <2>3. UpperB(c.u) <= KeyUpper(q) => r.u >= c.u
    BY <1>1, <1>2, <1>4, <1>11 DEF UpperB
  <2>4. n \in MaxLower(c, KeyLower(q), TRUE) BY <2>2, <1>3 DEF MaxLower
  <2>5. n \in MinUpper(c, KeyUpper(q)) BY <2>3, <1>3 DEF MinUpper
  <2> QED BY <2>1, <2>4, <2>5 DEF n
<1>12. CASE q.op = "contained_by"
  <2>1. Visited(q, c) = MinLower(c, KeyLower(q)) \cap MaxUpper(c, KeyUpper(q), TRUE)
    BY <1>5, <1>12 DEF Visited
  <2>2. LowerB(c.l) <= KeyLower(q) => r.l >= c.l
    BY <1>1, <1>2, <1>4, <1>12 DEF LowerB
  <2>3. UpperB(c.u) > KeyUpper(q) => r.u < c.u
    BY <1>1, <1>2, <1>4, <1>5, <1>12 DEF UpperB
  <2>4. n \in MinLower(c, KeyLower(q)) BY <2>2, <1>3 DEF MinLower
  <2>5. n \in MaxUpper(c, KeyUpper(q), TRUE) BY <2>3, <1>3 DEF MaxUpper
  <2> QED BY <2>1, <2>4, <2>5 DEF n
<1>13. CASE q.op = "adjacent"
  <2> DEFINE up == Sides(UpperIsRight(s.l, c.u), UpperIsRight(s.l, prev.u), c.u >= prev.u)
             lo == Sides(LowerIsRight(s.u, c.l), LowerIsRight(s.u, prev.l), c.l >= prev.l)
             ups == {IF right THEN {1, 4} ELSE {2, 3} : right \in up}
             los == {IF right THEN {1, 2} ELSE {3, 4} : right \in lo}
  <2>1. Visited(q, c) = UNION (ups \cup los)
    BY <1>5, <1>13 DEF Visited, AdjacentQuadrants
  <2>2. prev # None => /\ prev.l \in Int /\ prev.u \in Int
                       /\ c.u >= prev.u <=> r.u >= prev.u
                       /\ c.l >= prev.l <=> r.l >= prev.l
    <3> SUFFICES ASSUME prev # None PROVE /\ prev.l \in Int /\ prev.u \in Int
                                          /\ c.u >= prev.u <=> r.u >= prev.u
                                          /\ c.l >= prev.l <=> r.l >= prev.l
      OBVIOUS
    <3>1. prev.l \in Int /\ prev.u \in Int BY RangeFacts
    <3> QED BY <3>1, <1>2 DEF Quadrant
  <2>3. CASE r.u = s.l
    <3>1. UpperIsRight(s.l, c.u) <=> r.u >= c.u
      BY <1>1, <1>2, <2>3 DEF UpperIsRight, LowerB, UpperB
    <3>2. prev # None => (UpperIsRight(s.l, prev.u) <=> r.u >= prev.u)
      BY <1>1, <1>2, <2>2, <2>3 DEF UpperIsRight, LowerB, UpperB
    <3>3. UpperIsRight(s.l, prev.u) \in BOOLEAN /\ (c.u >= prev.u) \in BOOLEAN
      BY DEF UpperIsRight
    <3>4. prev # None => UpperIsRight(s.l, prev.u) = (c.u >= prev.u) BY <3>2, <3>3, <2>2
    <3>5. up = {UpperIsRight(s.l, c.u)} BY <3>4 DEF Sides
    <3>6. CASE r.u >= c.u
      <4>1. {1, 4} \in ups BY <3>1, <3>5, <3>6
      <4> HIDE DEF ups, los
      <4> QED BY <4>1, <2>1, <1>3, <3>6 DEF n
    <3>7. CASE ~(r.u >= c.u)
      <4>1. {2, 3} \in ups BY <3>1, <3>5, <3>7
      <4>2. n \in {2, 3} BY <1>3, <1>2, <3>7
      <4> HIDE DEF ups, los
      <4> QED BY <4>1, <4>2, <2>1 DEF n
    <3> QED BY <3>6, <3>7
  <2>4. CASE s.u = r.l
    <3>1. LowerIsRight(s.u, c.l) <=> r.l >= c.l
      BY <1>1, <1>2, <2>4 DEF LowerIsRight, LowerB, UpperB
    <3>2. prev # None => (LowerIsRight(s.u, prev.l) <=> r.l >= prev.l)
      BY <1>1, <1>2, <2>2, <2>4 DEF LowerIsRight, LowerB, UpperB
    <3>3. LowerIsRight(s.u, prev.l) \in BOOLEAN /\ (c.l >= prev.l) \in BOOLEAN
      BY DEF LowerIsRight
    <3>4. prev # None => LowerIsRight(s.u, prev.l) = (c.l >= prev.l) BY <3>2, <3>3, <2>2
    <3>5. lo = {LowerIsRight(s.u, c.l)} BY <3>4 DEF Sides
    <3>6. CASE r.l >= c.l
      <4>1. {1, 2} \in los BY <3>1, <3>5, <3>6
      <4> HIDE DEF ups, los
      <4> QED BY <4>1, <2>1, <1>3, <3>6 DEF n
    <3>7. CASE ~(r.l >= c.l)
      <4>1. {3, 4} \in los BY <3>1, <3>5, <3>7
      <4>2. n \in {3, 4} BY <1>3, <1>2, <3>7
      <4> HIDE DEF ups, los
      <4> QED BY <4>1, <4>2, <2>1 DEF n
    <3> QED BY <3>6, <3>7
  <2> QED BY <2>3, <2>4, <1>4, <1>13
<1> QED BY <1>5, <1>6, <1>7, <1>8, <1>9, <1>10, <1>11, <1>12, <1>13 DEF Ops

(***************************************************************************)
(* The search.                                                             *)
(***************************************************************************)
\* Where the search is, its entries are those of the row; nothing is pruned before the
\* tree is entered; what was pruned then could not match, in either tree.
SearchInv ==
  /\ TypeOK /\ row # {}
  /\ stage \in {"row", "inner"} => prev = None
  /\ stage = "row" => keys = <<>>
  /\ stage # "row" => keys = Extracted(row, limit)
  /\ stage = "inner" => live = DOMAIN keys
  /\ stage = "below" => prev \in Ranges /\ tree = "quadtree"
  /\ RTreeKeepsMatches
  /\ tree = "quadtree" /\ stage \in {"below", "leaf", "done"} =>
       \A i \in DOMAIN keys : Match(query, keys[i]) => i \in live
  /\ stage = "done" => (found <=> \E i \in live : LeafConsistent(query, keys[i]))

\* Every step keeps the entries well typed and prunes none that matches.
LEMMA SearchInductive == SearchInv /\ [Next]_vars => SearchInv'
<1> USE DEF SearchInv
<1> SUFFICES ASSUME SearchInv, [Next]_vars PROVE SearchInv' OBVIOUS
<1>0. /\ row \in SUBSET Cells /\ limit \in Nat /\ query \in Queries /\ row # {}
      /\ stage # "row" => \A i \in DOMAIN keys : keys[i] \in Ranges
  BY LimitsAssumption DEF TypeOK
<1>1. CASE Extract
  <2> USE <1>1 DEF Extract
  <2>1. keys' = Extracted(row, limit) /\ keys' \in Seq(Ranges) BY <1>0, ExtractedFacts
  <2>2. TypeOK' BY <2>1 DEF TypeOK
  <2> QED BY <2>1, <2>2 DEF RTreeKeepsMatches
<1>2. CASE RTreeInner
  <2> USE <1>2 DEF RTreeInner
  <2>1. PICK k \in [live -> Ranges] :
          /\ \A i \in live : k[i].l <= keys[i].l /\ keys[i].u <= k[i].u
          /\ live' = {i \in live : InnerConsistent(query, k[i])}
    OBVIOUS
  <2>2. TypeOK' BY <2>1 DEF TypeOK
  <2>3. ASSUME NEW i \in DOMAIN keys, LeafConsistent(query, keys[i]) PROVE i \in live'
    <3>1. i \in live /\ keys[i] \in Ranges /\ k[i] \in Ranges
          /\ k[i].l <= keys[i].l /\ keys[i].u <= k[i].u BY <1>0, <2>1
    <3> QED BY <3>1, <2>1, <2>3, <1>0, InnerKeepsLeaf
  <2>4. UNCHANGED <<row, limit, query, tree, keys, prev, found>> OBVIOUS
  <2>5. RTreeKeepsMatches' BY <2>3, <2>4 DEF RTreeKeepsMatches
  <2> QED BY <2>2, <2>4, <2>5
<1>3. CASE QuadTop
  <2> USE <1>3 DEF QuadTop
  <2>1. PICK c \in Ranges :
          live' = {i \in live : Quadrant(c, keys[i]) \in Visited(query, c)} /\ prev' = c
    OBVIOUS
  <2>2. TypeOK' BY <2>1 DEF TypeOK
  <2>3. ASSUME NEW i \in DOMAIN keys, Match(query, keys[i]) PROVE i \in live'
    <3>1. i \in live /\ keys[i] \in Ranges BY <1>0
    <3>2. Quadrant(c, keys[i]) \in Visited(query, c) BY <3>1, <2>3, <1>0, VisitedKeepsMatch
    <3> QED BY <3>1, <3>2, <2>1
  <2>4. UNCHANGED <<row, limit, query, tree, keys, found>> OBVIOUS
  <2>5. RTreeKeepsMatches' BY <2>4 DEF RTreeKeepsMatches
  <2> QED BY <2>1, <2>2, <2>3, <2>4, <2>5
<1>4. CASE QuadBelow
  <2> USE <1>4 DEF QuadBelow
  <2>1. PICK c \in [{Quadrant(prev, keys[i]) : i \in live} -> Ranges] :
          /\ \A k \in DOMAIN c : Quadrant(prev, c[k]) = k
          /\ live' = {i \in live : LET d == c[Quadrant(prev, keys[i])]
                                   IN Quadrant(d, keys[i]) \in Visited(query, d)}
    OBVIOUS
  <2>2. TypeOK' BY <2>1 DEF TypeOK
  <2>3. ASSUME NEW i \in DOMAIN keys, Match(query, keys[i]) PROVE i \in live'
    <3> DEFINE k == Quadrant(prev, keys[i])
    <3>1. i \in live /\ keys[i] \in Ranges BY <1>0, <2>3
    <3>2. k \in DOMAIN c /\ c[k] \in Ranges /\ Quadrant(prev, c[k]) = k BY <3>1, <2>1
    <3>3. Quadrant(c[k], keys[i]) \in Visited(query, c[k])
      BY <3>1, <3>2, <2>3, <1>0, VisitedKeepsMatch
    <3> QED BY <3>1, <3>3, <2>1
  <2>4. UNCHANGED <<row, limit, query, tree, keys, prev, found>> OBVIOUS
  <2>5. RTreeKeepsMatches' BY <2>4 DEF RTreeKeepsMatches
  <2> QED BY <2>2, <2>3, <2>4, <2>5
<1>5. CASE Leaf
  <2> USE <1>5 DEF Leaf
  <2>1. TypeOK' BY DEF TypeOK
  <2>2. RTreeKeepsMatches' BY DEF RTreeKeepsMatches
  <2> QED BY <2>1, <2>2
<1>6. CASE UNCHANGED vars
  <2> USE <1>6 DEF vars
  <2>1. TypeOK' BY DEF TypeOK
  <2>2. RTreeKeepsMatches' BY DEF RTreeKeepsMatches
  <2> QED BY <2>1, <2>2
<1> QED BY <1>1, <1>2, <1>3, <1>4, <1>5, <1>6 DEF Next

\* A search begins outside the tree.
LEMMA SearchInit == Init => SearchInv
<1> SUFFICES ASSUME Init PROVE SearchInv OBVIOUS
<1>1. row \subseteq Cells /\ limit \in Limits /\ query \in Queries /\ tree \in {"rtree", "quadtree"}
  BY DEF Init
<1>2. stage = "row" /\ prev = None /\ found = FALSE /\ live = {} BY DEF Init
<1>3. keys \in Seq(Ranges) BY DEF Init
<1>4. TypeOK BY <1>1, <1>2, <1>3 DEF TypeOK
<1> QED BY <1>4 DEF Init, SearchInv, RTreeKeepsMatches

\* The strengthened invariant.
LEMMA SearchAlways == Spec => []SearchInv
BY SearchInit, SearchInductive, PTL DEF Spec

\* Type correctness: whatever row and max_ranges, the entries multirange_mest_extract
\* makes are ranges, and a centroid is one too.
THEOREM SearchTypes == Spec => []TypeOK
<1>1. SearchInv => TypeOK BY DEF SearchInv
<1> QED BY <1>1, SearchAlways, PTL

\* multirange_mest_extract: for every row and every max_ranges the entries cover the
\* row, begin and end in it, do not touch, and are as many as they may be.
THEOREM EntriesAlwaysCover == Spec => []EntriesCoverRow
<1>1. SearchInv => EntriesCoverRow
  <2> SUFFICES ASSUME SearchInv, stage # "row" PROVE EntriesCoverRow
    BY DEF EntriesCoverRow
  <2> DEFINE n == Len(Components(row))
             m == IF limit < 1 THEN n ELSE Smaller(n, limit)
  <2>1. row \in SUBSET Cells /\ limit \in Nat /\ keys = Extracted(row, limit)
    BY LimitsAssumption DEF SearchInv, TypeOK
  <2>2. /\ m \in Nat /\ Len(keys) = m /\ DOMAIN keys = 1..m
        /\ \A i \in 1..m : keys[i].l \in row /\ keys[i].u - 1 \in row
        /\ \A i \in 1..(m - 1) : keys[i].u < keys[i + 1].l
        /\ \A x \in row : \E i \in 1..m : x \in Elems(keys[i])
    BY <2>1, ExtractedFacts
  <2> HIDE DEF m
  <2>3. row \subseteq UNION {Elems(keys[i]) : i \in DOMAIN keys} BY <2>2
  <2>4. \A i \in DOMAIN keys : {keys[i].l, keys[i].u - 1} \subseteq row BY <2>2
  <2>5. Len(keys) = m /\ \A i \in 1..(Len(keys) - 1) : keys[i].u < keys[i + 1].l BY <2>2
  <2> QED BY <2>3, <2>4, <2>5 DEF EntriesCoverRow, m
<1> QED BY <1>1, SearchAlways, PTL

\* range_gist_consistent_int_*: whatever key covers an entry on an inner page, it does
\* not hide the entry from a query whose leaf test it passes.
THEOREM RTreeNeverPrunesMatches == Spec => []RTreeKeepsMatches
<1>1. SearchInv => RTreeKeepsMatches BY DEF SearchInv
<1> QED BY <1>1, SearchAlways, PTL

\* The queries the operator classes can answer: not equality (the leaf test compares
\* one entry with the span of the argument), and not whether the empty set is contained.
Answerable(q) == q.op # "eq" /\ (q.set = {} => q.op # "contains")

\* A row that satisfies an answerable query has an entry that matches it.
LEMMA SatisfyingRowMatches ==
  ASSUME NEW q \in Queries, Answerable(q), NEW S \in SUBSET Cells, S # {},
         NEW max \in Nat, Holds(q, S)
  PROVE  \E i \in DOMAIN Extracted(S, max) : Match(q, Extracted(S, max)[i])
<1> DEFINE e == Extracted(S, max)
           n == Len(Components(S))
           m == IF max < 1 THEN n ELSE Smaller(n, max)
           s == Span(q.set)
           t == Span(S)
<1>1. /\ m \in Nat /\ DOMAIN e = 1..m
      /\ \A i \in 1..m : e[i] \in Ranges /\ e[i].l \in S /\ e[i].u - 1 \in S
      /\ \A x \in S : \E i \in 1..m : x \in Elems(e[i])
      /\ \A x, y \in S : (\A z \in x..y : z \in S) =>
           \E i \in 1..m : x \in Elems(e[i]) /\ (x <= y => y \in Elems(e[i]))
  BY ExtractedFacts
<1> HIDE DEF m, e
<1>2. /\ t \in Ranges /\ t.l \in S /\ t.u - 1 \in S /\ t.l \in Int /\ t.u \in Int
      /\ \A x \in S : x \in Int /\ t.l <= x /\ x < t.u
  <2>1. /\ t \in Ranges /\ t.l \in S /\ t.u - 1 \in S
        /\ \A x \in S : t.l <= x /\ x < t.u BY SpanFacts
  <2>2. \A x \in S : x \in Int BY SizeAssumption DEF Cells
  <2> HIDE DEF t
  <2> QED BY <2>1, <2>2, RangeFacts
<1>3. /\ q.op \in Ops /\ q.kind \in Kinds /\ q.set \in SUBSET Cells
      /\ q.kind = "element" <=> q.op = "contains_elem"
      /\ q.kind = "range" => q.set = {} \/ q.set = Elems(s)
  BY QueryFacts
<1>4. q.set # {}
  <2> SUFFICES ASSUME q.set = {} PROVE FALSE OBVIOUS
  <2>1. q.op # "contains_elem"
    <3>1. Cardinality({}) = 0 BY FS_EmptySet
    <3>2. q.kind = "element" => Cardinality(q.set) = 1 BY QueryFacts
    <3> QED BY <3>1, <3>2, <1>3
  <2>2. q.op # "eq" /\ q.op # "contains" BY DEF Answerable
  <2> QED BY <2>1, <2>2, <1>3 DEF Holds, Ops
<1>5. /\ s.l \in Int /\ s.u \in Int /\ s.l < s.u /\ s.l \in q.set /\ s.u - 1 \in q.set
      /\ \A x \in q.set : x \in Int /\ s.l <= x /\ x < s.u
  BY <1>4, ArgumentFacts
<1>6. \A i \in 1..m : /\ e[i].l \in Int /\ e[i].u \in Int /\ e[i].l < e[i].u
                      /\ \A x : x \in Elems(e[i]) <=> x \in Int /\ e[i].l <= x /\ x < e[i].u
                      /\ t.l <= e[i].l /\ e[i].u <= t.u
  <2> TAKE i \in 1..m
  <2>1. /\ e[i].l \in Int /\ e[i].u \in Int /\ e[i].l < e[i].u
        /\ \A x : x \in Elems(e[i]) <=> x \in Int /\ e[i].l <= x /\ x < e[i].u
    BY <1>1, RangeFacts
  <2>2. t.l <= e[i].l /\ e[i].u - 1 < t.u BY <1>1, <1>2
  <2> QED BY <2>1, <2>2, <1>2
\* The entries at the two ends.
<1>7. \E i \in 1..m : e[i].l = t.l
  <2>1. PICK i \in 1..m : t.l \in Elems(e[i]) BY <1>1, <1>2
  <2>2. e[i].l = t.l BY <2>1, <1>2, <1>6
  <2> QED BY <2>2
<1>8. \E i \in 1..m : e[i].u = t.u
  <2>1. PICK i \in 1..m : t.u - 1 \in Elems(e[i]) BY <1>1, <1>2
  <2>2. e[i].u = t.u BY <2>1, <1>2, <1>6
  <2> QED BY <2>2
<1>9. q.op # "eq" BY DEF Answerable
<1> HIDE DEF s, t
<1>10. CASE q.op = "before"
  <2>1. t.u <= s.l BY <1>10 DEF Holds, Before, s, t
  <2>2. PICK i \in 1..m : e[i].u = t.u BY <1>8
  <2>3. LeafConsistent(q, e[i]) BY <2>1, <2>2, <1>4, <1>10 DEF LeafConsistent, Before, s
  <2> QED BY <2>3, <1>1, <1>4, <1>10 DEF Match, e
<1>11. CASE q.op = "after"
  <2>1. s.u <= t.l BY <1>11 DEF Holds, Before, s, t
  <2>2. PICK i \in 1..m : e[i].l = t.l BY <1>7
  <2>3. LeafConsistent(q, e[i]) BY <2>1, <2>2, <1>4, <1>11 DEF LeafConsistent, Before, s
  <2> QED BY <2>3, <1>1, <1>4, <1>11 DEF Match, e
<1>12. CASE q.op = "overleft"
  <2>1. t.u <= s.u BY <1>12 DEF Holds, OverLeft, s, t
  <2>2. PICK i \in 1..m : e[i].u = t.u BY <1>8
  <2>3. LeafConsistent(q, e[i]) BY <2>1, <2>2, <1>4, <1>12 DEF LeafConsistent, OverLeft, s
  <2> QED BY <2>3, <1>1, <1>4, <1>12 DEF Match, e
<1>13. CASE q.op = "overright"
  <2>1. t.l >= s.l BY <1>13 DEF Holds, OverRight, s, t
  <2>2. PICK i \in 1..m : e[i].l = t.l BY <1>7
  <2>3. LeafConsistent(q, e[i]) BY <2>1, <2>2, <1>4, <1>13 DEF LeafConsistent, OverRight, s
  <2> QED BY <2>3, <1>1, <1>4, <1>13 DEF Match, e
<1>14. CASE q.op = "adjacent"
  <2>1. t.u = s.l \/ s.u = t.l BY <1>14 DEF Holds, Adjacent, s, t
  <2>2. \E i \in 1..m : e[i].u = s.l \/ s.u = e[i].l BY <2>1, <1>7, <1>8
  <2>3. PICK i \in 1..m : e[i].u = s.l \/ s.u = e[i].l BY <2>2
  <2>4. LeafConsistent(q, e[i]) BY <2>3, <1>4, <1>14 DEF LeafConsistent, Adjacent, s
  <2> QED BY <2>4, <1>1, <1>4, <1>14 DEF Match, e
<1>15. CASE q.op = "overlaps"
  <2>1. PICK x \in S : x \in q.set BY <1>15 DEF Holds
  <2>2. PICK i \in 1..m : x \in Elems(e[i]) BY <1>1
  <2>3. LeafConsistent(q, e[i]) BY <2>1, <2>2, <1>15 DEF LeafConsistent, Overlaps
  <2> QED BY <2>3, <1>1, <1>4, <1>15 DEF Match, e
<1>16. CASE q.op = "contained_by"
  <2>1. S \subseteq q.set BY <1>16 DEF Holds
  <2>2. PICK i \in 1..m : e[i].l = t.l BY <1>7
  <2>3. t.l \in Elems(e[i]) /\ t.l \in q.set BY <2>1, <2>2, <1>2, <1>6
  <2>4. LeafConsistent(q, e[i]) BY <2>3, <1>16 DEF LeafConsistent, Overlaps
  <2>5. e[i].l \in q.set /\ e[i].u - 1 \in q.set BY <2>1, <1>1
  <2>6. e[i].l >= s.l /\ e[i].u <= s.u BY <2>5, <1>5, <1>6
  <2> QED BY <2>4, <2>6, <1>1, <1>4, <1>16 DEF Match, e, s
<1>17. CASE q.op \in {"contains", "contains_elem"}
  <2>1. q.set \subseteq S BY <1>17 DEF Holds
  <2>2. ASSUME NEW i \in 1..m, s.l \in Elems(e[i]) PROVE LeafConsistent(q, e[i])
    BY <2>2, <1>5, <1>17 DEF LeafConsistent, Overlaps
  <2>3. CASE q.kind = "range"
    <3>1. q.set = Elems(s) BY <2>3, <1>3, <1>4
    <3>2. \A z \in s.l..s.u - 1 : z \in S BY <3>1, <2>1 DEF Elems
    <3>3. s.l \in S /\ s.u - 1 \in S /\ s.l <= s.u - 1 BY <2>1, <1>5
    <3>4. PICK i \in 1..m : s.l \in Elems(e[i]) /\ s.u - 1 \in Elems(e[i])
      BY <3>2, <3>3, <1>1
    <3>5. q.set \subseteq Elems(e[i]) BY <3>4, <1>5, <1>6
    <3>6. LeafConsistent(q, e[i]) BY <3>4, <2>2
    <3> QED BY <3>5, <3>6, <1>1, <1>4, <1>17 DEF Match, e
  <2>4. CASE q.kind # "range"
    <3>1. PICK i \in 1..m : s.l \in Elems(e[i]) BY <2>1, <1>1, <1>5
    <3>2. LeafConsistent(q, e[i]) BY <3>1, <2>2
    <3> QED BY <3>2, <2>4, <1>1, <1>4, <1>17 DEF Match, e
  <2> QED BY <2>3, <2>4
<1> QED BY <1>3, <1>9, <1>10, <1>11, <1>12, <1>13, <1>14, <1>15, <1>16, <1>17 DEF Ops

\* An index scan misses no row: for all rows, all max_ranges, all keys on inner pages
\* of the R-tree, all centroids of the quadtree, and all answerable queries.
THEOREM IndexAlwaysFindsRow ==
  ASSUME \A q \in Queries : Answerable(q)
  PROVE  Spec => []IndexFindsRow
<1>1. SearchInv => IndexFindsRow
  <2> SUFFICES ASSUME SearchInv, stage = "done", Holds(query, row) PROVE found
    BY DEF IndexFindsRow
  <2>1. /\ row \in SUBSET Cells /\ row # {} /\ limit \in Nat /\ query \in Queries
        /\ keys = Extracted(row, limit) /\ tree \in {"rtree", "quadtree"}
    BY LimitsAssumption DEF SearchInv, TypeOK
  <2>2. PICK i \in DOMAIN keys : Match(query, keys[i]) BY <2>1, SatisfyingRowMatches
  <2>3. LeafConsistent(query, keys[i]) BY <2>2 DEF Match
  <2>4. CASE tree = "rtree" BY <2>3, <2>4 DEF SearchInv, RTreeKeepsMatches
  <2>5. CASE tree = "quadtree" BY <2>2, <2>3, <2>5 DEF SearchInv
  <2> QED BY <2>1, <2>4, <2>5
<1> QED BY <1>1, SearchAlways, PTL
=============================================================================
