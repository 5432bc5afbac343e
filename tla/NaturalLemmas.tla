--------------------------- MODULE NaturalLemmas ---------------------------
(***************************************************************************)
(* Facts about sets of naturals that the proofs about searches and scans   *)
(* rest on: least and greatest elements, induction stated for a set, and   *)
(* the rank of an element in a finite set.                                 *)
(***************************************************************************)
EXTENDS Integers, Sequences, FiniteSets, FiniteSetTheorems, TLAPS

\* The initial segments of the naturals are finite sets, and strict inclusion is
\* well-founded on those: so a set of naturals has a least element.
LEMMA LeastExists ==
  ASSUME NEW S \in SUBSET Nat, S # {}
  PROVE  \E x \in S : \A y \in S : x <= y
<1> DEFINE T == {0..n : n \in S}
           R == StrictSubsetOrdering(Nat)
           F == FiniteSubsetsOf(Nat)
<1>1. IsWellFoundedOn(R, F) BY FS_StrictSubsetOrderingWellFounded
<1>2. ASSUME NEW n \in S PROVE 0..n \in F
  BY FS_Interval DEF FiniteSubsetsOf
<1>3. T \subseteq F /\ T # {} BY <1>2
<1> HIDE DEF R, F
<1>4. PICK X \in T : \A Y \in T : <<Y, X>> \notin R BY <1>1, <1>3, WFMin, Zenon
<1>5. PICK n \in S : X = 0..n OBVIOUS
<1>6. ASSUME NEW m \in S, m < n PROVE FALSE
  <2>1. 0..m \in T OBVIOUS
  <2>2. 0..m \subseteq 0..n /\ 0..m # 0..n
    <3>1. n \in 0..n /\ n \notin 0..m BY <1>6
    <3> QED BY <1>6, <3>1
  <2>3. 0..m \in SUBSET Nat /\ 0..n \in SUBSET Nat OBVIOUS
  <2>4. <<0..m, 0..n>> \in R BY <2>2, <2>3 DEF R, StrictSubsetOrdering
  <2> QED BY <2>1, <2>4, <1>4, <1>5
<1> QED BY <1>6

\* Induction, for the set of the numbers that have a property.
LEMMA SetInduction ==
  ASSUME NEW S, 0 \in S, \A n \in Nat : n \in S => n + 1 \in S
  PROVE  Nat \subseteq S
<1>1. SUFFICES ASSUME NEW m \in Nat, m \notin S PROVE FALSE OBVIOUS
<1> DEFINE T == Nat \ S
<1>2. T \in SUBSET Nat /\ T # {} BY <1>1
<1> HIDE DEF T
<1>3. PICK x \in T : \A y \in T : x <= y BY <1>2, LeastExists
<1>4. x \in Nat /\ x # 0 /\ x \notin S BY <1>3 DEF T
<1>5. x - 1 \in Nat /\ x - 1 \in S /\ (x - 1) + 1 = x BY <1>3, <1>4 DEF T
<1> QED BY <1>4, <1>5

\* A bounded set of naturals has a greatest element.
LEMMA GreatestExists ==
  ASSUME NEW S \in SUBSET Nat, S # {}, NEW n \in Nat, \A x \in S : x <= n
  PROVE  \E x \in S : \A y \in S : x >= y
<1> DEFINE T == {n - x : x \in S}
<1>0. \A x \in S : n - x \in Nat OBVIOUS
<1>1. T \in SUBSET Nat /\ T # {} BY <1>0
<1>2. PICK z \in T : \A y \in T : z <= y
  <2> HIDE DEF T
  <2> QED BY <1>1, LeastExists
<1>3. PICK x \in S : z = n - x OBVIOUS
<1>4. ASSUME NEW y \in S PROVE x >= y
  <2>1. n - y \in T OBVIOUS
  <2> QED BY <2>1, <1>2, <1>3
<1> QED BY <1>4

\* In a finite set of naturals every rank is taken.
LEMMA RankExists ==
  ASSUME NEW S \in SUBSET Nat, IsFiniteSet(S), NEW k \in Nat, k < Cardinality(S)
  PROVE  \E a \in S : Cardinality({b \in S : b < a}) = k
<1> DEFINE Below(a) == {b \in S : b < a}
           N == {n \in Nat : n < Cardinality(S) => \E a \in S : Cardinality(Below(a)) = n}
<1>0. \A x \in S : x \in Int OBVIOUS
<1>1. Cardinality(S) \in Nat BY FS_CardinalityType
<1>2. 0 \in N
  <2>1. CASE S = {}
    <3>1. Cardinality(S) = 0 BY <2>1, FS_EmptySet
    <3> QED BY <3>1
  <2>2. CASE S # {}
    <3>1. PICK a \in S : \A y \in S : a <= y BY <2>2, LeastExists
    <3>2. \A b \in S : ~(b < a) BY <3>1, <1>0
    <3>5. Below(a) = {} BY <3>2
    <3>3. Cardinality(Below(a)) = 0 BY <3>5, FS_EmptySet
    <3> QED BY <3>3
  <2> QED BY <2>1, <2>2
<1>3. ASSUME NEW n \in Nat, n \in N PROVE n + 1 \in N
  <2>1. SUFFICES ASSUME n + 1 < Cardinality(S)
                 PROVE  \E a \in S : Cardinality(Below(a)) = n + 1 OBVIOUS
  <2>2. PICK a \in S : Cardinality(Below(a)) = n BY <1>1, <1>3, <2>1
  <2> DEFINE Upto == Below(a) \cup {a}
             Above == {b \in S : b > a}
  <2>3. IsFiniteSet(Below(a)) BY FS_Subset
  <2>4. IsFiniteSet(Upto) /\ Cardinality(Upto) = n + 1
    <3>1. a \notin Below(a) OBVIOUS
    <3> HIDE DEF Below
    <3> QED BY <2>2, <2>3, <3>1, FS_AddElement
  <2>5. Above # {}
    <3>1. SUFFICES ASSUME Above = {} PROVE FALSE OBVIOUS
    <3>2. \A b \in S : ~(b > a) /\ (b < a \/ b = a) BY <3>1, <1>0
    <3>3. S \subseteq Upto /\ Upto \subseteq S BY <3>2
    <3>4. S = Upto
      <4> HIDE DEF Upto
      <4> QED BY <3>3
    <3> QED BY <3>4, <2>4, <2>1, <1>1
  <2>6. Above \in SUBSET Nat OBVIOUS
  <2>7. PICK c \in Above : \A y \in Above : c <= y
    <3> HIDE DEF Above
    <3> QED BY <2>5, <2>6, LeastExists
  <2>8. Below(c) = Upto
    <3>1. c \in S /\ c > a OBVIOUS
    <3>2. \A b \in S : b > a => c <= b BY <2>7
    <3>3. \A b \in S : b < c <=> b < a \/ b = a BY <3>1, <3>2, <1>0
    <3> QED BY <3>3
  <2>9. c \in S OBVIOUS
  <2> QED BY <2>4, <2>8, <2>9
<1> HIDE DEF N
<1>4. Nat \subseteq N BY <1>2, <1>3, SetInduction
<1> QED BY <1>4 DEF N

\* A greater element has a greater rank.
LEMMA RankGrows ==
  ASSUME NEW S \in SUBSET Nat, IsFiniteSet(S), NEW a \in S, NEW b \in S, a < b
  PROVE  /\ Cardinality({c \in S : c < a}) \in Nat /\ Cardinality({c \in S : c < b}) \in Nat
         /\ Cardinality({c \in S : c < a}) < Cardinality({c \in S : c < b})
         /\ Cardinality({c \in S : c < b}) < Cardinality(S)
<1> DEFINE A == {c \in S : c < a}
           B == {c \in S : c < b}
<1>1. IsFiniteSet(A) /\ IsFiniteSet(B) BY FS_Subset
<1>0. \A x \in S : x \in Int OBVIOUS
<1>2. A \subseteq B /\ a \in B /\ a \notin A /\ B \subseteq S /\ b \notin B 
  <2>1. \A x \in S : x < a => x < b BY <1>0
  <2>2. ~(a < a) /\ ~(b < b) BY <1>0
  <2> QED BY <2>1, <2>2
<1> HIDE DEF A, B
<1>3. /\ Cardinality(A) \in Nat /\ Cardinality(B) \in Nat /\ Cardinality(S) \in Nat
  BY <1>1, FS_CardinalityType
<1>4. Cardinality(A) <= Cardinality(B) /\ Cardinality(A) # Cardinality(B)
  BY <1>1, <1>2, FS_Subset
<1>5. Cardinality(B) <= Cardinality(S) /\ Cardinality(B) # Cardinality(S)
  BY <1>2, FS_Subset
<1> QED BY <1>3, <1>4, <1>5 DEF A, B

\* The elements of a finite set of naturals in ascending order: each is in the place
\* its rank says.
Enumeration(S) ==
  [i \in 1..Cardinality(S) |-> CHOOSE a \in S : Cardinality({b \in S : b < a}) = i - 1]

\* It is strictly ascending and has all elements of the set and no other.
LEMMA EnumerationFacts ==
  ASSUME NEW S, S \subseteq Nat, IsFiniteSet(S)
  PROVE  LET e == Enumeration(S)
             n == Cardinality(S)
         IN /\ n \in Nat /\ e \in Seq(S) /\ Len(e) = n /\ DOMAIN e = 1..n
            /\ \A i \in 1..n : e[i] \in S /\ e[i] \in Nat
            /\ \A i, j \in 1..n : i < j => e[i] < e[j]
            /\ \A i, j \in 1..n : e[i] = e[j] => i = j
            /\ \A a \in S : \E i \in 1..n : e[i] = a
<1> DEFINE T == S
           n == Cardinality(T)
           Rank(a) == Cardinality({b \in T : b < a})
           enum == [i \in 1..n |-> CHOOSE a \in T : Rank(a) = i - 1]
<1>0. T \in SUBSET Nat /\ IsFiniteSet(T) /\ T = S OBVIOUS
<1>1. n \in Nat BY FS_CardinalityType
<1>2. Enumeration(S) = enum BY DEF Enumeration
<1>3. ASSUME NEW i \in 1..n PROVE enum[i] \in T /\ Rank(enum[i]) = i - 1
  <2>1. i - 1 \in Nat /\ i - 1 < n BY <1>1
  <2>2. \E a \in T : Rank(a) = i - 1 BY <2>1, <1>0, RankExists
  <2> HIDE DEF Rank
  <2> QED BY <2>2
<1>4. ASSUME NEW a \in T, NEW b \in T, a < b PROVE Rank(a) < Rank(b)
  BY <1>4, <1>0, RankGrows
<1>5. ASSUME NEW a \in T PROVE Rank(a) \in Nat /\ Rank(a) < n
  <2> DEFINE B == {b \in T : b < a}
  <2>1. a \in Int OBVIOUS
  <2>2. B \subseteq T /\ a \notin B BY <2>1
  <2>3. IsFiniteSet(B) BY <2>2, FS_Subset
  <2> HIDE DEF B
  <2>4. Cardinality(B) \in Nat BY <2>3, FS_CardinalityType
  <2>5. Cardinality(B) <= n /\ Cardinality(B) # n BY <2>2, FS_Subset
  <2> QED BY <2>4, <2>5, <1>1 DEF B
<1>6. \A a, b \in T : a \in Int /\ b \in Int /\ a \in Nat BY <1>0
<1> HIDE DEF T, Rank, n
<1>7. ASSUME NEW i \in 1..n, NEW j \in 1..n, i < j PROVE enum[i] < enum[j]
  <2>1. enum[i] \in T /\ enum[j] \in T /\ Rank(enum[i]) = i - 1 /\ Rank(enum[j]) = j - 1 BY <1>3
  <2>2. enum[i] # enum[j] BY <2>1, <1>1, <1>7
  <2>3. ~(enum[j] < enum[i])
    <3> SUFFICES ASSUME enum[j] < enum[i] PROVE FALSE OBVIOUS
    <3> HIDE DEF enum
    <3>1. Rank(enum[j]) < Rank(enum[i]) BY <1>4, <2>1
    <3> QED BY <3>1, <2>1, <1>1, <1>7
  <2> HIDE DEF enum
  <2> QED BY <2>1, <2>2, <2>3, <1>6
<1>8. ASSUME NEW a \in T PROVE \E i \in 1..n : enum[i] = a
  <2>1. Rank(a) + 1 \in 1..n BY <1>1, <1>5
  <2> DEFINE i == Rank(a) + 1
  <2>2. enum[i] \in T /\ Rank(enum[i]) = Rank(a)
    <3>1. i \in 1..n BY <2>1
    <3>2. enum[i] \in T /\ Rank(enum[i]) = i - 1 BY <3>1, <1>3
    <3>3. i - 1 = Rank(a) BY <1>5
    <3> QED BY <3>2, <3>3
  <2> HIDE DEF enum, i
  <2>3. ~(enum[i] < a) BY <2>2, <1>4, <1>5
  <2>4. ~(a < enum[i]) BY <2>2, <1>4, <1>5
  <2>5. enum[i] = a BY <2>2, <2>3, <2>4, <1>6
  <2> QED BY <2>1, <2>5 DEF i
<1>9. Len(enum) = n /\ DOMAIN enum = 1..n BY <1>1
<1>10. enum \in Seq(T)
  <2>1. enum \in [1..n -> T] BY <1>3
  <2> QED BY <2>1, <1>1
<1> HIDE DEF enum
<1>11. \A i, j \in 1..n : enum[i] = enum[j] => i = j
  <2> TAKE i, j \in 1..n
  <2>1. enum[i] \in Int /\ enum[j] \in Int BY <1>3, <1>6
  <2>2. ~(enum[i] < enum[j]) /\ ~(enum[j] < enum[i]) => ~(i < j) /\ ~(j < i) BY <1>7
  <2>3. i \in Int /\ j \in Int BY <1>1
  <2> QED BY <2>1, <2>2, <2>3
<1>12. \A i \in 1..n : enum[i] \in T /\ enum[i] \in Nat BY <1>3, <1>6
<1> QED BY <1>0, <1>1, <1>2, <1>7, <1>8, <1>9, <1>10, <1>11, <1>12 DEF n

\* A finite set of naturals has a greatest element.
LEMMA FiniteGreatest ==
  ASSUME NEW S \in SUBSET Nat, IsFiniteSet(S), S # {}
  PROVE  \E x \in S : \A y \in S : x >= y
<1> DEFINE n == Cardinality(S)
           e == Enumeration(S)
<1>1. /\ n \in Nat
      /\ \A i \in 1..n : e[i] \in S /\ e[i] \in Nat
      /\ \A i, j \in 1..n : i < j => e[i] < e[j]
      /\ \A a \in S : \E i \in 1..n : e[i] = a
  BY EnumerationFacts
<1> HIDE DEF n, e
<1>2. n >= 1
  <2>1. PICK a \in S : TRUE OBVIOUS
  <2>2. PICK i \in 1..n : e[i] = a BY <1>1
  <2> QED BY <2>2, <1>1
<1>3. e[n] \in S BY <1>1, <1>2
<1>4. ASSUME NEW a \in S PROVE e[n] >= a
  <2>1. PICK i \in 1..n : e[i] = a BY <1>1
  <2>2. CASE i = n BY <2>1, <2>2, <1>1, <1>2
  <2>3. CASE i # n
    <3>1. i < n /\ n \in 1..n BY <2>3, <1>1, <1>2
    <3> QED BY <3>1, <2>1, <1>1
  <2> QED BY <2>2, <2>3
<1> QED BY <1>3, <1>4
=============================================================================
