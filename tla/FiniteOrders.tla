------------------------------ MODULE FiniteOrders ------------------------------
(***************************************************************************)
(* Facts about finite ordered sets that the proofs of several components   *)
(* need: they have a last element, and a least and a largest one when they *)
(* are sets of numbers.                                                    *)
(***************************************************************************)
EXTENDS Integers, FiniteSets, FiniteSetTheorems, WellFoundedInduction, TLAPS

\* A finite set that is not empty has an element which no other follows, in any
\* strict order: the smallest subset that had none would have none without one
\* of its elements either.
LEMMA HasMaximal ==
    ASSUME NEW S, IsFiniteSet(S), S # {}, NEW R,
           \A x \in S : <<x, x>> \notin R,
           \A x, y, z \in S : <<x, y>> \in R /\ <<y, z>> \in R => <<x, z>> \in R
    PROVE  \E x \in S : \A y \in S : <<x, y>> \notin R
<1> DEFINE Max(U, x) == x \in U /\ \A y \in U : <<x, y>> \notin R
           Bad == {U \in SUBSET S : U # {} /\ \A x \in U : ~Max(U, x)}
<1>1. SUFFICES ASSUME Bad # {} PROVE FALSE
  <2>1. SUFFICES ASSUME ~\E x \in S : Max(S, x) PROVE FALSE  OBVIOUS
  <2>2. S \in Bad  BY <2>1
  <2> QED  BY <2>2, <1>1
<1>2. Bad \subseteq FiniteSubsetsOf(S)  BY FS_FiniteSubsetsOfFinite
<1>3. PICK U \in Bad : \A V \in Bad : <<V, U>> \notin StrictSubsetOrdering(S)
  <2> HIDE DEF Bad
  <2> QED  BY <1>1, <1>2, WFMin, FS_StrictSubsetOrderingWellFounded
<1>4. PICK u : u \in U  OBVIOUS
<1>5. U \ {u} \notin Bad
  <2> DEFINE V == U \ {u}
  <2>1. V \subseteq U /\ V # U /\ U \in SUBSET S  BY <1>4
  <2>2. <<V, U>> \in (SUBSET S) \X (SUBSET S)  BY <2>1
  <2>3. <<V, U>> \in StrictSubsetOrdering(S)  BY <2>1, <2>2 DEF StrictSubsetOrdering
  <2> HIDE DEF Bad
  <2> QED  BY <1>3, <2>3
<1>6. CASE U = {u}  BY <1>6
<1>7. CASE U \ {u} # {}
  <2>1. PICK m \in U \ {u} : Max(U \ {u}, m)  BY <1>5, <1>7
  <2>2. CASE <<m, u>> \in R
    <3>1. Max(U, u)  BY <1>4, <2>1, <2>2
    <3> QED  BY <3>1
  <2>3. CASE <<m, u>> \notin R
    <3>1. Max(U, m)  BY <2>1, <2>3
    <3> QED  BY <3>1
  <2> QED  BY <2>2, <2>3
<1> QED  BY <1>4, <1>6, <1>7

\* Numbers have a least one.
LEMMA HasLeast ==
    ASSUME NEW S \in SUBSET Int, IsFiniteSet(S), S # {}
    PROVE  \E m \in S : \A j \in S : m <= j
<1> DEFINE R == {p \in S \X S : p[2] < p[1]}
<1>1. \A x, y \in S : <<x, y>> \in R <=> y < x  OBVIOUS
<1>2. \A x \in S : <<x, x>> \notin R  BY <1>1
<1>3. \A x, y, z \in S : <<x, y>> \in R /\ <<y, z>> \in R => <<x, z>> \in R  BY <1>1
<1> HIDE DEF R
<1>4. PICK m \in S : \A y \in S : <<m, y>> \notin R  BY <1>2, <1>3, HasMaximal
<1>5. \A y \in S : ~(y < m)  BY <1>1, <1>4, Zenon
<1>6. \A y \in S : m \in Int /\ y \in Int  OBVIOUS
<1>7. \A y \in S : m <= y  BY <1>5, <1>6
<1> QED  BY <1>7

\* Numbers have a largest one.
LEMMA HasLargest ==
    ASSUME NEW S \in SUBSET Int, IsFiniteSet(S), S # {}
    PROVE  \E m \in S : \A j \in S : j <= m
<1> DEFINE R == {p \in S \X S : p[1] < p[2]}
<1>1. \A x, y \in S : <<x, y>> \in R <=> x < y  OBVIOUS
<1>2. \A x \in S : <<x, x>> \notin R  BY <1>1
<1>3. \A x, y, z \in S : <<x, y>> \in R /\ <<y, z>> \in R => <<x, z>> \in R  BY <1>1
<1> HIDE DEF R
<1>4. PICK m \in S : \A y \in S : <<m, y>> \notin R  BY <1>2, <1>3, HasMaximal
<1>5. \A y \in S : ~(m < y)  BY <1>1, <1>4, Zenon
<1>6. \A y \in S : m \in Int /\ y \in Int  OBVIOUS
<1>7. \A y \in S : y <= m  BY <1>5, <1>6
<1> QED  BY <1>7
================================================================================
