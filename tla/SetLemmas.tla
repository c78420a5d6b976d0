------------------------------ MODULE SetLemmas -------------------------------
(***************************************************************************)
(* Facts about finite sets of numbers that the proofs about several         *)
(* components cite.                                                         *)
(***************************************************************************)
EXTENDS Integers, FiniteSetsExt, FiniteSetTheorems, WellFoundedInduction, TLAPS

(* A finite set of numbers that is not empty has a largest member.          *)
LEMMA MaxIsMember ==
    ASSUME NEW S \in SUBSET Int, IsFiniteSet(S), S # {}
    PROVE  Max(S) \in S /\ \A y \in S : y <= Max(S)
<1> DEFINE Above(x) == { y \in S : y > x }
           Aboves == { Above(x) : x \in S }
<1>1. PICK T \in Aboves : \A U \in Aboves : <<U, T>> \notin StrictSubsetOrdering(S)
  <2>1. Aboves \subseteq SUBSET S /\ Aboves # {}
    OBVIOUS
  <2> HIDE DEF Aboves
  <2>2. IsWellFoundedOn(StrictSubsetOrdering(S), SUBSET S)
    BY FS_StrictSubsetOrderingWellFounded, FS_FiniteSubsetsOfFinite, Zenon
  <2> QED
    BY <2>1, <2>2, WFMin, Zenon
<1>2. PICK x \in S : T = Above(x)
  BY <1>1
<1>3. ASSUME NEW y \in S, ~(x >= y)
      PROVE  FALSE
  <2>1. Above(y) \subseteq Above(x) /\ y \in Above(x) /\ y \notin Above(y)
    <3>1. S \subseteq Int
      OBVIOUS
    <3>2. x \in Int /\ y \in Int /\ y > x
      BY <1>3
    <3>3. y \in Above(x) /\ y \notin Above(y)
      BY <3>2
    <3>4. ASSUME NEW z \in Above(y) PROVE z \in Above(x)
      BY <3>1, <3>2
    <3> QED
      BY <3>3, <3>4
  <2>2. Above(y) \in Aboves
    OBVIOUS
  <2>3. /\ <<Above(y), T>> \in (SUBSET S) \X (SUBSET S)
        /\ Above(y) \subseteq T /\ Above(y) # T
    BY <1>2, <2>1
  <2> HIDE DEF Above, Aboves
  <2>4. <<Above(y), T>> \in StrictSubsetOrdering(S)
    BY <2>3 DEF StrictSubsetOrdering
  <2> QED
    BY <1>1, <2>2, <2>4, Zenon
<1>4. \E z \in S : \A y \in S : z >= y
  BY <1>3
<1> QED
  BY <1>4 DEF Max

(* And a smallest one.                                                      *)
LEMMA MinIsMember ==
    ASSUME NEW S \in SUBSET Int, IsFiniteSet(S), S # {}
    PROVE  Min(S) \in S /\ \A y \in S : Min(S) <= y
<1> DEFINE T == { -x : x \in S }
           f == [x \in S |-> -x]
<1>1. f \in Surjection(S, T)
  BY DEF Surjection
<1>2. IsFiniteSet(T)
  BY <1>1, FS_Surjection
<1>3. T \in SUBSET Int /\ T # {}
  <2>1. ASSUME NEW y \in T PROVE y \in Int
    <3>1. PICK x \in S : y = -x
      OBVIOUS
    <3>2. x \in Int
      OBVIOUS
    <3> QED
      BY <3>1, <3>2
  <2>2. PICK x : x \in S
    OBVIOUS
  <2>3. -x \in T
    BY <2>2
  <2> QED
    BY <2>1, <2>3
<1> HIDE DEF T
<1>4. Max(T) \in T /\ \A y \in T : y <= Max(T)
  BY <1>2, <1>3, MaxIsMember
<1> USE DEF T
<1>5. PICK x \in S : Max(T) = -x
  BY <1>4
<1>6. \A y \in S : x <= y
  <2> SUFFICES ASSUME NEW y \in S PROVE x <= y
    OBVIOUS
  <2>1. -y \in T
    OBVIOUS
  <2> HIDE DEF T
  <2>2. -y <= -x /\ x \in Int /\ y \in Int
    BY <1>4, <1>5, <2>1
  <2> QED
    BY <2>2
<1> HIDE DEF T
<1>7. \E z \in S : \A y \in S : z <= y
  BY <1>6
<1> QED
  BY <1>7 DEF Min

(* A set whose members are all the same has at most one.                    *)
LEMMA AtMostOneMember ==
    ASSUME NEW S, \A x, y \in S : x = y
    PROVE  IsFiniteSet(S) /\ Cardinality(S) \in {0, 1} /\ Cardinality(S) <= 1
<1>1. CASE S = {}
  BY <1>1, FS_EmptySet
<1>2. CASE S # {}
  <2>1. PICK x : x \in S
    BY <1>2
  <2>2. S = {x}
    BY <2>1
  <2>3. IsFiniteSet({x}) /\ Cardinality({x}) = 1
    BY FS_Singleton
  <2> QED
    BY <2>2, <2>3
<1> QED
  BY <1>1, <1>2

================================================================================
