------------------------------ MODULE Ordering ------------------------------
(***************************************************************************)
(* Sets of natural numbers have a smallest and, when they are bounded, a   *)
(* largest member.                                                         *)
(***************************************************************************)
EXTENDS Integers, FiniteSets, WellFoundedInduction, TLAPS

\* The order of the natural numbers is well founded, as a relation.
LEMMA Descent ==
  \E R : IsWellFoundedOn(R, Nat) /\ \A x, y \in Nat : <<x, y>> \in R <=> x < y
<1>1. IsWellFoundedOn(OpToRel(<, Nat), Nat)
  BY NatLessThanWellFounded
<1>2. \A x, y \in Nat : <<x, y>> \in OpToRel(<, Nat) <=> x < y
  BY DEF OpToRel
<1> QED BY <1>1, <1>2, Zenon

\* Every inhabited set of natural numbers has a smallest member.
LEMMA Smallest ==
  ASSUME NEW T, T \subseteq Nat, T # {}
  PROVE  \E n \in T : \A m \in T : n <= m
<1>1. PICK R : IsWellFoundedOn(R, Nat) /\ \A x, y \in Nat : <<x, y>> \in R <=> x < y
  BY Descent
<1>2. \E x \in T : \A y \in T : ~(<<y, x>> \in R)
  <2>1. IsWellFoundedOn(R, Nat) BY <1>1
  <2> QED BY <2>1, WFMin, Zenon
<1>3. PICK x \in T : \A y \in T : ~(<<y, x>> \in R)
  BY <1>2
<1>4. \A y \in T : ~(y < x)
  BY <1>1, <1>3
<1>5. \A y \in T : x <= y
  BY <1>4, <1>3
<1> QED BY <1>5

\* Every inhabited bounded set of natural numbers has a largest member.
LEMMA Largest ==
  ASSUME NEW T, NEW b \in Nat, T \subseteq 0..b, T # {}
  PROVE  \E n \in T : \A m \in T : m <= n
<1> DEFINE U == {b - n : n \in T}
<1>1. U \subseteq Nat /\ U # {}
  <2>1. PICK n : n \in T
    OBVIOUS
  <2>2. b - n \in U
    BY <2>1
  <2>3. ASSUME NEW n1 \in T PROVE b - n1 \in Nat
    OBVIOUS
  <2>4. U \subseteq Nat
    BY <2>3
  <2> QED BY <2>2, <2>4
<1>2. PICK u \in U : \A v \in U : u <= v
  BY <1>1, Smallest
<1>3. PICK n \in T : u = b - n
  BY <1>2
<1>4. ASSUME NEW m \in T PROVE m <= n
  <2>1. b - m \in U OBVIOUS
  <2>2. u <= b - m BY <1>2, <2>1
  <2> QED BY <1>3, <2>2
<1> QED BY <1>4
=============================================================================
