------------------------------ MODULE NatSets ------------------------------
(***************************************************************************)
(* Induction over the natural numbers, stated with sets: a property is the *)
(* set of the numbers that have it.  The induction theorems of the library *)
(* have an operator in its place, which the provers cannot instantiate;    *)
(* that less-than is well founded is all that is taken from there.         *)
(***************************************************************************)
EXTENDS Integers, FiniteSetsExt, WellFoundedInduction, TLAPS

(* A set of natural numbers has a least one. *)
LEMMA LeastElement ==
  ASSUME NEW T \in SUBSET Nat, T # {}
  PROVE  \E x \in T : \A y \in T : x <= y
<1>1. PICK x \in T : \A y \in T : ~(<<y, x>> \in OpToRel(<, Nat))
  BY NatLessThanWellFounded, WFMin
<1>2. \A y \in T : ~(y < x)
  BY <1>1 DEF OpToRel
<1> QED BY <1>2

(* What holds of 0 and of the successor of what it holds of. *)
LEMMA NatSetInduction ==
  ASSUME NEW S, 0 \in S, \A n \in Nat : n \in S => n + 1 \in S
  PROVE  \A n \in Nat : n \in S
<1> SUFFICES ASSUME NEW n \in Nat, n \notin S PROVE FALSE
  OBVIOUS
<1> DEFINE T == {m \in Nat : m \notin S}
<1>1. T \in SUBSET Nat /\ T # {}
  OBVIOUS
<1>2. PICK x \in T : \A y \in T : x <= y
  BY <1>1, LeastElement
<1>3. x \in Nat /\ x # 0 /\ x \notin S
  BY <1>2
<1>4. x - 1 \in Nat /\ x - 1 \notin T
  BY <1>2, <1>3
<1>5. (x - 1) + 1 \in S
  BY <1>4
<1> QED BY <1>3, <1>5

(* A set of numbers up to a bound has a greatest one. *)
LEMMA GreatestElement ==
  ASSUME NEW b \in Nat, NEW T \in SUBSET (0 .. b), T # {}
  PROVE  Max(T) \in T
<1> DEFINE U == {b - t : t \in T}
<1>0. \A t \in T : t \in Int /\ 0 <= t /\ t <= b
  OBVIOUS
<1>1. U \in SUBSET Nat
  <2> SUFFICES ASSUME NEW t \in T PROVE b - t \in Nat
    OBVIOUS
  <2> QED BY <1>0
<1>2. U # {}
  BY Zenon
<1>3. PICK u \in U : \A y \in U : u <= y
  BY <1>1, <1>2, LeastElement
<1>4. PICK t \in T : u = b - t
  BY <1>3
<1>5. \A y \in T : t >= y
  <2> SUFFICES ASSUME NEW y \in T PROVE t >= y
    OBVIOUS
  <2>1. u <= b - y
    BY <1>3
  <2>2. y \in Int /\ t \in Int
    BY <1>0
  <2> QED BY <1>4, <2>1, <2>2
<1> QED BY <1>5 DEF Max

(* Min is the least one. *)
LEMMA LeastIsMin ==
  ASSUME NEW S \in SUBSET Int, NEW x \in S, \A y \in S : x <= y
  PROVE  Min(S) = x
<1>1. Min(S) \in S /\ \A y \in S : Min(S) <= y
  BY DEF Min
<1>2. Min(S) \in Int /\ x \in Int /\ Min(S) <= x /\ x <= Min(S)
  BY <1>1
<1> QED BY <1>2
=============================================================================
