------------------------------- MODULE Extrema -------------------------------
(***************************************************************************)
(* The least and the greatest of a set of natural numbers: what the Min    *)
(* and Max the modules take offsets with return.                           *)
(***************************************************************************)
EXTENDS Integers, FiniteSetsExt, WellFoundedInduction, TLAPS

\* Natural numbers have a least one.
LEMMA LeastNat ==
    ASSUME NEW T \in SUBSET Nat, T # {}
    PROVE  \E x \in T : \A y \in T : x <= y
<1> DEFINE R == OpToRel(<, Nat)
<1>1. IsWellFoundedOn(R, Nat)
    BY NatLessThanWellFounded
<1>2. R = {ss \in Nat \X Nat : ss[1] < ss[2]}
    BY DEF OpToRel
<1> HIDE DEF R
<1>3. PICK x \in T : \A y \in T : ~ (<<y, x>> \in R)
    BY <1>1, WFMin, Zenon
<1>4. ASSUME NEW y \in T PROVE x <= y
  <2>1. x \in Nat /\ y \in Nat /\ <<y, x>> \notin R
    BY <1>3
  <2>2. ~ (y < x)
    BY <1>2, <2>1
  <2> QED
    BY <2>1, <2>2
<1> QED
    BY <1>4

\* Min is the least element of a set of natural numbers.
LEMMA MinIsLeast ==
    ASSUME NEW T \in SUBSET Nat, T # {}
    PROVE  Min(T) \in T /\ \A y \in T : Min(T) <= y
<1>1. \E x \in T : \A y \in T : x =< y
    BY LeastNat
<1> QED
    BY <1>1, Zenon DEF Min

\* Max is the greatest element of a set of natural numbers up to n.
LEMMA MaxIsGreatest ==
    ASSUME NEW n \in Nat, NEW T \in SUBSET (1 .. n), T # {}
    PROVE  Max(T) \in T /\ \A y \in T : Max(T) >= y
<1> DEFINE D == {d \in Nat : n - d \in T}
<1>1. PICK t \in T : TRUE
    OBVIOUS
<1>2. n - t \in D
    OBVIOUS
<1>3. PICK d \in D : \A e \in D : d <= e
  <2>1. D \in SUBSET Nat /\ D # {}
    BY <1>2
  <2> HIDE DEF D
  <2> QED
    BY <2>1, LeastNat
<1>4. ASSUME NEW y \in T PROVE n - d >= y
  <2>1. n - y \in D
    OBVIOUS
  <2>2. d <= n - y
    BY <1>3, <2>1
  <2> QED
    BY <1>3, <2>2
<1>5. \E x \in T : \A y \in T : x >= y
    BY <1>3, <1>4
<1> QED
    BY <1>5, Zenon DEF Max
=============================================================================
