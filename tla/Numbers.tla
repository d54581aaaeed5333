------------------------------ MODULE Numbers -------------------------------
(***************************************************************************)
(* Facts about numbers that the proofs of several modules rest on: how     *)
(* quotients and remainders add up, and that sets of naturals have least   *)
(* and greatest elements, which is what the proofs use for induction.      *)
(***************************************************************************)
EXTENDS Integers, TLAPS, WellFoundedInduction

(* What \div and % give. *)
LEMMA DivMod ==
    ASSUME NEW a \in Nat, NEW m \in Nat \ {0}
    PROVE  /\ a \div m \in Nat
           /\ a % m \in 0..(m - 1)
           /\ a = m * (a \div m) + (a % m)
  OBVIOUS

(* A quotient and remainder are the only ones there are. *)
LEMMA DivUnique ==
    ASSUME NEW m \in Nat \ {0}, NEW q \in Int, NEW r \in 0..(m - 1)
    PROVE  /\ (m * q + r) \div m = q
           /\ (m * q + r) % m = r
  OBVIOUS

(* Products of naturals are naturals, and grow with either factor. *)
LEMMA Products ==
    ASSUME NEW a \in Nat, NEW b \in Nat, NEW m \in Nat
    PROVE  /\ a * m \in Nat
           /\ a <= b => a * m <= b * m
  OBVIOUS

(* Carrying the remainder of one position over to the next gives, as a     *)
(* quotient, the distance of the two positions each rounded down.          *)
LEMMA CarryExact ==
    ASSUME NEW a \in Nat, NEW b \in Nat, a <= b, NEW m \in Nat \ {0}
    PROVE  /\ (b - a) + (a % m) \in Nat
           /\ ((b - a) + (a % m)) \div m = (b \div m) - (a \div m)
           /\ ((b - a) + (a % m)) % m = b % m
           /\ (b \div m) - (a \div m) \in Nat
<1> DEFINE qa == a \div m
           qb == b \div m
           rb == b % m
<1>1. /\ qa \in Nat /\ qb \in Nat /\ rb \in 0..(m - 1)
      /\ a = m * qa + (a % m) /\ b = m * qb + rb
      /\ a % m \in 0..(m - 1)
  BY DivMod
<1>2. m * (qb - qa) = m * qb - m * qa
  BY <1>1
<1>3. (b - a) + (a % m) = m * (qb - qa) + rb
  BY <1>1, <1>2
<1>4. (b - a) + (a % m) \in Nat
  BY <1>1
<1>5. qb - qa \in Int
  BY <1>1
<1>6. /\ (m * (qb - qa) + rb) \div m = qb - qa
      /\ (m * (qb - qa) + rb) % m = rb
  BY <1>1, <1>5, DivUnique
<1>7. qb - qa \in Nat
  BY <1>3, <1>4, <1>6, DivMod
<1> QED
  BY <1>3, <1>4, <1>6, <1>7

(* Any set of naturals has a least element. *)
LEMMA LeastNatural ==
    ASSUME NEW T, T \subseteq Nat, T # {}
    PROVE  \E x \in T : \A y \in T : x <= y
<1> DEFINE R == {ss \in Nat \X Nat : ss[1] < ss[2]}
<1>1. IsWellFoundedOn(R, Nat)
  BY NatLessThanWellFounded, Zenon DEF OpToRel
<1>2. PICK x \in T : \A y \in T : ~ (<<y, x>> \in R)
  <2> HIDE DEF R
  <2> QED
    BY <1>1, WFMin
<1>3. ASSUME NEW y \in T PROVE x <= y
  <2>1. <<y, x>> \in Nat \X Nat /\ ~ (y < x)
    BY <1>2
  <2> QED
    BY <2>1
<1> QED
  BY <1>3

(* A set of naturals that none exceeds n has a greatest element. *)
LEMMA GreatestNatural ==
    ASSUME NEW n \in Nat, NEW T, T \subseteq 0..n, T # {}
    PROVE  \E x \in T : \A y \in T : y <= x
<1> DEFINE D == {n - x : x \in T}
<1>1. D \subseteq Nat /\ D # {}
  OBVIOUS
<1>2. PICK d \in D : \A e \in D : d <= e
  BY <1>1, LeastNatural
<1>3. PICK x \in T : d = n - x
  BY <1>2
<1>4. ASSUME NEW y \in T PROVE y <= x
  <2>1. d <= n - y
    BY <1>2
  <2> QED
    BY <1>3, <2>1
<1> QED
  BY <1>4

(* Two parts rounded down are no longer than the whole rounded down, which *)
(* grows with what is rounded.                                             *)
LEMMA RoundedParts ==
    ASSUME NEW a \in Nat, NEW b \in Nat, NEW c \in Nat, a + b <= c,
           NEW m \in Nat \ {0}
    PROVE  (a \div m) + (b \div m) <= c \div m
<1> DEFINE qa == a \div m
           qb == b \div m
           qc == c \div m
<1>1. /\ qa \in Nat /\ a % m \in 0..(m - 1) /\ a = m * qa + (a % m)
      /\ qb \in Nat /\ b % m \in 0..(m - 1) /\ b = m * qb + (b % m)
      /\ qc \in Nat /\ c % m \in 0..(m - 1) /\ c = m * qc + (c % m)
  BY DivMod
<1>2. m * (qa + qb) = m * qa + m * qb
  BY <1>1
<1>3. m * (qa + qb) < m * qc + m
  BY <1>1, <1>2
<1>4. ASSUME qa + qb >= qc + 1 PROVE FALSE
  <2>1. (qc + 1) * m <= (qa + qb) * m
    BY <1>1, <1>4, Products
  <2>2. (qc + 1) * m = m * qc + m /\ (qa + qb) * m = m * (qa + qb)
    BY <1>1
  <2> QED
    BY <1>1, <1>3, <2>1, <2>2
<1> QED
  BY <1>1, <1>4
=============================================================================
