----------------------------- MODULE DataLemmas -----------------------------
(***************************************************************************)
(* The least number principle, which the proofs about sequences, chains    *)
(* and recursive functions use in place of induction, and division with    *)
(* remainder, which those about the screen's cells and the bits of a page  *)
(* number rest on.                                                         *)
(***************************************************************************)
EXTENDS Integers, WellFoundedInduction, TLAPS

\* Every set of numbers that is not empty has a least element.
LEMMA LeastNumber ==
    ASSUME NEW T \in SUBSET Nat, T # {}
    PROVE  \E n \in T : \A m \in T : n <= m
  <1> DEFINE R == OpToRel(<, Nat)
  <1>1. IsWellFoundedOn(R, Nat)
    BY NatLessThanWellFounded, Zenon
  <1>2. \A m, n \in Nat : m < n => <<m, n>> \in R
    BY Zenon DEF OpToRel
  <1> HIDE DEF R
  <1>3. PICK n \in T : \A m \in T : ~(<<m, n>> \in R)
    BY <1>1, WFMin, Zenon
  <1>4. \A m \in T : ~(m < n)
    BY <1>2, <1>3, Zenon
  <1> QED
    BY <1>4

\* A nonzero multiple of a positive number is at least as far from 0.
LEMMA Multiples ==
    ASSUME NEW W \in Nat \ {0}, NEW d \in Int
    PROVE  (d >= 1 => d * W >= W) /\ (d <= -1 => d * W <= -W) /\ d * W \in Int
  OBVIOUS

\* Quotient and remainder.
LEMMA DivMod ==
    ASSUME NEW W \in Nat \ {0}, NEW n \in Int
    PROVE  /\ n \div W \in Int /\ n % W \in 0 .. W - 1
           /\ n = (n \div W) * W + (n % W)
  OBVIOUS

\* They are the only ones.
LEMMA DivModUnique ==
    ASSUME NEW W \in Nat \ {0}, NEW q \in Int, NEW r \in 0 .. W - 1
    PROVE  (q * W + r) \div W = q /\ (q * W + r) % W = r
  <1> DEFINE n == q * W + r
             d == q - (n \div W)
  <1>1. n \in Int /\ n \div W \in Int /\ n % W \in 0 .. W - 1 /\ n = (n \div W) * W + (n % W)
    BY DivMod
  <1>2. d \in Int /\ d * W = (n % W) - r
    BY <1>1
  <1>3. d = 0
    <2> HIDE DEF d
    <2>1. (n % W) - r < W /\ (n % W) - r > -W
      BY <1>1
    <2> QED
      BY <1>2, <2>1, Multiples
  <1>4. n \div W = q
    BY <1>1, <1>3
  <1> QED
    BY <1>1, <1>4

\* Dividing by a product is dividing by one factor and then by the other.
LEMMA DivDiv ==
    ASSUME NEW a \in Nat \ {0}, NEW b \in Nat \ {0}, NEW n \in Nat
    PROVE  n \div (a * b) = (n \div a) \div b
  <1> DEFINE m == n \div a
             r == n % a
             q == m \div b
             s == m % b
             w == a * b
             x == s * a + r
  <1>1. m \in Int /\ r \in 0 .. a - 1 /\ n = m * a + r
    BY DivMod
  <1>2. q \in Int /\ s \in 0 .. b - 1 /\ m = q * b + s
    <2> HIDE DEF m
    <2> QED
      BY <1>1, DivMod
  <1> HIDE DEF m, r, q, s
  <1>3. w \in Nat \ {0}
    OBVIOUS
  <1>4. n = q * w + x
    BY <1>1, <1>2
  <1>5. x \in 0 .. w - 1
    <2>1. b - 1 - s \in Nat /\ s \in Nat
      BY <1>2
    <2>2. (b - 1 - s) * a >= 0 /\ s * a >= 0 /\ s * a \in Int
      <3>1. \A k \in Nat : k * a \in Nat
        OBVIOUS
      <3>2. (b - 1 - s) * a \in Nat /\ s * a \in Nat
        BY <2>1, <3>1, Zenon
      <3> QED
        BY <3>2
    <2>3. (b - 1 - s) * a = w - a - s * a
      BY <2>1
    <2> QED
      BY <1>1, <1>3, <2>1, <2>2, <2>3
  <1> HIDE DEF w, x
  <1>6. n \div w = q
    BY <1>2, <1>3, <1>4, <1>5, DivModUnique
  <1> QED
    BY <1>6 DEF w, q, m
=============================================================================
