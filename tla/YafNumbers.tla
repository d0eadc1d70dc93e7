----------------------------- MODULE YafNumbers ------------------------------
(***************************************************************************)
(* Facts about numbers that the proofs of several modules need: least and  *)
(* greatest elements, and how a number falls into groups, as a bit into    *)
(* its block, a dentry into a block or a cell into a page.                 *)
(***************************************************************************)
EXTENDS Integers, FiniteSetsExt, WellFoundedInduction, TLAPS

\* A nonempty set of natural numbers has a least element, and Min is it.
LEMMA MinIn ==
  ASSUME NEW S \in SUBSET Nat, S # {}
  PROVE  Min(S) \in S /\ \A y \in S : Min(S) <= y
<1> DEFINE R == OpToRel(<, Nat)
<1>1. \A x, y \in Nat : <<y, x>> \in R <=> y < x
  BY DEF OpToRel
<1>2. IsWellFoundedOn(R, Nat)
  BY NatLessThanWellFounded
<1> HIDE DEF R
<1>3. PICK x \in S : \A y \in S : ~(<<y, x>> \in R)
  BY <1>2, WFMin
<1>4. ASSUME NEW y \in S PROVE x <= y
  <2>1. x \in Nat /\ y \in Nat
    OBVIOUS
  <2>2. ~(y < x)
    BY <1>1, <1>3, <2>1
  <2> QED BY <2>1, <2>2
<1>5. (CHOOSE m \in S : \A y \in S : m <= y) \in {m \in S : \A y \in S : m <= y}
  BY <1>4
<1> QED BY <1>5 DEF Min

\* The smaller and the larger of two numbers.
LEMMA MinPair ==
  ASSUME NEW x \in Int, NEW y \in Int
  PROVE  Min({x, y}) = IF x <= y THEN x ELSE y
  BY DEF Min

LEMMA MaxPair ==
  ASSUME NEW x \in Int, NEW y \in Int
  PROVE  Max({x, y}) = IF x >= y THEN x ELSE y
  BY DEF Max

-----------------------------------------------------------------------------
(* Multiples. *)

\* Products are monotonic.
LEMMA Product ==
  ASSUME NEW k \in Nat, NEW x \in Int, NEW y \in Int, x <= y
  PROVE  k * x \in Int /\ k * y \in Int /\ k * x <= k * y
<1>1. k * (y - x) >= 0        OBVIOUS
<1>2. k * (y - x) = k * y - k * x   OBVIOUS
<1> QED  BY <1>1, <1>2

\* A quotient, as the multiples around it.
LEMMA Quotient ==
  ASSUME NEW a \in Nat, NEW b \in Nat \ {0}
  PROVE  /\ a \div b \in Nat
         /\ b * (a \div b) \in Nat
         /\ b * (a \div b) <= a
         /\ a < b * (a \div b) + b
         /\ a % b = a - b * (a \div b)
<1>1. a \div b \in Nat                       OBVIOUS
<1>2. a = b * (a \div b) + (a % b)           OBVIOUS
<1>3. a % b \in 0 .. b - 1                   OBVIOUS
<1>4. b * (a \div b) \in Nat                 BY <1>1
<1> QED  BY <1>1, <1>2, <1>3, <1>4

\* A number in c groups of b is in one of the groups 0 .. c - 1.
LEMMA InGroup ==
  ASSUME NEW a \in Nat, NEW b \in Nat \ {0}, NEW c \in Nat, a < b * c
  PROVE  a \div b \in 0 .. c - 1
<1>1. /\ a \div b \in Nat /\ b * (a \div b) <= a     BY Quotient
<1>2. SUFFICES ASSUME c <= a \div b PROVE FALSE      BY <1>1
<1>3. b * c <= b * (a \div b)                        BY <1>1, <1>2, Product
<1> QED  BY <1>1, <1>3

\* The number at place r of group q, and back.
LEMMA PlaceInGroup ==
  ASSUME NEW b \in Nat \ {0}, NEW q \in Nat, NEW r \in 0 .. b - 1
  PROVE  /\ b * q + r \in Nat
         /\ (b * q + r) \div b = q
         /\ (b * q + r) % b = r
<1> DEFINE a == b * q + r
<1>1. b * q \in Nat /\ a \in Nat             OBVIOUS
<1>2. /\ a \div b \in Nat /\ b * (a \div b) \in Nat /\ b * (a \div b) <= a
      /\ a < b * (a \div b) + b /\ a % b = a - b * (a \div b)
  <2> HIDE DEF a
  <2> QED  BY <1>1, Quotient
<1>3. ~ (a \div b >= q + 1)
  <2> SUFFICES ASSUME a \div b >= q + 1 PROVE FALSE  OBVIOUS
  <2>1. b * (q + 1) <= b * (a \div b)        BY <1>2, Product
  <2>2. b * (q + 1) = b * q + b              OBVIOUS
  <2> QED  BY <1>1, <1>2, <2>1, <2>2
<1>4. ~ (a \div b <= q - 1)
  <2> SUFFICES ASSUME a \div b <= q - 1 PROVE FALSE  OBVIOUS
  <2>1. b * (a \div b) <= b * (q - 1)        BY <1>2, Product
  <2>2. b * (q - 1) = b * q - b              OBVIOUS
  <2> QED  BY <1>1, <1>2, <2>1, <2>2
<1>5. a \div b = q                           BY <1>2, <1>3, <1>4
<1> QED  BY <1>1, <1>2, <1>5
==============================================================================
