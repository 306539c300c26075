----------------------------- MODULE FiniteNats -----------------------------
(***************************************************************************)
(* Facts about natural numbers that the proofs of several components need: *)
(* induction in a form that mentions sets only, minima and maxima, and the *)
(* division of the code's integer arithmetic.                              *)
(***************************************************************************)
EXTENDS Integers, FiniteSetsExt, FiniteSetTheorems, WellFoundedInduction,
        TLAPS

\* A set of natural numbers that is not empty has a least element.
LEMMA LeastNat ==
  ASSUME NEW T \in SUBSET Nat, T # {}
  PROVE  \E n \in T : \A m \in T : n <= m
<1> DEFINE R == {ss \in Nat \X Nat : ss[1] < ss[2]}
<1>1. IsWellFoundedOn(R, Nat)
  BY NatLessThanWellFounded DEF OpToRel
<1> HIDE DEF R
<1>2. PICK x \in T : \A y \in T : ~(<<y, x>> \in R)
  BY <1>1, WFMin
<1>3. \A y \in T : y \in Nat /\ x \in Nat /\ ~(y < x)
  BY <1>2 DEF R
<1> QED BY <1>3

\* Induction: P is the set of the numbers that have the property.
LEMMA SetInduction ==
  ASSUME NEW P \in SUBSET Nat, 0 \in P, \A n \in P : n + 1 \in P
  PROVE  P = Nat
<1> SUFFICES ASSUME Nat \ P # {} PROVE FALSE
  OBVIOUS
<1>1. PICK n \in Nat \ P : \A m \in Nat \ P : n <= m
  BY LeastNat
<1> QED BY <1>1

\* Min of a set of natural numbers is its least element.
LEMMA MinOfNats ==
  ASSUME NEW S \in SUBSET Nat, S # {}
  PROVE  Min(S) \in S /\ \A x \in S : Min(S) <= x
  BY LeastNat DEF Min

\* Max of a finite set of natural numbers is its greatest element.
LEMMA MaxOfNats ==
  ASSUME NEW S \in SUBSET Nat, S # {}, IsFiniteSet(S)
  PROVE  Max(S) \in S /\ \A x \in S : Max(S) >= x
<1> DEFINE HasMax(T) == \E x \in T : \A y \in T : x >= y
           P == {n \in Nat : \A T \in SUBSET Nat :
                   IsFiniteSet(T) /\ Cardinality(T) = n /\ T # {} => HasMax(T)}
<1>1. 0 \in P
  BY FS_EmptySet
<1>2. ASSUME NEW n \in P PROVE n + 1 \in P
  <2> SUFFICES ASSUME NEW T \in SUBSET Nat, IsFiniteSet(T),
                      Cardinality(T) = n + 1, T # {}
               PROVE  HasMax(T)
    OBVIOUS
  <2> PICK x \in T : TRUE
    OBVIOUS
  <2>1. IsFiniteSet(T \ {x}) /\ Cardinality(T \ {x}) = n
    <3>1. n \in Nat
      OBVIOUS
    <3>2. /\ IsFiniteSet(T \ {x})
          /\ Cardinality(T \ {x}) = IF x \in T THEN Cardinality(T) - 1
                                               ELSE Cardinality(T)
      BY FS_RemoveElement, Zenon
    <3> HIDE DEF P
    <3> QED BY <3>1, <3>2
  <2>2. CASE T \ {x} = {}
    BY <2>2
  <2>3. CASE T \ {x} # {}
    <3>1. HasMax(T \ {x})
      BY <1>2, <2>1, <2>3
    <3> QED BY <3>1
  <2> QED BY <2>2, <2>3
<1> HIDE DEF P
<1>3. P = Nat
  <2>1. P \in SUBSET Nat
    BY DEF P
  <2> QED BY <1>1, <1>2, <2>1, SetInduction
<1>4. HasMax(S)
  BY <1>3, FS_CardinalityType DEF P
<1> QED BY <1>4 DEF Max

\* The values of a function on a finite set are finitely many.
LEMMA FiniteRange ==
  ASSUME NEW D, IsFiniteSet(D), NEW f
  PROVE  IsFiniteSet({f[c] : c \in D})
<1> DEFINE g == [c \in D |-> f[c]]
           T == {f[c] : c \in D}
<1>1. g \in Surjection(D, T)
  BY DEF Surjection
<1> QED BY <1>1, FS_Surjection DEF ExistsSurjection

\* The C division of non-negative integers.
LEMMA Division ==
  ASSUME NEW a \in Nat, NEW b \in Nat \ {0}
  PROVE  /\ a \div b \in Nat
         /\ b * (a \div b) <= a /\ a < b * (a \div b) + b
         /\ a >= b => a \div b >= 1
  OBVIOUS

\* A product is at least what its factors are at least.
LEMMA ProductBound ==
  ASSUME NEW a \in Nat, NEW b \in Nat, NEW x \in Nat, NEW y \in Nat,
         x <= a, y <= b
  PROVE  x * y <= a * b
<1>1. x * y <= a * y
  OBVIOUS
<1>2. a * y <= a * b
  OBVIOUS
<1> QED BY <1>1, <1>2

\* Remainders, and what they are within a turn or two.
LEMMA Remainder ==
  ASSUME NEW n \in Nat \ {0}, NEW a \in Int
  PROVE  /\ a % n \in 0 .. n - 1
         /\ 0 <= a /\ a < n => a % n = a
         /\ n <= a /\ a < n + n => a % n = a - n
         /\ 0 - n <= a /\ a < 0 => a % n = a + n
<1> DEFINE k == a \div n
           r == a % n
<1>1. k \in Int /\ n * k <= a /\ a < n * k + n /\ r = a - n * k
  OBVIOUS
<1> HIDE DEF k, r
<1>2. a = n * k + r /\ r \in 0 .. n - 1 /\ k \in Int
  <2>1. n * k \in Int
    BY <1>1
  <2> DEFINE m == n * k
  <2> HIDE DEF m
  <2>2. m \in Int /\ m <= a /\ a < m + n /\ r = a - m /\ k \in Int
    BY <1>1, <2>1 DEF m
  <2>3. a = m + r /\ r \in 0 .. n - 1
    BY <2>2
  <2> QED BY <2>2, <2>3 DEF m
<1>3. /\ k = 0 => n * k = 0
      /\ k = 1 => n * k = n
      /\ k = -1 => n * k = 0 - n
      /\ k >= 2 => n * k >= n + n
      /\ k >= 1 => n * k >= n
      /\ k <= -1 => n * k <= 0 - n
      /\ k <= -2 => n * k <= 0 - (n + n)
      /\ n * k \in Int
  <2>1. k >= 2 => n * k >= n * 2
    BY <1>2
  <2>2. k >= 1 => n * k >= n * 1
    BY <1>2
  <2>3. k <= -1 => n * k <= n * (-1)
    BY <1>2
  <2>4. k <= -2 => n * k <= n * (-2)
    BY <1>2
  <2> QED BY <1>2, <2>1, <2>2, <2>3, <2>4
<1> DEFINE m == n * k
<1> HIDE DEF m
<1>4. /\ a = m + r /\ m \in Int
      /\ k = 0 => m = 0
      /\ k = 1 => m = n
      /\ k = -1 => m = 0 - n
      /\ k >= 2 => m >= n + n
      /\ k >= 1 => m >= n
      /\ k <= -1 => m <= 0 - n
      /\ k <= -2 => m <= 0 - (n + n)
  BY <1>2, <1>3 DEF m
<1>5. /\ 0 <= a /\ a < n => r = a
      /\ n <= a /\ a < n + n => r = a - n
      /\ 0 - n <= a /\ a < 0 => r = a + n
  BY <1>2, <1>4
<1> QED BY <1>2, <1>5 DEF r

\* The quotient of a number of windows and a part of one.
LEMMA Quotient ==
  ASSUME NEW w \in Nat \ {0}, NEW k \in Nat, NEW b \in 0 .. w - 1
  PROVE  (k * w + b) \div w = k
<1> DEFINE a == k * w + b
           d == a \div w
<1>1. a \in Nat /\ k * w \in Nat
  OBVIOUS
<1>2. d \in Nat /\ w * d <= a /\ a < w * d + w
  <2> HIDE DEF a
  <2> QED BY <1>1, Division
<1> HIDE DEF d
<1>3. ~(d < k)
  <2> SUFFICES ASSUME d + 1 <= k PROVE FALSE
    BY <1>2
  <2>1. (d + 1) * w <= k * w /\ (d + 1) * w = w * d + w /\ w * d \in Nat
    BY <1>2, ProductBound
  <2> QED BY <1>1, <1>2, <2>1
<1>4. ~(k < d)
  <2> SUFFICES ASSUME k + 1 <= d PROVE FALSE
    BY <1>2
  <2>1. (k + 1) * w <= d * w /\ (k + 1) * w = k * w + w /\ w * d = d * w
        /\ w * d \in Nat
    BY <1>2, ProductBound
  <2> QED BY <1>1, <1>2, <2>1
<1> QED BY <1>2, <1>3, <1>4 DEF d
=============================================================================
