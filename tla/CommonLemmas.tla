----------------------------- MODULE CommonLemmas -----------------------------
(***************************************************************************)
(* Facts that the proofs of several components rest on: the least element  *)
(* of a set of numbers, induction over a set of numbers, the functions     *)
(* that are defined by recursion, division, bounded sequences, and finite  *)
(* sets in a strict order.                                                 *)
(*                                                                         *)
(* None has an operator as a parameter: an induction is over the set of    *)
(* numbers that have a property, what a recursive function does at each    *)
(* step is a function itself, and an order is a set of pairs.              *)
(***************************************************************************)
EXTENDS Integers, SequencesExt, FiniteSetTheorems, WellFoundedInduction, TLAPS

(* A set of natural numbers that is not empty has a least one.             *)
LEMMA LeastNat ==
  ASSUME NEW S \in SUBSET Nat, S # {}
  PROVE  \E n \in S : \A m \in S : n <= m
<1> DEFINE R == {p \in Nat \X Nat : p[1] < p[2]}
<1>1. R = OpToRel(<, Nat)
  BY SMT DEF OpToRel
<1>2. IsWellFoundedOn(R, Nat)
  BY <1>1, NatLessThanWellFounded
<1>3. \A m, n \in Nat : m < n => <<m, n>> \in R
  OBVIOUS
<1> HIDE DEF R
<1>4. S \subseteq Nat
  OBVIOUS
<1>5. \E n \in S : \A m \in S : ~(<<m, n>> \in R)
  BY <1>2, <1>4, WFMin
<1>6. PICK n \in S : \A m \in S : ~(<<m, n>> \in R)
  BY <1>5
<1>7. \A m \in S : ~(m < n)
  BY <1>3, <1>4, <1>6, Zenon
<1>8. \A m \in S : n <= m
  BY <1>4, <1>7
<1> QED
  BY <1>8

(* One that is bounded has a greatest.                                     *)
LEMMA GreatestNat ==
  ASSUME NEW S \in SUBSET Nat, S # {}, NEW b \in Nat, \A n \in S : n <= b
  PROVE  \E n \in S : \A m \in S : m <= n
<1> DEFINE T == {b - n : n \in S}
<1>1. T \in SUBSET Nat /\ T # {}
  <2>1. \A n \in S : b - n \in Nat
    OBVIOUS
  <2> QED
    BY <2>1
<1>2. PICK t \in T : \A u \in T : t <= u
  BY <1>1, LeastNat
<1>3. PICK n \in S : t = b - n
  OBVIOUS
<1>4. \A m \in S : b - m \in T /\ b - n <= b - m
  BY <1>2, <1>3
<1>5. \A m \in S : m <= n
  BY <1>4
<1> QED
  BY <1>5

(* What has 0, and n + 1 with every n, has every natural number.           *)
LEMMA NatInductionOnSet ==
  ASSUME NEW S, 0 \in S, \A n \in Nat : n \in S => n + 1 \in S
  PROVE  Nat \subseteq S
<1> SUFFICES ASSUME Nat \ S # {} PROVE FALSE
  OBVIOUS
<1>1. PICK n \in Nat \ S : \A m \in Nat \ S : n <= m
  BY LeastNat
<1> QED
  BY <1>1

(* The same for the numbers up to a bound.                                 *)
LEMMA UpToInductionOnSet ==
  ASSUME NEW b \in Nat, NEW S, 0 \in S, \A n \in 0..b - 1 : n \in S => n + 1 \in S
  PROVE  0..b \subseteq S
<1> DEFINE T == {n \in Nat : n <= b => n \in S}
<1>1. 0 \in T /\ \A n \in Nat : n \in T => n + 1 \in T
  OBVIOUS
<1>2. Nat \subseteq T
  BY <1>1, NatInductionOnSet
<1> QED
  BY <1>2

(* Two functions that agree on 0, and on n + 1 whenever they do on n, agree.*)
LEMMA RecursionUnique ==
  ASSUME NEW b \in Nat, NEW f, NEW g, f = [n \in 0..b |-> f[n]], g = [n \in 0..b |-> g[n]],
         f[0] = g[0], \A n \in 0..b - 1 : f[n] = g[n] => f[n + 1] = g[n + 1]
  PROVE  f = g
<1> DEFINE S == {n \in 0..b : f[n] = g[n]}
<1>1. 0 \in S
  <2>1. 0 \in 0..b
    BY SMT
  <2> QED
    BY <2>1, Zenon
<1>2. ASSUME NEW n \in 0..b - 1, n \in S PROVE n + 1 \in S
  <2>1. n + 1 \in 0..b
    BY SMT
  <2> QED
    BY <1>2, <2>1, Zenon
<1>3. 0..b \subseteq S
  <2> HIDE DEF S
  <2> QED
    BY <1>1, <1>2, UpToInductionOnSet
<1>4. \A n \in 0..b : f[n] = g[n]
  BY <1>3, Zenon
<1>5. [n \in 0..b |-> f[n]] = [n \in 0..b |-> g[n]]
  BY <1>4, Zenon
<1> QED
  BY <1>5, Zenon

(* A function on 0..b with values in V that starts with first and goes on  *)
(* by step exists.  (The names keep the lemma easy to instantiate.)        *)
StepsOn(b, V) == [(1..b) \X V -> V]

Follows(f, b, V, first, step) ==
  f \in [0..b -> V] /\ f[0] = first /\ \A n \in 1..b : f[n] = step[<<n, f[n - 1]>>]

LEMMA RecursionExists ==
  ASSUME NEW b \in Nat, NEW V, NEW first \in V, NEW step \in StepsOn(b, V)
  PROVE  \E f : Follows(f, b, V, first, step)
<1> USE DEF StepsOn, Follows
<1> DEFINE Upto(n, f) == f[0] = first /\ \A m \in 1..n : f[m] = step[<<m, f[m - 1]>>]
           S == {n \in 0..b : \E f \in [0..b -> V] : Upto(n, f)}
<1>1. 0 \in S
  <2> DEFINE f == [m \in 0..b |-> first]
  <2>1. f \in [0..b -> V] /\ f[0] = first
    OBVIOUS
  <2> HIDE DEF f
  <2>2. Upto(0, f)
    BY <2>1
  <2> QED
    BY <2>1, <2>2
<1>2. ASSUME NEW n \in 0..b - 1, n \in S PROVE n + 1 \in S
  <2>1. PICK f \in [0..b -> V] : Upto(n, f)
    BY <1>2
  <2>2. f[n] \in V /\ <<n + 1, f[n]>> \in (1..b) \X V
    OBVIOUS
  <2> DEFINE g == [f EXCEPT ![n + 1] = step[<<n + 1, f[n]>>]]
  <2>3. g \in [0..b -> V] /\ g[n + 1] = step[<<n + 1, f[n]>>] /\ \A m \in 0..n : g[m] = f[m]
    BY <2>2
  <2> HIDE DEF g
  <2>4. \A m \in 1..n + 1 : g[m] = step[<<m, g[m - 1]>>]
    <3> TAKE m \in 1..n + 1
    <3>1. CASE m = n + 1
      BY <3>1, <2>3
    <3>2. CASE m \in 1..n
      BY <3>2, <2>1, <2>3
    <3> QED
      BY <3>1, <3>2
  <2> QED
    BY <2>1, <2>3, <2>4
<1>3. b \in S
  <2> HIDE DEF S
  <2> QED
    BY <1>1, <1>2, UpToInductionOnSet
<1> QED
  BY <1>3

--------------------------------------------------------------------------------
(* Rounded up, a quotient covers the whole.                                *)
LEMMA DivUp ==
  ASSUME NEW a \in Nat, NEW r \in Nat \ {0}
  PROVE  (a + r - 1) \div r \in Nat /\ ((a + r - 1) \div r) * r >= a
OBVIOUS

LEMMA ModSmall ==
  ASSUME NEW a \in Nat, NEW r \in Nat \ {0}, a < r
  PROVE  a % r = a
OBVIOUS

LEMMA ModNegative ==
  ASSUME NEW a \in Int, NEW r \in Nat \ {0}, a < 0, -r <= a
  PROVE  a % r = a + r
OBVIOUS

(* The least element that Min chooses.                                     *)
LEMMA MinIsLeast ==
  ASSUME NEW S \in SUBSET Nat, S # {}
  PROVE  Min(S) \in S /\ \A m \in S : Min(S) <= m
<1>1. \E n \in S : \A m \in S : n <= m
  BY LeastNat
<1> QED
  BY <1>1 DEF Min

(* What BoundedSeq enumerates.                                             *)
LEMMA BoundedSeqType ==
  ASSUME NEW S, NEW n \in Nat, NEW s \in BoundedSeq(S, n)
  PROVE  s \in Seq(S) /\ Len(s) \in 0..n
<1>1. PICK m \in 0..n : s \in [1..m -> S]
  BY DEF BoundedSeq, SeqOf
<1> QED
  BY <1>1

--------------------------------------------------------------------------------
(* Strict orders on a finite set, as sets of pairs.                        *)
StrictOrder(B, R) ==
  /\ \A x \in R : <<x, x>> \notin B
  /\ \A x, y, z \in R : <<x, y>> \in B /\ <<y, z>> \in B => <<x, z>> \in B

Below(B, R, y) == {x \in R : <<x, y>> \in B}

LEMMA BelowGrows ==
  ASSUME NEW R, IsFiniteSet(R), NEW B, StrictOrder(B, R),
         NEW x \in R, NEW y \in R, <<x, y>> \in B
  PROVE  /\ Cardinality(Below(B, R, x)) \in Nat /\ Cardinality(Below(B, R, y)) \in Nat
         /\ Cardinality(Below(B, R, x)) < Cardinality(Below(B, R, y))
<1>1. IsFiniteSet(Below(B, R, y)) /\ IsFiniteSet(Below(B, R, x))
  BY FS_Subset DEF Below
<1>2. Below(B, R, x) \in SUBSET Below(B, R, y)
  BY DEF Below, StrictOrder
<1>3. x \in Below(B, R, y) /\ x \notin Below(B, R, x)
  BY DEF Below, StrictOrder
<1>4. /\ Cardinality(Below(B, R, x)) <= Cardinality(Below(B, R, y))
      /\ Cardinality(Below(B, R, y)) # Cardinality(Below(B, R, x))
  BY <1>1, <1>2, <1>3, FS_Subset
<1>5. Cardinality(Below(B, R, x)) \in Nat /\ Cardinality(Below(B, R, y)) \in Nat
  BY <1>1, FS_CardinalityType
<1> QED
  BY <1>4, <1>5

LEMMA LeastOf ==
  ASSUME NEW R, IsFiniteSet(R), NEW B, StrictOrder(B, R), NEW M \in SUBSET R, M # {}
  PROVE  \E m \in M : \A x \in M : <<x, m>> \notin B
<1> DEFINE N == {Cardinality(Below(B, R, m)) : m \in M}
<1>1. \A m \in M : Cardinality(Below(B, R, m)) \in Nat
  <2> TAKE m \in M
  <2>1. IsFiniteSet(Below(B, R, m))
    BY FS_Subset DEF Below
  <2> QED
    BY <2>1, FS_CardinalityType
<1>2. N \in SUBSET Nat /\ N # {}
  BY <1>1
<1>3. PICK n \in N : \A i \in N : n <= i
  <2> HIDE DEF N
  <2> QED
    BY <1>2, LeastNat
<1>4. PICK m \in M : n = Cardinality(Below(B, R, m))
  OBVIOUS
<1>5. ASSUME NEW x \in M, <<x, m>> \in B PROVE FALSE
  <2>1. Cardinality(Below(B, R, x)) < Cardinality(Below(B, R, m))
    <3>1. x \in R /\ m \in R
      OBVIOUS
    <3> QED
      BY <3>1, <1>5, BelowGrows
  <2>2. Cardinality(Below(B, R, x)) \in N
    OBVIOUS
  <2>3. n <= Cardinality(Below(B, R, x))
    BY <2>2, <1>3
  <2>4. n \in Nat /\ Cardinality(Below(B, R, x)) \in Nat
    BY <1>1, <1>4
  <2> HIDE DEF N
  <2> QED
    BY <2>1, <2>3, <2>4, <1>4
<1> QED
  BY <1>5

(* In a total order no more than k have fewer than k below them.           *)
LEMMA FewHaveFewBelow ==
  ASSUME NEW R, IsFiniteSet(R), NEW B, StrictOrder(B, R),
         \A x, y \in R : x # y => <<x, y>> \in B \/ <<y, x>> \in B,
         NEW k \in Nat, NEW T \in SUBSET R, \A y \in T : Cardinality(Below(B, R, y)) < k
  PROVE  IsFiniteSet(T) /\ Cardinality(T) <= k
<1> DEFINE f == [y \in T |-> Cardinality(Below(B, R, y))]
<1>1. \A y \in T : Cardinality(Below(B, R, y)) \in 0..k - 1
  <2> TAKE y \in T
  <2>1. IsFiniteSet(Below(B, R, y))
    BY FS_Subset DEF Below
  <2>2. Cardinality(Below(B, R, y)) \in Nat /\ Cardinality(Below(B, R, y)) < k
    BY <2>1, FS_CardinalityType
  <2> QED
    BY <2>2
<1>2. \A x, y \in T : x # y => Cardinality(Below(B, R, x)) # Cardinality(Below(B, R, y))
  <2> SUFFICES ASSUME NEW x \in T, NEW y \in T, x # y
               PROVE  Cardinality(Below(B, R, x)) # Cardinality(Below(B, R, y))
    OBVIOUS
  <2>1. x \in R /\ y \in R
    OBVIOUS
  <2>2. CASE <<x, y>> \in B
    <3>1. /\ Cardinality(Below(B, R, x)) \in Nat /\ Cardinality(Below(B, R, y)) \in Nat
          /\ Cardinality(Below(B, R, x)) < Cardinality(Below(B, R, y))
      BY <2>1, <2>2, BelowGrows
    <3> QED
      BY <3>1
  <2>3. CASE <<y, x>> \in B
    <3>1. /\ Cardinality(Below(B, R, x)) \in Nat /\ Cardinality(Below(B, R, y)) \in Nat
          /\ Cardinality(Below(B, R, y)) < Cardinality(Below(B, R, x))
      BY <2>1, <2>3, BelowGrows
    <3> QED
      BY <3>1
  <2> QED
    BY <2>1, <2>2, <2>3
<1>3. f \in Injection(T, 0..k - 1)
  BY <1>1, <1>2 DEF Injection, IsInjective
<1>4. IsFiniteSet(0..k - 1) /\ Cardinality(0..k - 1) = k
  <2>1. IsFiniteSet(0..k - 1) /\ Cardinality(0..k - 1) = IF 0 > k - 1 THEN 0 ELSE k - 1 - 0 + 1
    BY FS_Interval
  <2> QED
    BY <2>1
<1>5. IsFiniteSet(T) /\ Cardinality(T) <= Cardinality(0..k - 1)
  <2> HIDE DEF f
  <2> QED
    BY <1>3, <1>4, FS_Injection
<1> QED
  BY <1>4, <1>5
================================================================================
