--------------------------- MODULE InductionLemmas ---------------------------
(***************************************************************************)
(* Induction over numbers and finite sets, in a form without operators as  *)
(* parameters: what is to be shown of all numbers, or of all subsets, is   *)
(* stated as a set of them.  From it follow the facts about enumerations   *)
(* and sums that the proofs about the other modules use.                   *)
(***************************************************************************)
EXTENDS Enumeration, Functions, FiniteSetTheorems, FunctionTheorems,
        SequenceTheorems, WellFoundedInduction, TLAPS

-----------------------------------------------------------------------------
(* Induction *)

(* Every non-empty set of natural numbers has a least element. *)
LEMMA LeastNat ==
  ASSUME NEW T, T \subseteq Nat, T # {}
  PROVE  \E x \in T : \A y \in T : x <= y
  <1> DEFINE R == OpToRel(<, Nat)
  <1>1. IsWellFoundedOn(R, Nat)
    BY NatLessThanWellFounded
  <1> HIDE DEF R
  <1>2. PICK x \in T : \A y \in T : ~(<<y, x>> \in R)
    BY <1>1, WFMin
  <1>3. ASSUME NEW y \in T PROVE x <= y
    <2>1. ~(<<y, x>> \in R)
      BY <1>2
    <2>2. ~(y < x)
      BY <2>1 DEF R, OpToRel
    <2>3. QED
      BY <2>2
  <1>4. QED
    BY <1>3

LEMMA InductionNat ==
  ASSUME NEW S, 0 \in S, \A n \in Nat : n \in S => n + 1 \in S
  PROVE  Nat \subseteq S
  <1> DEFINE T == Nat \ S
  <1> SUFFICES ASSUME T # {} PROVE FALSE
    OBVIOUS
  <1>1. PICK x \in T : \A y \in T : x <= y
    BY LeastNat
  <1>2. x # 0 /\ x - 1 \in Nat /\ x - 1 \notin T
    BY <1>1
  <1>3. QED
    BY <1>1, <1>2

(* What holds of the empty set, and of a set with one element more when it *)
(* holds of the set, holds of all subsets of a finite set.                 *)
LEMMA InductionSubsets ==
  ASSUME NEW S, IsFiniteSet(S), NEW Q, {} \in Q,
         \A T \in SUBSET S, x \in S : T \in Q /\ x \notin T => T \cup {x} \in Q
  PROVE  SUBSET S \subseteq Q
  <1> DEFINE N == {n \in Nat : \A T \in SUBSET S : Cardinality(T) = n => T \in Q}
  <1>1. 0 \in N
    BY FS_EmptySet, FS_Subset
  <1>2. ASSUME NEW n \in Nat, n \in N PROVE n + 1 \in N
    <2> SUFFICES ASSUME NEW T \in SUBSET S, Cardinality(T) = n + 1 PROVE T \in Q
      OBVIOUS
    <2>1. IsFiniteSet(T) /\ T # {}
      BY FS_EmptySet, FS_Subset
    <2>2. PICK x \in T : TRUE
      BY <2>1
    <2>3. Cardinality(T \ {x}) = n
      <3>1. Cardinality(T \ {x}) = Cardinality(T) - 1
        BY <2>1, FS_RemoveElement
      <3>2. QED
        BY <3>1
    <2>4. T \ {x} \in Q
      BY <1>2, <2>3
    <2>5. T = (T \ {x}) \cup {x}
      OBVIOUS
    <2>6. QED
      BY <2>4, <2>5
  <1>3. Nat \subseteq N
    <2> HIDE DEF N
    <2>1. QED
      BY <1>1, <1>2, InductionNat
  <1>4. ASSUME NEW T \in SUBSET S PROVE T \in Q
    BY <1>3, FS_Subset, FS_CardinalityType
  <1>5. QED
    BY <1>4

-----------------------------------------------------------------------------
(* Enumerations *)

Enumerates(p, S) ==
    /\ p \in [1 .. Cardinality(S) -> S]
    /\ \A i, j \in 1 .. Cardinality(S) : i < j => p[i] < p[j]

(* Every finite set of numbers can be listed in increasing order. *)
LEMMA GreatestInt ==
  ASSUME NEW S \in SUBSET Int, IsFiniteSet(S), S # {}
  PROVE  \E x \in S : \A y \in S : y <= x
  <1> DEFINE Q == {T \in SUBSET S : T = {} \/ \E x \in T : \A y \in T : y <= x}
  <1>1. {} \in Q
    OBVIOUS
  <1>2. ASSUME NEW T \in SUBSET S, NEW z \in S, T \in Q, z \notin T
        PROVE  T \cup {z} \in Q
    <2>1. CASE T = {}
      BY <2>1
    <2>2. CASE T # {}
      <3>1. PICK x \in T : \A y \in T : y <= x
        BY <1>2, <2>2
      <3>2. CASE x < z
        BY <3>1, <3>2
      <3>3. CASE ~(x < z)
        BY <3>1, <3>3
      <3>4. QED
        BY <3>2, <3>3
    <2>3. QED
      BY <2>1, <2>2
  <1>3. SUBSET S \subseteq Q
    <2> HIDE DEF Q
    <2>1. QED
      BY <1>1, <1>2, InductionSubsets
  <1>4. QED
    BY <1>3

LEMMA EnumerationExists ==
  ASSUME NEW S \in SUBSET Int, IsFiniteSet(S)
  PROVE  \E p : Enumerates(p, S)
  <1> DEFINE N == {n \in Nat : \A T \in SUBSET S : Cardinality(T) = n => \E p : Enumerates(p, T)}
  <1>1. 0 \in N
    <2> SUFFICES ASSUME NEW T \in SUBSET S, Cardinality(T) = 0 PROVE \E p : Enumerates(p, T)
      OBVIOUS
    <2>1. Enumerates([i \in 1 .. 0 |-> i], T)
      BY DEF Enumerates
    <2>2. QED
      BY <2>1
  <1>2. ASSUME NEW n \in Nat, n \in N PROVE n + 1 \in N
    <2> SUFFICES ASSUME NEW T \in SUBSET S, Cardinality(T) = n + 1 PROVE \E p : Enumerates(p, T)
      OBVIOUS
    <2>0. IsFiniteSet(T) /\ T \in SUBSET Int
      BY FS_Subset
    <2>1. IsFiniteSet(T) /\ T # {} /\ T \in SUBSET Int
      BY <2>0, FS_EmptySet
    <2>2. PICK x \in T : \A y \in T : y <= x
      BY <2>1, GreatestInt
    <2>3. Cardinality(T \ {x}) = n
      <3>1. Cardinality(T \ {x}) = Cardinality(T) - 1
        BY <2>1, FS_RemoveElement
      <3>2. QED
        BY <3>1
    <2>4. PICK p : Enumerates(p, T \ {x})
      BY <1>2, <2>3
    <2> DEFINE q == [i \in 1 .. n + 1 |-> IF i = n + 1 THEN x ELSE p[i]]
    <2>5. \A i \in 1 .. n : p[i] \in T /\ p[i] < x
      <3>1. \A i \in 1 .. n : p[i] \in T \ {x}
        BY <2>3, <2>4 DEF Enumerates
      <3>2. ASSUME NEW i \in 1 .. n PROVE p[i] \in T /\ p[i] < x
        <4>1. p[i] \in T /\ p[i] # x
          BY <3>1
        <4>2. p[i] <= x /\ p[i] \in Int /\ x \in Int
          BY <4>1, <2>1, <2>2
        <4>3. QED
          BY <4>1, <4>2
      <3>3. QED
        BY <3>2
    <2>6. Enumerates(q, T)
      <3>1. q \in [1 .. n + 1 -> T]
        BY <2>5
      <3>2. ASSUME NEW i \in 1 .. n + 1, NEW j \in 1 .. n + 1, i < j PROVE q[i] < q[j]
        <4>1. i \in 1 .. n /\ q[i] = p[i]
          BY <3>2
        <4>2. CASE j = n + 1
          BY <2>5, <4>1, <4>2
        <4>3. CASE j # n + 1
          <5>1. j \in 1 .. n /\ q[j] = p[j]
            BY <4>3
          <5>2. p[i] < p[j]
            BY <2>3, <2>4, <3>2, <4>1, <5>1 DEF Enumerates
          <5>3. QED
            BY <4>1, <5>1, <5>2
        <4>4. QED
          BY <4>2, <4>3
      <3>3. QED
        BY <3>1, <3>2 DEF Enumerates
    <2>7. QED
      BY <2>6
  <1>3. Nat \subseteq N
    <2> HIDE DEF N
    <2>1. QED
      BY <1>1, <1>2, InductionNat
  <1>4. QED
    BY <1>3, FS_CardinalityType

(* An enumeration reaches each element. *)
LEMMA EnumerationOnto ==
  ASSUME NEW S \in SUBSET Int, IsFiniteSet(S), NEW p, Enumerates(p, S)
  PROVE  /\ Cardinality(S) \in Nat
         /\ \A i, j \in 1 .. Cardinality(S) : p[i] = p[j] => i = j
         /\ \A x \in S : \E i \in 1 .. Cardinality(S) : p[i] = x
  <1> DEFINE n == Cardinality(S)
  <1>1. n \in Nat
    BY FS_CardinalityType
  <1>2. ASSUME NEW i \in 1 .. n, NEW j \in 1 .. n, p[i] = p[j] PROVE i = j
    <2>1. p[i] \in S /\ p[j] \in S
      BY DEF Enumerates
    <2>2. p[i] \in Int /\ p[j] \in Int
      BY <2>1
    <2>3. ~(p[i] < p[j]) /\ ~(p[j] < p[i])
      BY <1>2, <2>2
    <2>4. ~(i < j) /\ ~(j < i)
      BY <2>3 DEF Enumerates
    <2>5. QED
      BY <1>1, <2>4
  <1>3. p \in Injection(1 .. n, S)
    BY <1>2 DEF Enumerates, Injection, IsInjective
  <1>4. Cardinality(1 .. n) = n
    BY <1>1, FS_Interval
  <1>5. p \in Surjection(1 .. n, S)
    BY <1>3, <1>4, FS_Injection
  <1>6. \A x \in S : \E i \in 1 .. n : p[i] = x
    BY <1>5 DEF Surjection
  <1>7. QED
    BY <1>1, <1>2, <1>6

(* What comes k-th has k - 1 smaller elements. *)
LEMMA SmallerCounted ==
  ASSUME NEW S \in SUBSET Int, IsFiniteSet(S), NEW p, Enumerates(p, S),
         NEW k \in 1 .. Cardinality(S)
  PROVE  Cardinality(Smaller(S, p[k])) = k - 1
  <1> DEFINE n == Cardinality(S)
             T == Smaller(S, p[k])
             q == [i \in 1 .. k - 1 |-> p[i]]
  <1>1. /\ n \in Nat
        /\ \A i, j \in 1 .. n : p[i] = p[j] => i = j
        /\ \A x \in S : \E i \in 1 .. n : p[i] = x
    BY EnumerationOnto
  <1>2. k \in Nat /\ k - 1 \in Nat /\ \A i \in 1 .. k - 1 : i \in 1 .. n /\ i < k
    BY <1>1
  <1>3. \A i \in 1 .. n : p[i] \in S /\ p[i] \in Int
    BY DEF Enumerates
  <1>4. q \in Injection(1 .. k - 1, T)
    <2>1. \A i \in 1 .. k - 1 : p[i] \in T
      BY <1>2, <1>3 DEF Enumerates, Smaller
    <2>2. q \in [1 .. k - 1 -> T]
      BY <2>1
    <2>3. \A i, j \in 1 .. k - 1 : q[i] = q[j] => i = j
      BY <1>1, <1>2
    <2>4. QED
      BY <2>2, <2>3 DEF Injection, IsInjective
  <1>5. q \in Surjection(1 .. k - 1, T)
    <2>1. ASSUME NEW x \in T PROVE \E i \in 1 .. k - 1 : q[i] = x
      <3>1. x \in S /\ x < p[k]
        BY DEF Smaller
      <3>2. PICK i \in 1 .. n : p[i] = x
        BY <1>1, <3>1
      <3>3. ~(p[k] < p[i]) /\ p[i] # p[k]
        BY <1>3, <3>1, <3>2
      <3>4. ~(k < i) /\ i # k
        BY <3>3 DEF Enumerates
      <3>5. i \in 1 .. k - 1
        BY <1>1, <1>2, <3>4
      <3>6. QED
        BY <3>2, <3>5
    <2>2. QED
      BY <1>4, <2>1 DEF Injection, Surjection
  <1>6. q \in Bijection(1 .. k - 1, T)
    BY <1>4, <1>5 DEF Bijection
  <1>7. IsFiniteSet(1 .. k - 1) /\ Cardinality(1 .. k - 1) = k - 1
    <2>1. IsFiniteSet(1 .. k - 1) /\ Cardinality(1 .. k - 1) = IF 1 > k - 1 THEN 0 ELSE (k - 1) - 1 + 1
      BY <1>2, FS_Interval
    <2>2. QED
      BY <1>2, <2>1
  <1>8. Cardinality(1 .. k - 1) = Cardinality(T)
    <2> HIDE DEF q, T
    <2>1. ExistsBijection(1 .. k - 1, T)
      BY <1>6 DEF ExistsBijection
    <2>2. QED
      BY <1>7, <2>1, FS_Bijection
  <1>9. QED
    BY <1>7, <1>8

(* Increasing lists each element once. *)
LEMMA IncreasingEnumerates ==
  ASSUME NEW S \in SUBSET Int, IsFiniteSet(S)
  PROVE  /\ Cardinality(S) \in Nat
         /\ Enumerates(Increasing(S), S)
         /\ \A x \in S : \E i \in 1 .. Cardinality(S) : Increasing(S)[i] = x
  <1> DEFINE p == Increasing(S)
             n == Cardinality(S)
  <1>1. n \in Nat
    BY FS_CardinalityType
  <1>2. PICK q : Enumerates(q, S)
    BY EnumerationExists
  <1>3. \A k \in 1 .. n : p[k] \in S /\ Cardinality(Smaller(S, p[k])) = k - 1
    <2>1. ASSUME NEW k \in 1 .. n PROVE p[k] \in S /\ Cardinality(Smaller(S, p[k])) = k - 1
      <3>1. q[k] \in S /\ Cardinality(Smaller(S, q[k])) = k - 1
        BY <1>2, SmallerCounted DEF Enumerates
      <3>2. p[k] = CHOOSE x \in S : Cardinality(Smaller(S, x)) = k - 1
        BY DEF Increasing
      <3>3. QED
        BY <3>1, <3>2
    <2>2. QED
      BY <2>1
  <1>4. p \in [1 .. n -> S]
    BY <1>3 DEF Increasing
  <1> HIDE DEF p
  <1>5. ASSUME NEW i \in 1 .. n, NEW j \in 1 .. n, i < j PROVE p[i] < p[j]
    <2>1. p[i] \in Int /\ p[j] \in Int
      BY <1>3
    <2>2. ASSUME p[j] <= p[i] PROVE FALSE
      <3>1. Smaller(S, p[j]) \subseteq Smaller(S, p[i])
        <4>1. \A y \in S : y \in Int /\ (y < p[j] => y < p[i])
          BY <2>1, <2>2
        <4>2. QED
          BY <4>1 DEF Smaller
      <3>2. IsFiniteSet(Smaller(S, p[i]))
        <4>1. Smaller(S, p[i]) \in SUBSET S
          BY DEF Smaller
        <4>2. QED
          BY <4>1, FS_Subset
      <3>3. Cardinality(Smaller(S, p[j])) <= Cardinality(Smaller(S, p[i]))
        BY <3>1, <3>2, FS_Subset
      <3>4. j - 1 <= i - 1
        BY <1>3, <3>3
      <3>5. QED
        BY <1>1, <1>5, <3>4
    <2>3. QED
      BY <2>1, <2>2
  <1>6. Enumerates(p, S)
    BY <1>4, <1>5 DEF Enumerates
  <1>7. \A x \in S : \E i \in 1 .. n : p[i] = x
    BY <1>6, EnumerationOnto
  <1>8. QED
    BY <1>1, <1>6, <1>7 DEF p

(* The positions of the elements of a sequence that are kept *)
LEMMA KeptPositions ==
  ASSUME NEW n \in Nat, NEW S \in SUBSET (1 .. n)
  PROVE  \E m \in 0 .. n :
            /\ DOMAIN Increasing(S) = 1 .. m
            /\ \A k \in 1 .. m : Increasing(S)[k] \in S
            /\ \A k, l \in 1 .. m : Increasing(S)[k] = Increasing(S)[l] => k = l
            /\ \A x \in S : \E k \in 1 .. m : Increasing(S)[k] = x
            /\ S = 1 .. n => m = n
  <1>1. IsFiniteSet(1 .. n) /\ Cardinality(1 .. n) = n
    BY FS_Interval
  <1>2. IsFiniteSet(S) /\ Cardinality(S) <= n
    BY <1>1, FS_Subset
  <1>3. S \in SUBSET Int
    OBVIOUS
  <1>4. /\ Cardinality(S) \in Nat
        /\ Enumerates(Increasing(S), S)
        /\ \A x \in S : \E i \in 1 .. Cardinality(S) : Increasing(S)[i] = x
    BY <1>2, <1>3, IncreasingEnumerates
  <1> DEFINE p == Increasing(S)
             m == Cardinality(S)
  <1> HIDE DEF p
  <1>5. DOMAIN p = 1 .. m /\ \A k \in 1 .. m : p[k] \in S
    BY <1>4 DEF Enumerates, p
  <1>6. ASSUME NEW k \in 1 .. m, NEW l \in 1 .. m, p[k] = p[l] PROVE k = l
    <2>1. p[k] \in Int /\ p[l] \in Int
      BY <1>3, <1>5
    <2>2. ~(k < l) /\ ~(l < k)
      BY <1>4, <1>6, <2>1 DEF Enumerates, p
    <2>3. QED
      BY <1>4, <2>2
  <1>7. S = 1 .. n => m = n
    BY <1>1
  <1>8. m \in 0 .. n
    BY <1>2, <1>4
  <1>9. QED
    BY <1>4, <1>5, <1>6, <1>7, <1>8 DEF p

-----------------------------------------------------------------------------
(* Sorting *)

(* R says which of two elements of S may come first. *)
Preorder(R, S) ==
    /\ \A x, y \in S : <<x, y>> \in R \/ <<y, x>> \in R
    /\ \A x, y, z \in S : <<x, y>> \in R /\ <<y, z>> \in R => <<x, z>> \in R

Sorts(q, T, R) ==
    /\ q \in [1 .. Cardinality(T) -> T]
    /\ \A i, j \in 1 .. Cardinality(T) : q[i] = q[j] => i = j
    /\ \A i, j \in 1 .. Cardinality(T) : i < j => <<q[i], q[j]>> \in R

LEMMA LastExists ==
  ASSUME NEW S, IsFiniteSet(S), NEW R, Preorder(R, S), S # {}
  PROVE  \E x \in S : \A y \in S : <<y, x>> \in R
  <1> DEFINE Q == {T \in SUBSET S : T = {} \/ \E x \in T : \A y \in T : <<y, x>> \in R}
  <1>1. {} \in Q
    OBVIOUS
  <1>2. ASSUME NEW T \in SUBSET S, NEW z \in S, T \in Q, z \notin T
        PROVE  T \cup {z} \in Q
    <2>0. <<z, z>> \in R
      BY DEF Preorder
    <2>1. CASE T = {}
      BY <2>0, <2>1
    <2>2. CASE T # {}
      <3>1. PICK x \in T : \A y \in T : <<y, x>> \in R
        BY <1>2, <2>2
      <3>2. CASE <<x, z>> \in R
        <4>1. \A y \in T : <<y, z>> \in R
          BY <3>1, <3>2 DEF Preorder
        <4>2. QED
          BY <2>0, <4>1
      <3>3. CASE <<z, x>> \in R
        BY <3>1, <3>3
      <3>4. <<x, z>> \in R \/ <<z, x>> \in R
        BY DEF Preorder
      <3>5. QED
        BY <3>2, <3>3, <3>4
    <2>3. QED
      BY <2>1, <2>2
  <1>3. SUBSET S \subseteq Q
    <2> HIDE DEF Q
    <2>1. QED
      BY <1>1, <1>2, InductionSubsets
  <1>4. QED
    BY <1>3

LEMMA SortExists ==
  ASSUME NEW S, IsFiniteSet(S), NEW R, Preorder(R, S)
  PROVE  \E q : Sorts(q, S, R)
  <1> DEFINE N == {n \in Nat : \A T \in SUBSET S : Cardinality(T) = n => \E q : Sorts(q, T, R)}
  <1>1. 0 \in N
    <2> SUFFICES ASSUME NEW T \in SUBSET S, Cardinality(T) = 0 PROVE \E q : Sorts(q, T, R)
      OBVIOUS
    <2>1. Sorts([i \in 1 .. 0 |-> i], T, R)
      BY DEF Sorts
    <2>2. QED
      BY <2>1
  <1>2. ASSUME NEW n \in Nat, n \in N PROVE n + 1 \in N
    <2> SUFFICES ASSUME NEW T \in SUBSET S, Cardinality(T) = n + 1 PROVE \E q : Sorts(q, T, R)
      OBVIOUS
    <2>0. IsFiniteSet(T)
      BY FS_Subset
    <2>1. T # {} /\ Preorder(R, T)
      BY <2>0, FS_EmptySet DEF Preorder
    <2>2. PICK x \in T : \A y \in T : <<y, x>> \in R
      BY <2>0, <2>1, LastExists
    <2>3. Cardinality(T \ {x}) = n
      <3>1. Cardinality(T \ {x}) = Cardinality(T) - 1
        BY <2>0, FS_RemoveElement
      <3>2. QED
        BY <3>1
    <2>4. PICK p : Sorts(p, T \ {x}, R)
      BY <1>2, <2>3
    <2> DEFINE q == [i \in 1 .. n + 1 |-> IF i = n + 1 THEN x ELSE p[i]]
    <2>5. \A i \in 1 .. n : p[i] \in T /\ p[i] # x /\ q[i] = p[i]
      <3>1. \A i \in 1 .. n : p[i] \in T \ {x}
        BY <2>3, <2>4 DEF Sorts
      <3>2. QED
        BY <3>1
    <2>6. q[n + 1] = x /\ q \in [1 .. n + 1 -> T]
      BY <2>5
    <2>7. \A i, j \in 1 .. n : (p[i] = p[j] => i = j) /\ (i < j => <<p[i], p[j]>> \in R)
      BY <2>3, <2>4 DEF Sorts
    <2> HIDE DEF q
    <2>8. \A i \in 1 .. n + 1 : i = n + 1 \/ i \in 1 .. n
      OBVIOUS
    <2>9. ASSUME NEW i \in 1 .. n + 1, NEW j \in 1 .. n + 1
          PROVE  (q[i] = q[j] => i = j) /\ (i < j => <<q[i], q[j]>> \in R)
      <3>1. CASE i \in 1 .. n /\ j \in 1 .. n
        BY <2>5, <2>7, <3>1
      <3>2. CASE i \in 1 .. n /\ j = n + 1
        BY <2>2, <2>5, <2>6, <3>2
      <3>3. CASE i = n + 1
        <4>1. CASE j = n + 1
          BY <3>3, <4>1
        <4>2. CASE j \in 1 .. n
          BY <2>5, <2>6, <3>3, <4>2
        <4>3. QED
          BY <2>8, <4>1, <4>2
      <3>4. QED
        BY <2>8, <3>1, <3>2, <3>3
    <2>10. Sorts(q, T, R)
      BY <2>6, <2>9 DEF Sorts
    <2>11. QED
      BY <2>10
  <1>3. Nat \subseteq N
    <2> HIDE DEF N
    <2>1. QED
      BY <1>1, <1>2, InductionNat
  <1>4. QED
    BY <1>3, FS_CardinalityType

(* What permutes the indices of a sequence reaches each of them. *)
LEMMA PermutationOnto ==
  ASSUME NEW n \in Nat, NEW q, Permutes(q, 1 .. n)
  PROVE  \A x \in 1 .. n : \E i \in 1 .. n : q[i] = x
  <1>1. q \in Injection(1 .. n, 1 .. n)
    BY DEF Permutes, Injection, IsInjective
  <1>2. IsFiniteSet(1 .. n) /\ Cardinality(1 .. n) = n
    BY FS_Interval
  <1>3. q \in Surjection(1 .. n, 1 .. n)
    BY <1>1, <1>2, FS_Injection
  <1>4. QED
    BY <1>3 DEF Surjection

LEMMA SortingPermutation ==
  ASSUME NEW n \in Nat, NEW R, Preorder(R, 1 .. n)
  PROVE  \E q \in [1 .. n -> 1 .. n] :
            /\ Permutes(q, 1 .. n)
            /\ \A i, j \in 1 .. n : i < j => <<q[i], q[j]>> \in R
  <1>1. IsFiniteSet(1 .. n) /\ Cardinality(1 .. n) = n
    BY FS_Interval
  <1>2. PICK q : Sorts(q, 1 .. n, R)
    BY <1>1, SortExists
  <1>3. q \in [1 .. n -> 1 .. n] /\ Permutes(q, 1 .. n)
    BY <1>1, <1>2 DEF Sorts, Permutes
  <1>4. \A i, j \in 1 .. n : i < j => <<q[i], q[j]>> \in R
    BY <1>1, <1>2 DEF Sorts
  <1>5. QED
    BY <1>3, <1>4

-----------------------------------------------------------------------------
(* Sequences that list elements of another *)

(* s has, in some order, the values of R at the positions P, each once. *)
Listing(s, R, P, n, f) ==
    /\ n \in Nat /\ f \in [1 .. n -> P]
    /\ \A i, j \in 1 .. n : f[i] = f[j] => i = j
    /\ \A p \in P : \E i \in 1 .. n : f[i] = p
    /\ s = [i \in 1 .. n |-> R[f[i]]]

Lists(s, R, P) == \E n, f : Listing(s, R, P, n, f)

(* Choosing positions *)
LEMMA ChosenLists ==
  ASSUME NEW n \in Nat, NEW s, DOMAIN s = 1 .. n, NEW S \in SUBSET (1 .. n)
  PROVE  Lists([k \in DOMAIN Increasing(S) |-> s[Increasing(S)[k]]], s, S)
  <1> DEFINE p == Increasing(S)
  <1>1. PICK m \in 0 .. n :
            /\ DOMAIN p = 1 .. m
            /\ \A k \in 1 .. m : p[k] \in S
            /\ \A k, l \in 1 .. m : p[k] = p[l] => k = l
            /\ \A x \in S : \E k \in 1 .. m : p[k] = x
    BY KeptPositions
  <1> HIDE DEF p
  <1> DEFINE f == [k \in 1 .. m |-> p[k]]
  <1>2. m \in Nat /\ \A k \in 1 .. m : f[k] = p[k]
    OBVIOUS
  <1>3. f \in [1 .. m -> S]
    BY <1>1
  <1>4. [k \in DOMAIN p |-> s[p[k]]] = [k \in 1 .. m |-> s[f[k]]]
    BY <1>1
  <1> HIDE DEF f
  <1>5. Listing([k \in DOMAIN p |-> s[p[k]]], s, S, m, f)
    BY <1>1, <1>2, <1>3, <1>4 DEF Listing
  <1>6. QED
    BY <1>2, <1>5 DEF p, Lists

(* Permuting a sequence *)
LEMMA PermutedLists ==
  ASSUME NEW n \in Nat, NEW s, DOMAIN s = 1 .. n, NEW q, Permutes(q, 1 .. n)
  PROVE  Lists([i \in 1 .. n |-> s[q[i]]], s, 1 .. n)
  <1>1. \A x \in 1 .. n : \E i \in 1 .. n : q[i] = x
    BY PermutationOnto
  <1>2. Listing([i \in 1 .. n |-> s[q[i]]], s, 1 .. n, n, q)
    BY <1>1 DEF Listing, Permutes
  <1>3. QED
    BY <1>2 DEF Lists

(* What a list lists *)
LEMMA ListIsSequence ==
  ASSUME NEW s, NEW R, NEW P, Lists(s, R, P), NEW T, \A p \in P : R[p] \in T
  PROVE  s \in Seq(T)
  <1>1. PICK n \in Nat : \E f : Listing(s, R, P, n, f)
    BY DEF Lists, Listing
  <1>2. PICK f : Listing(s, R, P, n, f)
    BY <1>1
  <1>3. s \in [1 .. n -> T]
    BY <1>2 DEF Listing
  <1>4. QED
    BY <1>3

LEMMA ListDomain ==
  ASSUME NEW s, NEW R, NEW P, Lists(s, R, P)
  PROVE  \E n \in Nat : DOMAIN s = 1 .. n /\ Len(s) = n /\ (P = {} => n = 0) /\ (n = 0 => P = {})
  <1>1. PICK n \in Nat : \E f : Listing(s, R, P, n, f)
    BY DEF Lists, Listing
  <1>2. PICK f : Listing(s, R, P, n, f)
    BY <1>1
  <1>3. DOMAIN s = 1 .. n /\ Len(s) = n
    BY <1>2 DEF Listing
  <1>4. (P = {} => n = 0) /\ (n = 0 => P = {})
    BY <1>2 DEF Listing
  <1>5. QED
    BY <1>3, <1>4

LEMMA ListElements ==
  ASSUME NEW s, NEW R, NEW P, Lists(s, R, P)
  PROVE  /\ \A i \in DOMAIN s : \E p \in P : s[i] = R[p]
         /\ \A p \in P : \E i \in DOMAIN s : s[i] = R[p]
  <1>1. PICK n, f : Listing(s, R, P, n, f)
    BY DEF Lists
  <1>2. QED
    BY <1>1 DEF Listing

(* The values may be changed alike. *)
LEMMA MappedLists ==
  ASSUME NEW s, NEW R, NEW P, Lists(s, R, P), NEW t, NEW G,
         t = [i \in DOMAIN s |-> t[i]],
         \A i \in DOMAIN s : \A p \in P : s[i] = R[p] => t[i] = G[p]
  PROVE  Lists(t, G, P)
  <1>1. PICK n, f : Listing(s, R, P, n, f)
    BY DEF Lists
  <1>2. DOMAIN s = 1 .. n /\ \A i \in 1 .. n : f[i] \in P /\ s[i] = R[f[i]]
    BY <1>1 DEF Listing
  <1>3. \A i \in 1 .. n : t[i] = G[f[i]]
    BY <1>2
  <1>4. t = [i \in 1 .. n |-> G[f[i]]]
    BY <1>2, <1>3
  <1>5. Listing(t, G, P, n, f)
    BY <1>1, <1>4 DEF Listing
  <1>6. QED
    BY <1>5 DEF Lists

(* A list of a list *)
LEMMA ListOfList ==
  ASSUME NEW s, NEW R, NEW P, Lists(s, R, P), NEW t, NEW S, Lists(t, s, S), NEW Q \in SUBSET P,
         S \subseteq DOMAIN s,
         \A i \in DOMAIN s : \A p \in P : s[i] = R[p] => (i \in S <=> p \in Q)
  PROVE  Lists(t, R, Q)
  <1>a. PICK n \in Nat : \E f : Listing(s, R, P, n, f)
    BY DEF Lists, Listing
  <1>1. PICK f : Listing(s, R, P, n, f)
    BY <1>a
  <1>b. PICK m \in Nat : \E g : Listing(t, s, S, m, g)
    BY DEF Lists, Listing
  <1>2. PICK g : Listing(t, s, S, m, g)
    BY <1>b
  <1>3. DOMAIN s = 1 .. n /\ \A i \in 1 .. n : f[i] \in P /\ s[i] = R[f[i]] /\ (i \in S <=> f[i] \in Q)
    BY <1>1 DEF Listing
  <1>4. \A i \in 1 .. m : g[i] \in S /\ g[i] \in 1 .. n
    BY <1>2, <1>3 DEF Listing
  <1> DEFINE h == [i \in 1 .. m |-> f[g[i]]]
  <1>5. h \in [1 .. m -> Q] /\ \A i \in 1 .. m : h[i] = f[g[i]]
    BY <1>3, <1>4
  <1> HIDE DEF h
  <1>6. \A i, j \in 1 .. m : h[i] = h[j] => i = j
    <2>1. \A i, j \in 1 .. m : f[g[i]] = f[g[j]] => g[i] = g[j]
      BY <1>1, <1>4 DEF Listing
    <2>2. \A i, j \in 1 .. m : g[i] = g[j] => i = j
      BY <1>2 DEF Listing
    <2>3. QED
      BY <1>5, <2>1, <2>2
  <1>7. ASSUME NEW q \in Q PROVE \E i \in 1 .. m : h[i] = q
    <2>1. PICK k \in 1 .. n : f[k] = q
      BY <1>1 DEF Listing
    <2>2. PICK i \in 1 .. m : g[i] = k
      BY <1>2, <1>3, <2>1 DEF Listing
    <2>3. QED
      BY <1>5, <2>1, <2>2
  <1>8. t = [i \in 1 .. m |-> R[h[i]]]
    <2>1. t = [i \in 1 .. m |-> s[g[i]]]
      BY <1>2 DEF Listing
    <2>2. \A i \in 1 .. m : s[g[i]] = R[h[i]]
      BY <1>3, <1>4, <1>5
    <2>3. QED
      BY <2>1, <2>2
  <1>9. Listing(t, R, Q, m, h)
    BY <1>5, <1>6, <1>7, <1>8 DEF Listing
  <1>10. QED
    BY <1>9 DEF Lists

LEMMA ListAppended ==
  ASSUME NEW s, NEW t, NEW R, NEW P, NEW Q, Lists(s, R, P), Lists(t, R, Q), P \cap Q = {}
  PROVE  Lists(s \o t, R, P \cup Q)
  <1>a. PICK n \in Nat : \E f : Listing(s, R, P, n, f)
    BY DEF Lists, Listing
  <1>1. PICK f : Listing(s, R, P, n, f)
    BY <1>a
  <1>b. PICK m \in Nat : \E g : Listing(t, R, Q, m, g)
    BY DEF Lists, Listing
  <1>2. PICK g : Listing(t, R, Q, m, g)
    BY <1>b
  <1> DEFINE T == {R[p] : p \in P \cup Q}
             h == [i \in 1 .. n + m |-> IF i <= n THEN f[i] ELSE g[i - n]]
  <1>3. /\ \A i \in 1 .. n : f[i] \in P
        /\ \A i \in 1 .. m : g[i] \in Q
        /\ s = [i \in 1 .. n |-> R[f[i]]] /\ t = [i \in 1 .. m |-> R[g[i]]]
    BY <1>1, <1>2 DEF Listing
  <1>4. s \in Seq(T) /\ t \in Seq(T) /\ Len(s) = n /\ Len(t) = m
    <2>1. s \in [1 .. n -> T] /\ t \in [1 .. m -> T]
      BY <1>3
    <2> HIDE DEF T
    <2>2. s \in Seq(T) /\ t \in Seq(T)
      BY <2>1
    <2>3. DOMAIN s = 1 .. n /\ DOMAIN t = 1 .. m
      BY <2>1
    <2>4. QED
      BY <2>2, <2>3
  <1>5. n + m \in Nat /\ \A i \in 1 .. n + m : (i \in 1 .. n) \/ (i > n /\ i - n \in 1 .. m)
    OBVIOUS
  <1>6. \A i \in 1 .. n + m : /\ i \in 1 .. n => h[i] = f[i]
                              /\ i > n => h[i] = g[i - n]
    OBVIOUS
  <1>7. \A i \in 1 .. m : n + i \in 1 .. n + m /\ h[n + i] = g[i]
    OBVIOUS
  <1>8. s \o t = [i \in 1 .. n + m |-> R[h[i]]]
    <2> HIDE DEF T
    <2>1. s \o t = [i \in 1 .. n + m |-> IF i <= n THEN s[i] ELSE t[i - n]]
      <3> DEFINE u == [i \in 1 .. n + m |-> IF i <= n THEN s[i] ELSE t[i - n]]
      <3>1. \A i \in 1 .. n : s[i] \in T
        BY <1>4
      <3>2. \A i \in 1 .. m : t[i] \in T
        BY <1>4
      <3>3. u \in [1 .. n + m -> T]
        BY <1>5, <3>1, <3>2
      <3>4. \A i \in 1 .. n + m : u[i] = (IF i <= n THEN s[i] ELSE t[i - n])
        OBVIOUS
      <3> HIDE DEF u
      <3>5. u \in Seq(T) /\ Len(u) = n + m
        BY <1>5, <3>3
      <3>6. s \o t \in Seq(T) /\ Len(s \o t) = n + m /\
            \A i \in 1 .. n + m : (s \o t)[i] = IF i <= n THEN s[i] ELSE t[i - n]
        BY <1>4
      <3>7. Len(s \o t) = Len(u) /\ \A i \in 1 .. Len(s \o t) : (s \o t)[i] = u[i]
        BY <3>4, <3>5, <3>6
      <3>8. s \o t = u
        BY <3>5, <3>6, <3>7, SeqEqual
      <3>9. QED
        BY <3>8 DEF u
    <2>2. ASSUME NEW i \in 1 .. n + m PROVE (IF i <= n THEN s[i] ELSE t[i - n]) = R[h[i]]
      <3>1. CASE i \in 1 .. n
        BY <1>3, <1>6, <3>1
      <3>2. CASE i > n
        BY <1>3, <1>5, <1>6, <3>2
      <3>3. QED
        BY <1>5, <3>1, <3>2
    <2> HIDE DEF h
    <2>3. QED
      BY <2>1, <2>2
  <1>9. h \in [1 .. n + m -> P \cup Q]
    <2>1. \A i \in 1 .. n + m : h[i] \in P \cup Q
      BY <1>3, <1>5, <1>6
    <2>2. QED
      BY <2>1
  <1> HIDE DEF h
  <1>10. ASSUME NEW i \in 1 .. n + m, NEW j \in 1 .. n + m, h[i] = h[j] PROVE i = j
    <2>1. CASE i \in 1 .. n /\ j \in 1 .. n
      <3>1. f[i] = f[j]
        BY <1>6, <1>10, <2>1
      <3>2. QED
        BY <1>1, <2>1, <3>1 DEF Listing
    <2>2. CASE i > n /\ j > n
      <3>1. g[i - n] = g[j - n] /\ i - n \in 1 .. m /\ j - n \in 1 .. m
        BY <1>5, <1>6, <1>10, <2>2
      <3>2. i - n = j - n
        BY <1>2, <3>1 DEF Listing
      <3>3. QED
        BY <3>2
    <2>3. CASE i \in 1 .. n /\ j > n
      <3>1. f[i] = g[j - n] /\ j - n \in 1 .. m
        BY <1>5, <1>6, <1>10, <2>3
      <3>2. QED
        BY <1>3, <2>3, <3>1
    <2>4. CASE i > n /\ j \in 1 .. n
      <3>1. f[j] = g[i - n] /\ i - n \in 1 .. m
        BY <1>5, <1>6, <1>10, <2>4
      <3>2. QED
        BY <1>3, <2>4, <3>1
    <2>5. QED
      BY <1>5, <2>1, <2>2, <2>3, <2>4
  <1>11. ASSUME NEW p \in P \cup Q PROVE \E i \in 1 .. n + m : h[i] = p
    <2>1. CASE p \in P
      <3>1. PICK i \in 1 .. n : f[i] = p
        BY <1>1, <2>1 DEF Listing
      <3>2. i \in 1 .. n + m /\ h[i] = p
        BY <1>6, <3>1
      <3>3. QED
        BY <3>2
    <2>2. CASE p \in Q
      <3>1. PICK i \in 1 .. m : g[i] = p
        BY <1>2, <2>2 DEF Listing
      <3>2. QED
        BY <1>7, <3>1
    <2>3. QED
      BY <2>1, <2>2
  <1>12. Listing(s \o t, R, P \cup Q, n + m, h)
    BY <1>5, <1>8, <1>9, <1>10, <1>11 DEF Listing
  <1>13. QED
    BY <1>12 DEF Lists

LEMMA EmptyLists ==
  ASSUME NEW R
  PROVE  Lists(<<>>, R, {})
  <1>1. Listing(<<>>, R, {}, 0, <<>>)
    BY DEF Listing
  <1>2. QED
    BY <1>1 DEF Lists

WhereIs(R, P, x) == {p \in P : R[p] = x}

(* A list has each value as often as the positions it lists. *)
LEMMA CountListed ==
  ASSUME NEW s, NEW R, NEW P, Lists(s, R, P), NEW x
  PROVE  /\ Cardinality(WhereIs(s, DOMAIN s, x)) = Cardinality(WhereIs(R, P, x))
         /\ Cardinality(DOMAIN s) = Cardinality(P) /\ IsFiniteSet(P)
  <1>1. PICK n : \E f : Listing(s, R, P, n, f)
    BY DEF Lists
  <1>2. PICK f : Listing(s, R, P, n, f)
    BY <1>1
  <1> DEFINE A == {i \in DOMAIN s : s[i] = x}
             B == {p \in P : R[p] = x}
             g == [i \in A |-> f[i]]
             D == DOMAIN s
  <1>3. /\ n \in Nat /\ D = 1 .. n /\ f \in [D -> P]
        /\ \A i, j \in D : f[i] = f[j] => i = j
        /\ \A p \in P : \E i \in D : f[i] = p
        /\ \A i \in D : s[i] = R[f[i]]
    BY <1>2 DEF Listing
  <1>4. IsFiniteSet(D) /\ A \subseteq D /\ IsFiniteSet(A)
    <2>1. IsFiniteSet(D)
      BY <1>3, FS_Interval
    <2>2. A \subseteq D
      OBVIOUS
    <2> HIDE DEF A, D
    <2>3. QED
      BY <2>1, <2>2, FS_Subset
  <1>5. g \in [A -> B] /\ (\A i, j \in A : g[i] = g[j] => i = j) /\ \A p \in B : \E i \in A : g[i] = p
    <2>1. \A i \in A : i \in D /\ g[i] = f[i] /\ g[i] \in B
      BY <1>3
    <2>2. \A p \in B : \E i \in A : g[i] = p
      <3> SUFFICES ASSUME NEW p \in B PROVE \E i \in A : g[i] = p
        OBVIOUS
      <3>1. PICK i \in D : f[i] = p
        BY <1>3
      <3>2. i \in A
        BY <1>3, <3>1
      <3>3. QED
        BY <3>1, <3>2
    <2> HIDE DEF A, B, D
    <2>3. QED
      BY <1>3, <2>1, <2>2
  <1> HIDE DEF A, B, g, D
  <1>6. g \in Bijection(A, B) /\ f \in Bijection(D, P)
    BY <1>3, <1>5 DEF Bijection, Injection, Surjection, IsInjective
  <1>7. ExistsBijection(A, B) /\ ExistsBijection(D, P)
    BY <1>6 DEF ExistsBijection
  <1>8. Cardinality(B) = Cardinality(A)
    BY <1>4, <1>7, FS_Bijection
  <1>9. Cardinality(P) = Cardinality(D) /\ IsFiniteSet(P)
    BY <1>4, <1>7, FS_Bijection
  <1>10. QED
    BY <1>8, <1>9 DEF A, B, D, WhereIs

(* A list of n positions has n elements. *)
LEMMA LengthListed ==
  ASSUME NEW s, NEW n \in Nat, NEW R, Lists(s, R, 1 .. n)
  PROVE  Len(s) = n
  <1>1. PICK m \in Nat : DOMAIN s = 1 .. m /\ Len(s) = m
    BY ListDomain
  <1>2. Cardinality(DOMAIN s) = Cardinality(1 .. n)
    BY CountListed
  <1>3. Cardinality(1 .. m) = m /\ Cardinality(1 .. n) = n
    BY FS_Interval
  <1>4. QED
    BY <1>1, <1>2, <1>3

(* A list of nothing *)
LEMMA NothingListed ==
  ASSUME NEW s, NEW R, Lists(s, R, {})
  PROVE  s = <<>>
  <1>1. s \in Seq({})
    BY ListIsSequence
  <1>2. Len(s) = 0
    BY ListDomain
  <1>3. QED
    BY <1>1, <1>2

(* Two strictly increasing lists of the same numbers are the same. *)
LEMMA StrictUnique ==
  ASSUME NEW m \in Nat, NEW a \in [1 .. m -> Nat], NEW b \in [1 .. m -> Nat],
         \A i, j \in 1 .. m : i < j => a[i] < a[j],
         \A i, j \in 1 .. m : i < j => b[i] < b[j],
         \A i \in 1 .. m : \E j \in 1 .. m : a[i] = b[j],
         \A i \in 1 .. m : \E j \in 1 .. m : b[i] = a[j]
  PROVE  \A i \in 1 .. m : a[i] = b[i]
  <1> DEFINE T == {i \in 1 .. m : a[i] # b[i]}
  <1>1. SUFFICES ASSUME T # {} PROVE FALSE
    OBVIOUS
  <1>2. T \subseteq Nat
    OBVIOUS
  <1> HIDE DEF T
  <1>3. PICK i \in T : \A k \in T : i <= k
    BY <1>1, <1>2, LeastNat
  <1>4. i \in 1 .. m /\ a[i] # b[i] /\ \A k \in 1 .. m : k < i => a[k] = b[k]
    BY <1>2, <1>3 DEF T
  <1>5. CASE a[i] < b[i]
    <2>1. PICK j \in 1 .. m : a[i] = b[j]
      BY <1>4
    <2>2. j < i
      <3>1. ~(j = i) /\ ~(i < j)
        <4>1. b[i] \in Nat /\ b[j] \in Nat /\ a[i] \in Nat
          BY <1>4
        <4>2. (i < j => b[i] < b[j]) /\ (j = i => b[i] = b[j])
          BY <1>4
        <4> DEFINE x == a[i]
                   y == b[i]
                   z == b[j]
        <4>3. x < y /\ x = z /\ x \in Nat /\ y \in Nat /\ z \in Nat
              /\ (i < j => y < z) /\ (j = i => y = z)
          BY <1>5, <2>1, <4>1, <4>2
        <4> HIDE DEF x, y, z
        <4>4. QED
          BY <4>3
      <3>2. QED
        BY <1>4, <3>1
    <2>3. a[j] = a[i]
      BY <1>4, <2>1, <2>2
    <2>4. a[j] < a[i]
      BY <1>4, <2>2
    <2>5. a[i] \in Nat
      BY <1>4
    <2>6. QED
      BY <2>3, <2>4, <2>5
  <1>6. CASE b[i] < a[i]
    <2>1. PICK j \in 1 .. m : b[i] = a[j]
      BY <1>4
    <2>2. j < i
      <3>1. ~(j = i) /\ ~(i < j)
        <4>1. a[i] \in Nat /\ a[j] \in Nat /\ b[i] \in Nat
          BY <1>4
        <4>2. (i < j => a[i] < a[j]) /\ (j = i => a[i] = a[j])
          BY <1>4
        <4> DEFINE x == b[i]
                   y == a[i]
                   z == a[j]
        <4>3. x < y /\ x = z /\ x \in Nat /\ y \in Nat /\ z \in Nat
              /\ (i < j => y < z) /\ (j = i => y = z)
          BY <1>6, <2>1, <4>1, <4>2
        <4> HIDE DEF x, y, z
        <4>4. QED
          BY <4>3
      <3>2. QED
        BY <1>4, <3>1
    <2>3. b[j] = b[i]
      BY <1>4, <2>1, <2>2
    <2>4. b[j] < b[i]
      BY <1>4, <2>2
    <2>5. b[i] \in Nat
      BY <1>4
    <2>6. QED
      BY <2>3, <2>4, <2>5
  <1>7. a[i] \in Nat /\ b[i] \in Nat
    BY <1>4
  <1>8. QED
    BY <1>4, <1>5, <1>6, <1>7

(* Sequences of none and of one element *)
LEMMA EmptySequence == ASSUME NEW S PROVE <<>> \in Seq(S)
  OBVIOUS

LEMMA SubSeqOne ==
  ASSUME NEW S, NEW s \in Seq(S), NEW i \in 1 .. Len(s)
  PROVE  SubSeq(s, i, i) = <<s[i]>>
  <1> DEFINE t == SubSeq(s, i, i)
  <1>1. i \in Int /\ \A j \in i .. i : s[j] \in S
    OBVIOUS
  <1>2. t \in Seq(S) /\ Len(t) = 1 /\ \A j \in 1 .. 1 : t[j] = s[i + j - 1]
    <2>1. /\ t \in Seq(S) /\ Len(t) = (IF i <= i THEN i - i + 1 ELSE 0)
          /\ \A j \in 1 .. i - i + 1 : t[j] = s[i + j - 1]
      BY <1>1, SubSeqProperties
    <2>2. i <= i /\ i - i + 1 = 1
      BY <1>1
    <2> HIDE DEF t
    <2>3. QED
      BY <2>1, <2>2
  <1> HIDE DEF t
  <1>3. t[1] = s[i]
    BY <1>1, <1>2
  <1>4. t = <<s[i]>>
    BY <1>2, <1>3
  <1>5. QED
    BY <1>4 DEF t

(* A list of equal values *)
LEMMA SameValuesListed ==
  ASSUME NEW s, NEW R, NEW P, Lists(s, R, P), NEW G, \A p \in P : G[p] = R[p]
  PROVE  Lists(s, G, P)
  <1>1. PICK n, f : Listing(s, R, P, n, f)
    BY DEF Lists
  <1>2. \A i \in 1 .. n : R[f[i]] = G[f[i]]
    BY <1>1 DEF Listing
  <1>3. s = [i \in 1 .. n |-> G[f[i]]]
    BY <1>1, <1>2 DEF Listing
  <1>4. Listing(s, G, P, n, f)
    BY <1>1, <1>3 DEF Listing
  <1>5. QED
    BY <1>4 DEF Lists

-----------------------------------------------------------------------------
(* Sums.  SumFunctionOnSet takes the elements of a set one after the other *)
(* as CHOOSE picks them; it is defined for every finite set, and its value *)
(* does not depend on the order.                                           *)

pick(T) == CHOOSE x \in T : TRUE

(* g[T] is the sum over T as the recursion of SumFunctionOnSet computes it, *)
(* for all subsets T of S of at most n elements.                            *)
SumsTo(f, S, n, g) ==
    \A T \in SUBSET S : Cardinality(T) <= n =>
        g[T] = IF T = {} THEN 0 ELSE f[pick(T)] + g[T \ {pick(T)}]

LEMMA PickShrinks ==
  ASSUME NEW T, IsFiniteSet(T), T # {}
  PROVE  /\ pick(T) \in T
         /\ IsFiniteSet(T \ {pick(T)})
         /\ Cardinality(T) \in Nat
         /\ Cardinality(T) > 0
         /\ Cardinality(T \ {pick(T)}) = Cardinality(T) - 1
  <1>1. pick(T) \in T
    BY DEF pick
  <1> HIDE DEF pick
  <1>2. IsFiniteSet(T \ {pick(T)}) /\ Cardinality(T \ {pick(T)}) = Cardinality(T) - 1
    BY <1>1, FS_RemoveElement
  <1>3. Cardinality(T) \in Nat /\ Cardinality(T \ {pick(T)}) \in Nat
    BY <1>2, FS_CardinalityType
  <1>4. QED
    BY <1>1, <1>2, <1>3

LEMMA SumsExist ==
  ASSUME NEW f, NEW S, IsFiniteSet(S), NEW n \in Nat
  PROVE  \E g : g = [T \in SUBSET S |-> g[T]] /\ SumsTo(f, S, n, g)
  <1> DEFINE N == {k \in Nat : \E g : g = [T \in SUBSET S |-> g[T]] /\ SumsTo(f, S, k, g)}
             next(g, k) == [T \in SUBSET S |->
                                IF Cardinality(T) <= k THEN g[T]
                                ELSE f[pick(T)] + g[T \ {pick(T)}]]
  <1>0. \A T \in SUBSET S : IsFiniteSet(T) /\ Cardinality(T) \in Nat
    BY FS_Subset, FS_CardinalityType
  <1>1. 0 \in N
    <2> DEFINE g == [T \in SUBSET S |-> 0]
    <2>1. \A T \in SUBSET S : Cardinality(T) <= 0 => T = {}
      BY <1>0, FS_EmptySet
    <2>2. SumsTo(f, S, 0, g) /\ g = [T \in SUBSET S |-> g[T]]
      BY <2>1 DEF SumsTo
    <2>3. QED
      BY <2>2
  <1>2. ASSUME NEW k \in Nat, k \in N PROVE k + 1 \in N
    <2>1. PICK g : g = [T \in SUBSET S |-> g[T]] /\ SumsTo(f, S, k, g)
      BY <1>2
    <2>2. SumsTo(f, S, k + 1, next(g, k))
      <3> SUFFICES ASSUME NEW T \in SUBSET S, Cardinality(T) <= k + 1
                   PROVE  next(g, k)[T] = IF T = {} THEN 0
                                          ELSE f[pick(T)] + next(g, k)[T \ {pick(T)}]
        BY DEF SumsTo
      <3>1. CASE T = {}
        <4>1. Cardinality(T) <= k
          BY <3>1, FS_EmptySet
        <4>2. QED
          BY <2>1, <3>1, <4>1 DEF SumsTo
      <3>2. CASE T # {}
        <4>1. Cardinality(T \ {pick(T)}) = Cardinality(T) - 1 /\ Cardinality(T) \in Nat
          BY <1>0, <3>2, PickShrinks
        <4>2. next(g, k)[T \ {pick(T)}] = g[T \ {pick(T)}]
          BY <4>1
        <4>3. next(g, k)[T] = f[pick(T)] + g[T \ {pick(T)}]
          BY <2>1, <3>2 DEF SumsTo
        <4>4. QED
          BY <3>2, <4>2, <4>3
      <3>3. QED
        BY <3>1, <3>2
    <2>3. next(g, k) = [T \in SUBSET S |-> next(g, k)[T]]
      OBVIOUS
    <2> HIDE DEF next
    <2>4. QED
      BY <2>2, <2>3
  <1>3. Nat \subseteq N
    <2> HIDE DEF N
    <2>1. QED
      BY <1>1, <1>2, InductionNat
  <1>4. QED
    BY <1>3

(* The recursion has one solution. *)
LEMMA SumsAgree ==
  ASSUME NEW f, NEW S, IsFiniteSet(S), NEW T \in SUBSET S, NEW g, NEW h,
         SumsTo(f, S, Cardinality(S), g), SumsTo(f, T, Cardinality(T), h)
  PROVE  \A U \in SUBSET T : g[U] = h[U]
  <1> DEFINE N == {k \in Nat : \A U \in SUBSET T : Cardinality(U) = k => g[U] = h[U]}
  <1>0. /\ IsFiniteSet(T)
        /\ \A U \in SUBSET T : /\ IsFiniteSet(U) /\ Cardinality(U) \in Nat /\ U \in SUBSET S
                               /\ Cardinality(U) <= Cardinality(T) /\ Cardinality(U) <= Cardinality(S)
    BY FS_Subset, FS_CardinalityType
  <1>1. 0 \in N
    <2>1. \A U \in SUBSET T : Cardinality(U) = 0 => U = {}
      BY <1>0, FS_EmptySet
    <2>2. QED
      BY <2>1, <1>0 DEF SumsTo
  <1>2. ASSUME NEW k \in Nat, k \in N PROVE k + 1 \in N
    <2> SUFFICES ASSUME NEW U \in SUBSET T, Cardinality(U) = k + 1 PROVE g[U] = h[U]
      OBVIOUS
    <2>1. U # {}
      BY FS_EmptySet
    <2>2. Cardinality(U \ {pick(U)}) = k
      BY <1>0, <2>1, PickShrinks
    <2>3. g[U \ {pick(U)}] = h[U \ {pick(U)}]
      BY <1>2, <2>2
    <2>4. g[U] = f[pick(U)] + g[U \ {pick(U)}] /\ h[U] = f[pick(U)] + h[U \ {pick(U)}]
      BY <1>0, <2>1 DEF SumsTo
    <2>5. QED
      BY <2>3, <2>4
  <1>3. Nat \subseteq N
    <2> HIDE DEF N
    <2>1. QED
      BY <1>1, <1>2, InductionNat
  <1>4. QED
    BY <1>0, <1>3

(* SumFunctionOnSet is that solution. *)
LEMMA SumIsRecursive ==
  ASSUME NEW f, NEW S, IsFiniteSet(S)
  PROVE  \E g : SumsTo(f, S, Cardinality(S), g) /\ SumFunctionOnSet(f, S) = g[S]
  <1> DEFINE body(g) == [T \in SUBSET S |-> IF T = {} THEN 0 ELSE f[pick(T)] + g[T \ {pick(T)}]]
             it == CHOOSE g : g = body(g)
  <1>0. \A T \in SUBSET S : Cardinality(T) <= Cardinality(S)
    BY FS_Subset
  <1>1. \E g : g = body(g)
    <2>1. Cardinality(S) \in Nat
      BY FS_CardinalityType
    <2>2. PICK g : g = [T \in SUBSET S |-> g[T]] /\ SumsTo(f, S, Cardinality(S), g)
      BY <2>1, SumsExist
    <2>3. \A T \in SUBSET S : g[T] = IF T = {} THEN 0 ELSE f[pick(T)] + g[T \ {pick(T)}]
      BY <1>0, <2>2 DEF SumsTo
    <2>4. QED
      BY <2>2, <2>3
  <1>2. it = body(it)
    <2> HIDE DEF body
    <2>1. QED
      BY <1>1
  <1>3. SumFunctionOnSet(f, S) = it[S]
    BY DEF SumFunctionOnSet, FoldFunctionOnSet, MapThenFoldSet, pick
  <1> HIDE DEF it
  <1>4. SumsTo(f, S, Cardinality(S), it)
    BY <1>2 DEF SumsTo
  <1>5. QED
    BY <1>3, <1>4

LEMMA SumEmpty == ASSUME NEW f PROVE SumFunctionOnSet(f, {}) = 0
  <1>1. IsFiniteSet({}) /\ Cardinality({}) = 0
    BY FS_EmptySet
  <1>2. PICK g : SumsTo(f, {}, Cardinality({}), g) /\ SumFunctionOnSet(f, {}) = g[{}]
    BY <1>1, SumIsRecursive
  <1>3. QED
    BY <1>1, <1>2 DEF SumsTo

LEMMA SumPick ==
  ASSUME NEW f, NEW S, IsFiniteSet(S), S # {}
  PROVE  SumFunctionOnSet(f, S) = f[pick(S)] + SumFunctionOnSet(f, S \ {pick(S)})
  <1> DEFINE T == S \ {pick(S)}
  <1>1. IsFiniteSet(T) /\ T \in SUBSET S
    BY PickShrinks
  <1> HIDE DEF T
  <1>2. PICK g : SumsTo(f, S, Cardinality(S), g) /\ SumFunctionOnSet(f, S) = g[S]
    BY SumIsRecursive
  <1>3. PICK h : SumsTo(f, T, Cardinality(T), h) /\ SumFunctionOnSet(f, T) = h[T]
    BY <1>1, SumIsRecursive
  <1>4. g[T] = h[T]
    BY <1>1, <1>2, <1>3, SumsAgree
  <1>5. g[S] = f[pick(S)] + g[T]
    <2>1. Cardinality(S) <= Cardinality(S)
      BY FS_CardinalityType
    <2>2. QED
      BY <1>2, <2>1 DEF SumsTo, T
  <1>6. QED
    BY <1>2, <1>3, <1>4, <1>5 DEF T

LEMMA SumIsInt ==
  ASSUME NEW f, NEW S, IsFiniteSet(S), \A x \in S : f[x] \in Int
  PROVE  SumFunctionOnSet(f, S) \in Int
  <1> DEFINE N == {k \in Nat : \A T \in SUBSET S : Cardinality(T) = k => SumFunctionOnSet(f, T) \in Int}
  <1>0. \A T \in SUBSET S : IsFiniteSet(T) /\ Cardinality(T) \in Nat
    BY FS_Subset, FS_CardinalityType
  <1>1. 0 \in N
    <2>1. \A T \in SUBSET S : Cardinality(T) = 0 => T = {}
      BY <1>0, FS_EmptySet
    <2>2. QED
      BY <2>1, SumEmpty
  <1>2. ASSUME NEW k \in Nat, k \in N PROVE k + 1 \in N
    <2> SUFFICES ASSUME NEW T \in SUBSET S, Cardinality(T) = k + 1
                 PROVE  SumFunctionOnSet(f, T) \in Int
      OBVIOUS
    <2>1. IsFiniteSet(T) /\ T # {}
      BY <1>0, FS_EmptySet
    <2>2. pick(T) \in T /\ Cardinality(T \ {pick(T)}) = k
      BY <2>1, PickShrinks
    <2>3. SumFunctionOnSet(f, T) = f[pick(T)] + SumFunctionOnSet(f, T \ {pick(T)})
      BY <2>1, SumPick
    <2>4. SumFunctionOnSet(f, T \ {pick(T)}) \in Int
      BY <1>2, <2>2
    <2>5. f[pick(T)] \in Int
      BY <2>2
    <2>6. QED
      BY <2>3, <2>4, <2>5
  <1>3. Nat \subseteq N
    <2> HIDE DEF N
    <2>1. QED
      BY <1>1, <1>2, InductionNat
  <1>4. QED
    BY <1>0, <1>3

(* The sum does not depend on the order in which the elements are taken. *)
LEMMA SumRemove ==
  ASSUME NEW f, NEW S, IsFiniteSet(S), \A x \in S : f[x] \in Int, NEW y \in S
  PROVE  SumFunctionOnSet(f, S) = f[y] + SumFunctionOnSet(f, S \ {y})
  <1> DEFINE sum(T) == SumFunctionOnSet(f, T)
             N == {k \in Nat : \A T \in SUBSET S : Cardinality(T) = k =>
                                  \A x \in T : sum(T) = f[x] + sum(T \ {x})}
  <1>0. \A T \in SUBSET S : IsFiniteSet(T) /\ Cardinality(T) \in Nat
    BY FS_Subset, FS_CardinalityType
  <1>1. 0 \in N
    <2>1. \A T \in SUBSET S : Cardinality(T) = 0 => T = {}
      BY <1>0, FS_EmptySet
    <2>2. QED
      BY <2>1
  <1>2. ASSUME NEW k \in Nat, k \in N PROVE k + 1 \in N
    <2> SUFFICES ASSUME NEW T \in SUBSET S, Cardinality(T) = k + 1, NEW x \in T
                 PROVE  sum(T) = f[x] + sum(T \ {x})
      OBVIOUS
    <2>1. IsFiniteSet(T) /\ T # {}
      BY <1>0
    <2> DEFINE z == pick(T)
    <2>2. z \in T
      BY <2>1, PickShrinks
    <2>3. sum(T) = f[z] + sum(T \ {z})
      BY <2>1, SumPick
    <2> HIDE DEF z
    <2>4. CASE x = z
      BY <2>3, <2>4
    <2>5. CASE x # z
      <3>1. Cardinality(T \ {z}) = k /\ Cardinality(T \ {x}) = k
        <4>1. Cardinality(T \ {z}) = Cardinality(T) - 1 /\ Cardinality(T \ {x}) = Cardinality(T) - 1
          BY <2>1, <2>2, FS_RemoveElement
        <4>2. QED
          BY <4>1
      <3>2. T \ {z} \in SUBSET S /\ T \ {x} \in SUBSET S /\ x \in T \ {z} /\ z \in T \ {x}
        BY <2>2, <2>5
      <3>3. sum(T \ {z}) = f[x] + sum((T \ {z}) \ {x})
        BY <1>2, <3>1, <3>2
      <3>4. sum(T \ {x}) = f[z] + sum((T \ {x}) \ {z})
        BY <1>2, <3>1, <3>2
      <3>5. (T \ {z}) \ {x} = (T \ {x}) \ {z}
        OBVIOUS
      <3> DEFINE R == (T \ {x}) \ {z}
      <3>6. sum(R) \in Int
        <4>1. R \in SUBSET S
          OBVIOUS
        <4> HIDE DEF R
        <4>2. QED
          BY <1>0, <4>1, SumIsInt
      <3>7. sum(T \ {z}) = f[x] + sum(R) /\ sum(T \ {x}) = f[z] + sum(R)
        BY <3>3, <3>4, <3>5
      <3>8. f[x] \in Int /\ f[z] \in Int
        BY <2>2
      <3> HIDE DEF R, sum
      <3>9. QED
        BY <2>3, <3>6, <3>7, <3>8
    <2>6. QED
      BY <2>4, <2>5
  <1>3. Nat \subseteq N
    <2> HIDE DEF N
    <2>1. QED
      BY <1>1, <1>2, InductionNat
  <1>4. QED
    BY <1>0, <1>3

LEMMA SumAdd ==
  ASSUME NEW f, NEW S, IsFiniteSet(S), NEW y, y \notin S, \A x \in S \cup {y} : f[x] \in Int
  PROVE  SumFunctionOnSet(f, S \cup {y}) = f[y] + SumFunctionOnSet(f, S)
  <1> DEFINE T == S \cup {y}
  <1>1. IsFiniteSet(T)
    BY FS_AddElement
  <1>2. T \ {y} = S /\ y \in T /\ \A x \in T : f[x] \in Int
    OBVIOUS
  <1> HIDE DEF T
  <1>3. SumFunctionOnSet(f, T) = f[y] + SumFunctionOnSet(f, T \ {y})
    BY <1>1, <1>2, SumRemove
  <1>4. QED
    BY <1>2, <1>3 DEF T

(* Functions with the same values have the same sum. *)
LEMMA SumSame ==
  ASSUME NEW f, NEW g, NEW S, IsFiniteSet(S), \A x \in S : f[x] \in Int /\ g[x] = f[x]
  PROVE  SumFunctionOnSet(g, S) = SumFunctionOnSet(f, S)
  <1> DEFINE Q == {T \in SUBSET S : SumFunctionOnSet(g, T) = SumFunctionOnSet(f, T)}
  <1>1. {} \in Q
    BY SumEmpty
  <1>2. ASSUME NEW T \in SUBSET S, NEW x \in S, T \in Q, x \notin T PROVE T \cup {x} \in Q
    <2>1. IsFiniteSet(T) /\ (\A y \in T \cup {x} : f[y] \in Int /\ g[y] \in Int)
      BY FS_Subset
    <2>2. SumFunctionOnSet(f, T \cup {x}) = f[x] + SumFunctionOnSet(f, T)
      BY <1>2, <2>1, SumAdd
    <2>3. SumFunctionOnSet(g, T \cup {x}) = g[x] + SumFunctionOnSet(g, T)
      BY <1>2, <2>1, SumAdd
    <2>4. QED
      BY <1>2, <2>2, <2>3
  <1>3. SUBSET S \subseteq Q
    <2> HIDE DEF Q
    <2>1. QED
      BY <1>1, <1>2, InductionSubsets
  <1>4. QED
    BY <1>3

(* The sum of a sum of functions *)
LEMMA SumPlus ==
  ASSUME NEW f, NEW g, NEW h, NEW S, IsFiniteSet(S),
         \A x \in S : f[x] \in Int /\ g[x] \in Int /\ h[x] = f[x] + g[x]
  PROVE  SumFunctionOnSet(h, S) = SumFunctionOnSet(f, S) + SumFunctionOnSet(g, S)
  <1> DEFINE a(T) == SumFunctionOnSet(f, T)
             b(T) == SumFunctionOnSet(g, T)
             c(T) == SumFunctionOnSet(h, T)
             Q == {T \in SUBSET S : c(T) = a(T) + b(T)}
  <1>0. \A T \in SUBSET S : IsFiniteSet(T) /\ a(T) \in Int /\ b(T) \in Int /\ c(T) \in Int
    <2> SUFFICES ASSUME NEW T \in SUBSET S
                 PROVE  IsFiniteSet(T) /\ a(T) \in Int /\ b(T) \in Int /\ c(T) \in Int
      OBVIOUS
    <2>1. IsFiniteSet(T) /\ \A x \in T : f[x] \in Int /\ g[x] \in Int /\ h[x] \in Int
      BY FS_Subset
    <2>2. QED
      BY <2>1, SumIsInt
  <1>1. {} \in Q
    <2>1. a({}) = 0 /\ b({}) = 0 /\ c({}) = 0
      BY SumEmpty
    <2> HIDE DEF a, b, c
    <2>2. QED
      BY <2>1
  <1>2. ASSUME NEW T \in SUBSET S, NEW x \in S, T \in Q, x \notin T PROVE T \cup {x} \in Q
    <2>1. IsFiniteSet(T) /\ \A y \in T \cup {x} : f[y] \in Int /\ g[y] \in Int /\ h[y] \in Int
      BY <1>0
    <2>2. a(T \cup {x}) = f[x] + a(T) /\ b(T \cup {x}) = g[x] + b(T) /\ c(T \cup {x}) = h[x] + c(T)
      BY <1>2, <2>1, SumAdd
    <2>3. a(T) \in Int /\ b(T) \in Int /\ f[x] \in Int /\ g[x] \in Int
      BY <1>0
    <2> HIDE DEF a, b, c
    <2>4. QED
      BY <1>2, <2>2, <2>3
  <1>3. SUBSET S \subseteq Q
    <2> HIDE DEF Q
    <2>1. QED
      BY <1>1, <1>2, InductionSubsets
  <1>4. QED
    BY <1>3

(* The sum over two disjoint sets *)
LEMMA SumUnion ==
  ASSUME NEW f, NEW S, NEW U, IsFiniteSet(S), IsFiniteSet(U), S \cap U = {},
         \A x \in S \cup U : f[x] \in Int
  PROVE  SumFunctionOnSet(f, S \cup U) = SumFunctionOnSet(f, S) + SumFunctionOnSet(f, U)
  <1> DEFINE a(T) == SumFunctionOnSet(f, T)
             Q == {T \in SUBSET S : a(T \cup U) = a(T) + a(U)}
  <1>0. \A T \in SUBSET S : IsFiniteSet(T) /\ IsFiniteSet(T \cup U) /\ a(T) \in Int /\ a(T \cup U) \in Int
    <2> SUFFICES ASSUME NEW T \in SUBSET S
                 PROVE  IsFiniteSet(T) /\ IsFiniteSet(T \cup U) /\ a(T) \in Int /\ a(T \cup U) \in Int
      OBVIOUS
    <2>1. IsFiniteSet(T)
      BY FS_Subset
    <2>2. IsFiniteSet(T \cup U)
      BY <2>1, FS_Union
    <2>3. (\A x \in T : f[x] \in Int) /\ (\A x \in T \cup U : f[x] \in Int)
      OBVIOUS
    <2>4. QED
      BY <2>1, <2>2, <2>3, SumIsInt
  <1>1. {} \in Q
    <2>1. {} \cup U = U
      OBVIOUS
    <2>2. a({}) = 0 /\ a({} \cup U) \in Int
      BY <1>0, SumEmpty
    <2>3. a({} \cup U) = a({}) + a(U)
      <3> HIDE DEF a
      <3>1. QED
        BY <2>1, <2>2
    <2>4. QED
      BY <2>3
  <1>2. ASSUME NEW T \in SUBSET S, NEW x \in S, T \in Q, x \notin T PROVE T \cup {x} \in Q
    <2>1. /\ (T \cup {x}) \cup U = (T \cup U) \cup {x}
          /\ x \notin T \cup U
          /\ (\A y \in (T \cup U) \cup {x} : f[y] \in Int) /\ (\A y \in T \cup {x} : f[y] \in Int)
      BY <1>2
    <2>2. a((T \cup U) \cup {x}) = f[x] + a(T \cup U)
      BY <1>0, <2>1, SumAdd
    <2>3. a(T \cup {x}) = f[x] + a(T)
      BY <1>0, <1>2, <2>1, SumAdd
    <2>4. a(T) \in Int /\ f[x] \in Int
      BY <1>0
    <2>5. a(T \cup U) = a(T) + a(U) /\ a(U) \in Int
      BY <1>2, SumIsInt
    <2>6. a((T \cup {x}) \cup U) = a(T \cup {x}) + a(U)
      <3>1. a((T \cup {x}) \cup U) = f[x] + a(T \cup U)
        BY <2>1, <2>2
      <3> HIDE DEF a
      <3>2. QED
        BY <3>1, <2>3, <2>4, <2>5
    <2>7. QED
      BY <2>6
  <1>3. SUBSET S \subseteq Q
    <2> HIDE DEF Q
    <2>1. QED
      BY <1>1, <1>2, InductionSubsets
  <1>4. QED
    BY <1>3

LEMMA SumOfZeros ==
  ASSUME NEW f, NEW S, IsFiniteSet(S), \A x \in S : f[x] = 0
  PROVE  SumFunctionOnSet(f, S) = 0
  <1> DEFINE Q == {T \in SUBSET S : SumFunctionOnSet(f, T) = 0}
  <1>1. {} \in Q
    BY SumEmpty
  <1>2. ASSUME NEW T \in SUBSET S, NEW x \in S, T \in Q, x \notin T PROVE T \cup {x} \in Q
    <2>1. IsFiniteSet(T) /\ (\A y \in T \cup {x} : f[y] \in Int)
      BY FS_Subset
    <2>2. SumFunctionOnSet(f, T \cup {x}) = f[x] + SumFunctionOnSet(f, T)
      BY <1>2, <2>1, SumAdd
    <2>3. QED
      BY <1>2, <2>2
  <1>3. SUBSET S \subseteq Q
    <2> HIDE DEF Q
    <2>1. QED
      BY <1>1, <1>2, InductionSubsets
  <1>4. QED
    BY <1>3

LEMMA SumIsNat ==
  ASSUME NEW f, NEW S, IsFiniteSet(S), \A x \in S : f[x] \in Nat
  PROVE  SumFunctionOnSet(f, S) \in Nat
  <1> DEFINE Q == {T \in SUBSET S : SumFunctionOnSet(f, T) \in Nat}
  <1>1. {} \in Q
    BY SumEmpty
  <1>2. ASSUME NEW T \in SUBSET S, NEW x \in S, T \in Q, x \notin T PROVE T \cup {x} \in Q
    <2>1. IsFiniteSet(T) /\ (\A y \in T \cup {x} : f[y] \in Int)
      BY FS_Subset
    <2>2. SumFunctionOnSet(f, T \cup {x}) = f[x] + SumFunctionOnSet(f, T)
      BY <1>2, <2>1, SumAdd
    <2>3. QED
      BY <1>2, <2>2
  <1>3. SUBSET S \subseteq Q
    <2> HIDE DEF Q
    <2>1. QED
      BY <1>1, <1>2, InductionSubsets
  <1>4. QED
    BY <1>3

-----------------------------------------------------------------------------
(* Functions of how much of a sequence is done *)

Iterates(A, start, N, F) ==
    \E g \in [0 .. N -> A] : g[0] = start /\ \A n \in 1 .. N : g[n] = F[<<n, g[n - 1]>>]

(* From a start, a step leads from each state to the next. *)
LEMMA IteratesExist ==
  ASSUME NEW A, NEW start \in A, NEW N \in Nat, NEW F \in [(1 .. N) \X A -> A]
  PROVE  Iterates(A, start, N, F)
  <1> DEFINE Good(m, g) == /\ g \in [0 .. m -> A] /\ g[0] = start
                           /\ \A n \in 1 .. m : g[n] = F[<<n, g[n - 1]>>]
             M == {m \in Nat : m <= N => \E g : Good(m, g)}
  <1>1. 0 \in M
    <2>1. Good(0, [n \in 0 .. 0 |-> start])
      OBVIOUS
    <2>2. QED
      BY <2>1
  <1>2. ASSUME NEW m \in Nat, m \in M PROVE m + 1 \in M
    <2> SUFFICES ASSUME m + 1 <= N PROVE \E g : Good(m + 1, g)
      OBVIOUS
    <2>1. PICK g : Good(m, g)
      BY <1>2
    <2> DEFINE h == [n \in 0 .. m + 1 |-> IF n <= m THEN g[n] ELSE F[<<m + 1, g[m]>>]]
    <2>2. g[m] \in A /\ m + 1 \in 1 .. N
      BY <2>1
    <2>3. F[<<m + 1, g[m]>>] \in A
      BY <2>2
    <2>4. h \in [0 .. m + 1 -> A]
      BY <2>1, <2>3
    <2>5. h[0] = start /\ h[m + 1] = F[<<m + 1, h[m]>>]
      <3>1. h[0] = g[0] /\ h[m] = g[m] /\ h[m + 1] = F[<<m + 1, g[m]>>]
        OBVIOUS
      <3>2. QED
        BY <2>1, <3>1
    <2>6. ASSUME NEW n \in 1 .. m PROVE h[n] = F[<<n, h[n - 1]>>]
      <3>1. h[n] = g[n] /\ h[n - 1] = g[n - 1]
        OBVIOUS
      <3>2. QED
        BY <2>1, <3>1
    <2> HIDE DEF h
    <2>7. \A n \in 1 .. m + 1 : h[n] = F[<<n, h[n - 1]>>]
      <3> SUFFICES ASSUME NEW n \in 1 .. m + 1 PROVE h[n] = F[<<n, h[n - 1]>>]
        OBVIOUS
      <3>1. n = m + 1 \/ n \in 1 .. m
        OBVIOUS
      <3>2. CASE n = m + 1
        BY <2>5, <3>2
      <3>3. QED
        BY <2>6, <3>1, <3>2
    <2>8. Good(m + 1, h)
      BY <2>4, <2>5, <2>7
    <2>9. QED
      BY <2>8
  <1>3. N \in M
    <2> HIDE DEF M
    <2>1. QED
      BY <1>1, <1>2, InductionNat
  <1>4. QED
    BY <1>3 DEF Iterates

(* What holds before each step and after it holds of all. *)
LEMMA InductionUpTo ==
  ASSUME NEW N \in Nat, NEW S, 0 \in S, \A n \in 1 .. N : n - 1 \in S => n \in S
  PROVE  \A n \in 0 .. N : n \in S
  <1> DEFINE M == {m \in Nat : m <= N => m \in S}
  <1>1. 0 \in M
    OBVIOUS
  <1>2. ASSUME NEW m \in Nat, m \in M PROVE m + 1 \in M
    <2>1. SUFFICES ASSUME m + 1 <= N PROVE m + 1 \in S
      OBVIOUS
    <2>2. m + 1 \in 1 .. N /\ (m + 1) - 1 = m /\ m \in S
      BY <1>2, <2>1
    <2>3. QED
      BY <2>2
  <1>3. Nat \subseteq M
    <2> HIDE DEF M
    <2>1. QED
      BY <1>1, <1>2, InductionNat
  <1>4. QED
    BY <1>3

-----------------------------------------------------------------------------
(* The total of a sequence of numbers *)

RunsTo(s, g) ==
    /\ g \in [0 .. Len(s) -> Int] /\ g[0] = 0
    /\ \A n \in 1 .. Len(s) : g[n] = g[n - 1] + s[n]

LEMMA TotalRuns ==
  ASSUME NEW s \in Seq(Int)
  PROVE  RunsTo(s, RunningTotal(s))
  <1> DEFINE N == Len(s)
             F == [x \in (1 .. N) \X Int |-> x[2] + s[x[1]]]
             body(g) == [n \in 0 .. N |-> IF n = 0 THEN 0 ELSE g[n - 1] + s[n]]
             sum == CHOOSE g : g = body(g)
  <1>1. N \in Nat /\ \A n \in 1 .. N : s[n] \in Int
    OBVIOUS
  <1>2. F \in [(1 .. N) \X Int -> Int] /\ \A n \in 1 .. N, y \in Int : F[<<n, y>>] = y + s[n]
    BY <1>1
  <1> HIDE DEF F, N
  <1>3. PICK g \in [0 .. N -> Int] : g[0] = 0 /\ \A n \in 1 .. N : g[n] = F[<<n, g[n - 1]>>]
    <2>1. 0 \in Int
      OBVIOUS
    <2>2. Iterates(Int, 0, N, F)
      BY <1>1, <1>2, <2>1, IteratesExist, Zenon
    <2>3. QED
      BY <2>2 DEF Iterates
  <1>4. \A n \in 1 .. N : g[n] = g[n - 1] + s[n]
    <2>1. \A n \in 1 .. N : n - 1 \in 0 .. N /\ g[n - 1] \in Int
      BY <1>1, <1>3
    <2>2. QED
      BY <1>2, <1>3, <2>1
  <1>5. g = body(g)
    <2>1. \A n \in 0 .. N : n # 0 => n \in 1 .. N
      BY <1>1
    <2>2. \A n \in 0 .. N : g[n] = body(g)[n]
      BY <1>3, <1>4, <2>1
    <2>3. QED
      BY <1>3, <2>2
  <1>6. sum = body(sum)
    <2> HIDE DEF body
    <2>1. QED
      BY <1>5
  <1>7. RunningTotal(s) = sum
    BY DEF RunningTotal, N
  <1> HIDE DEF sum
  <1>8. DOMAIN sum = 0 .. N /\ sum[0] = 0 /\ \A n \in 1 .. N : sum[n] = sum[n - 1] + s[n]
    <2>1. \A n \in 1 .. N : n \in 0 .. N /\ n # 0
      BY <1>1
    <2>2. QED
      BY <1>1, <1>6, <2>1
  <1>9. \A n \in 0 .. N : sum[n] \in Int
    <2> DEFINE S == {n \in 0 .. N : sum[n] \in Int}
    <2>1. 0 \in S
      BY <1>1, <1>8
    <2>2. ASSUME NEW n \in 1 .. N, n - 1 \in S PROVE n \in S
      <3>1. sum[n - 1] \in Int /\ s[n] \in Int /\ n \in 0 .. N
        BY <1>1, <2>2
      <3>2. sum[n] = sum[n - 1] + s[n]
        BY <1>8
      <3>3. QED
        BY <3>1, <3>2
    <2>3. \A n \in 0 .. N : n \in S
      <3> HIDE DEF S
      <3>1. QED
        BY <1>1, <2>1, <2>2, InductionUpTo
    <2>4. QED
      BY <2>3
  <1>10. sum \in [0 .. N -> Int]
    <2>1. sum = [n \in 0 .. N |-> sum[n]]
      BY <1>6, <1>8
    <2>2. QED
      BY <1>9, <2>1
  <1>11. QED
    BY <1>7, <1>8, <1>10 DEF N, RunsTo

Agree(s, t, m, k) == m + k <= Len(s) /\ k <= Len(t) /\ \A n \in 1 .. k : s[m + n] = t[n]

(* What is added up agrees as long as the numbers do. *)
LEMMA TotalsAgree ==
  ASSUME NEW s \in Seq(Int), NEW t \in Seq(Int), NEW m \in Nat, NEW k \in Nat, Agree(s, t, m, k)
  PROVE  RunningTotal(s)[m + k] = RunningTotal(s)[m] + RunningTotal(t)[k]
  <1> DEFINE f == RunningTotal(s)
             g == RunningTotal(t)
             S == {n \in 0 .. k : f[m + n] = f[m] + g[n]}
  <1>1. RunsTo(s, f) /\ RunsTo(t, g)
    BY TotalRuns
  <1>2. /\ Len(s) \in Nat /\ Len(t) \in Nat
        /\ \A n \in 1 .. Len(t) : t[n] \in Int
    OBVIOUS
  <1>3. m + k <= Len(s) /\ k <= Len(t) /\ \A n \in 1 .. k : s[m + n] = t[n]
    BY DEF Agree
  <1> HIDE DEF f, g
  <1>4. 0 \in S
    <2>1. m \in 0 .. Len(s) /\ m + 0 = m
      BY <1>2, <1>3
    <2>2. f[m + 0] \in Int /\ f[m + 0] = f[m] /\ g[0] = 0
      BY <1>1, <2>1 DEF RunsTo
    <2>3. QED
      BY <2>2
  <1>5. ASSUME NEW n \in 1 .. k, n - 1 \in S PROVE n \in S
    <2>0. m + k <= Len(s) /\ k <= Len(t) /\ Len(s) \in Nat /\ Len(t) \in Nat
      BY <1>2, <1>3
    <2>1. /\ m + n \in 1 .. Len(s) /\ n \in 1 .. Len(t) /\ (m + n) - 1 = m + (n - 1)
          /\ m \in 0 .. Len(s) /\ n - 1 \in 0 .. Len(t)
      BY <2>0
    <2>2. f[m + n] = f[m + (n - 1)] + s[m + n]
      BY <1>1, <2>1 DEF RunsTo
    <2>3. g[n] = g[n - 1] + t[n]
      BY <1>1, <2>1 DEF RunsTo
    <2>4. f[m + (n - 1)] = f[m] + g[n - 1]
      BY <1>5
    <2>5. g[n - 1] \in Int /\ f[m] \in Int /\ t[n] \in Int /\ s[m + n] = t[n]
      BY <1>1, <1>2, <1>3, <2>1 DEF RunsTo
    <2>6. f[m + n] = f[m] + g[n]
      <3>1. f[m + n] = (f[m] + g[n - 1]) + t[n]
        BY <2>2, <2>4, <2>5
      <3>2. PICK a \in Int, b \in Int, c \in Int : a = f[m] /\ b = g[n - 1] /\ c = t[n]
        BY <2>5
      <3>3. (a + b) + c = a + (b + c)
        OBVIOUS
      <3>4. QED
        BY <2>3, <3>1, <3>2, <3>3
    <2>7. QED
      BY <2>6
  <1>6. \A n \in 0 .. k : n \in S
    <2> HIDE DEF S
    <2>1. QED
      BY <1>4, <1>5, InductionUpTo
  <1>7. f[m + k] = f[m] + g[k]
    BY <1>6
  <1>8. QED
    BY <1>7 DEF f, g

LEMMA TotalEmpty == TotalOf(<<>>) = 0
  <1> DEFINE s == <<>>
  <1>1. s \in Seq(Int) /\ Len(s) = 0
    BY EmptySequence
  <1> HIDE DEF s
  <1>2. RunningTotal(s)[Len(s)] = 0
    BY <1>1, TotalRuns DEF RunsTo
  <1>3. QED
    BY <1>2 DEF TotalOf, s

LEMMA TotalType == ASSUME NEW s \in Seq(Int) PROVE TotalOf(s) \in Int
  <1>1. RunningTotal(s) \in [0 .. Len(s) -> Int] /\ Len(s) \in 0 .. Len(s)
    BY TotalRuns DEF RunsTo
  <1>2. QED
    BY <1>1 DEF TotalOf

LEMMA TotalConcat ==
  ASSUME NEW s \in Seq(Int), NEW t \in Seq(Int)
  PROVE  TotalOf(s \o t) = TotalOf(s) + TotalOf(t)
  <1> DEFINE u == s \o t
  <1>1. /\ u \in Seq(Int) /\ Len(u) = Len(s) + Len(t)
        /\ \A i \in 1 .. Len(s) : u[i] = s[i]
        /\ \A i \in 1 .. Len(t) : u[Len(s) + i] = t[i]
    OBVIOUS
  <1>2. Len(s) \in Nat /\ Len(t) \in Nat
    OBVIOUS
  <1> HIDE DEF u
  <1>3. RunningTotal(u)[0] = 0
    BY <1>1, TotalRuns DEF RunsTo
  <1>4. Agree(u, s, 0, Len(s)) /\ Agree(u, t, Len(s), Len(t))
    BY <1>1, <1>2 DEF Agree
  <1>5. RunningTotal(u)[0 + Len(s)] = RunningTotal(u)[0] + TotalOf(s)
    BY <1>1, <1>2, <1>4, TotalsAgree DEF TotalOf
  <1>6. TotalOf(s) \in Int
    BY TotalType
  <1>7. RunningTotal(u)[Len(s)] = TotalOf(s)
    BY <1>2, <1>3, <1>5, <1>6
  <1>8. RunningTotal(u)[Len(s) + Len(t)] = RunningTotal(u)[Len(s)] + TotalOf(t)
    BY <1>1, <1>2, <1>4, TotalsAgree DEF TotalOf
  <1>9. TotalOf(u) = RunningTotal(u)[Len(s) + Len(t)]
    BY <1>1 DEF TotalOf
  <1>10. QED
    BY <1>7, <1>8, <1>9 DEF u

(* A sequence with the elements of two, one after the other *)
LEMMA ConcatIs ==
  ASSUME NEW S, NEW s \in Seq(S), NEW t \in Seq(S), NEW u \in Seq(S), Len(u) = Len(s) + Len(t),
         \A n \in 1 .. Len(s) : u[n] = s[n],
         \A n \in 1 .. Len(t) : u[Len(s) + n] = t[n]
  PROVE  u = s \o t
  <1>1. PICK v : v = s \o t
    OBVIOUS
  <1>2. /\ v \in Seq(S) /\ Len(v) = Len(s) + Len(t)
        /\ \A i \in 1 .. Len(s) + Len(t) : v[i] = IF i <= Len(s) THEN s[i] ELSE t[i - Len(s)]
    BY <1>1, ConcatProperties
  <1>3. Len(s) \in Nat /\ Len(t) \in Nat
    OBVIOUS
  <1>4. ASSUME NEW i \in 1 .. Len(u) PROVE u[i] = v[i]
    <2>1. CASE i <= Len(s)
      BY <1>2, <1>3, <2>1
    <2>2. CASE ~(i <= Len(s))
      <3>1. i - Len(s) \in 1 .. Len(t) /\ Len(s) + (i - Len(s)) = i
        BY <1>3, <2>2
      <3>2. u[i] = t[i - Len(s)]
        BY <3>1
      <3>3. QED
        BY <1>2, <1>3, <2>2, <3>2
    <2>3. QED
      BY <2>1, <2>2
  <1>5. u = v
    BY <1>2, <1>4, SeqEqual
  <1>6. QED
    BY <1>1, <1>5

LEMMA TotalOne == ASSUME NEW x \in Int PROVE TotalOf(<<x>>) = x
  <1> DEFINE s == <<x>>
  <1>1. s \in Seq(Int) /\ Len(s) = 1 /\ s[1] = x
    OBVIOUS
  <1> HIDE DEF s
  <1>2. RunsTo(s, RunningTotal(s))
    BY <1>1, TotalRuns
  <1>3. RunningTotal(s)[1] = RunningTotal(s)[1 - 1] + x
    BY <1>1, <1>2 DEF RunsTo
  <1>4. TotalOf(s) = x
    BY <1>1, <1>2, <1>3 DEF TotalOf, RunsTo
  <1>5. QED
    BY <1>4 DEF s

LEMMA TotalTwo == ASSUME NEW x \in Int, NEW y \in Int PROVE TotalOf(<<x, y>>) = x + y
  <1> DEFINE s == <<x, y>>
  <1>1. s \in Seq(Int) /\ Len(s) = 2 /\ s[1] = x /\ s[2] = y
    OBVIOUS
  <1> HIDE DEF s
  <1>2. RunsTo(s, RunningTotal(s))
    BY <1>1, TotalRuns
  <1>3. /\ RunningTotal(s)[1] = RunningTotal(s)[1 - 1] + x
        /\ RunningTotal(s)[2] = RunningTotal(s)[2 - 1] + y
    BY <1>1, <1>2 DEF RunsTo
  <1>4. TotalOf(s) = x + y
    BY <1>1, <1>2, <1>3 DEF TotalOf, RunsTo
  <1>5. QED
    BY <1>4 DEF s

LEMMA TotalTail ==
  ASSUME NEW s \in Seq(Int), s # <<>>
  PROVE  TotalOf(s) = s[1] + TotalOf(Tail(s))
  <1> DEFINE t == Tail(s)
  <1>1. /\ t \in Seq(Int) /\ Len(t) = Len(s) - 1 /\ Len(s) \in Nat /\ Len(s) > 0 /\ s[1] \in Int
        /\ \A i \in 1 .. Len(t) : t[i] = s[1 + i]
    BY HeadTailProperties
  <1> HIDE DEF t
  <1>2. Agree(s, t, 1, Len(t)) /\ Len(t) \in Nat
    BY <1>1 DEF Agree
  <1>3. RunningTotal(s)[1 + Len(t)] = RunningTotal(s)[1] + RunningTotal(t)[Len(t)]
    BY <1>1, <1>2, TotalsAgree
  <1>4. RunningTotal(s)[1] = s[1]
    <2>1. RunsTo(s, RunningTotal(s))
      BY TotalRuns
    <2>2. RunningTotal(s)[1] = RunningTotal(s)[1 - 1] + s[1]
      BY <1>1, <2>1 DEF RunsTo
    <2>3. QED
      BY <1>1, <2>1, <2>2 DEF RunsTo
  <1>5. 1 + Len(t) = Len(s)
    BY <1>1
  <1>6. QED
    BY <1>3, <1>4, <1>5 DEF TotalOf, t

(* A factor of every number is one of their total. *)
LEMMA TotalScaled ==
  ASSUME NEW s \in Seq(Int), NEW c \in Int, NEW t \in Seq(Int), Len(t) = Len(s),
         \A n \in 1 .. Len(s) : t[n] = c * s[n]
  PROVE  TotalOf(t) = c * TotalOf(s)
  <1> DEFINE f == RunningTotal(s)
             g == RunningTotal(t)
             N == Len(s)
             S == {n \in 0 .. N : g[n] = c * f[n]}
  <1>1. RunsTo(s, f) /\ RunsTo(t, g)
    BY TotalRuns
  <1>2. N \in Nat /\ \A n \in 1 .. N : s[n] \in Int
    OBVIOUS
  <1> HIDE DEF f, g
  <1>3. 0 \in S
    BY <1>1, <1>2 DEF RunsTo
  <1>4. ASSUME NEW n \in 1 .. N, n - 1 \in S PROVE n \in S
    <2>0. n \in 1 .. Len(s) /\ n \in 1 .. Len(t) /\ n - 1 \in 0 .. Len(s) /\ n \in 0 .. N
      BY <1>2
    <2>1. /\ f[n] = f[n - 1] + s[n] /\ g[n] = g[n - 1] + c * s[n]
          /\ f[n - 1] \in Int /\ s[n] \in Int /\ g[n - 1] = c * f[n - 1] /\ n \in 0 .. N
      <3>1. f[n] = f[n - 1] + s[n] /\ g[n] = g[n - 1] + t[n] /\ f[n - 1] \in Int
        BY <1>1, <2>0 DEF RunsTo
      <3>2. t[n] = c * s[n]
        BY <2>0
      <3>3. g[n - 1] = c * f[n - 1]
        BY <1>4
      <3>4. QED
        BY <1>2, <2>0, <3>1, <3>2, <3>3
    <2>2. \A a, b \in Int : c * (a + b) = c * a + c * b
      OBVIOUS
    <2>3. QED
      BY <2>1, <2>2
  <1>5. \A n \in 0 .. N : n \in S
    <2> HIDE DEF S, N
    <2>1. QED
      BY <1>2, <1>3, <1>4, InductionUpTo
  <1>6. g[N] = c * f[N]
    BY <1>2, <1>5
  <1>7. QED
    BY <1>6 DEF TotalOf, f, g

(* The elements of a sequence that are kept add up to as much as all of    *)
(* them do, if the others count nothing.                                   *)
LEMMA TotalKept ==
  ASSUME NEW n \in Nat, NEW S \in SUBSET (1 .. n), NEW F \in [1 .. n -> Int]
  PROVE  TotalOf([k \in DOMAIN Increasing(S) |-> F[Increasing(S)[k]]])
            = TotalOf([i \in 1 .. n |-> IF i \in S THEN F[i] ELSE 0])
  <1> DEFINE p == Increasing(S)
             m == Cardinality(S)
             v == [k \in DOMAIN p |-> F[p[k]]]
             w == [i \in 1 .. n |-> IF i \in S THEN F[i] ELSE 0]
             f == RunningTotal(v)
             g == RunningTotal(w)
             c(j) == Cardinality(Smaller(S, j + 1))
             M == {j \in 0 .. n : g[j] = f[c(j)]}
  <1>0. \A x \in S : x \in Int /\ 1 <= x /\ x <= n /\ x \in 1 .. n
    OBVIOUS
  <1>1. IsFiniteSet(S) /\ S \in SUBSET Int
    <2>1. IsFiniteSet(1 .. n)
      BY FS_Interval
    <2>2. QED
      BY <1>0, <2>1, FS_Subset
  <1>2. /\ m \in Nat /\ Enumerates(p, S)
        /\ \A x \in S : \E k \in 1 .. m : p[k] = x
    BY <1>1, IncreasingEnumerates
  <1>3. \A k \in 1 .. m : p[k] \in S /\ Cardinality(Smaller(S, p[k])) = k - 1
    BY <1>1, <1>2, SmallerCounted DEF Enumerates
  <1>4. DOMAIN p = 1 .. m
    BY <1>2 DEF Enumerates
  <1> HIDE DEF p, m
  <1>5. /\ v \in Seq(Int) /\ Len(v) = m /\ \A k \in 1 .. m : v[k] = F[p[k]]
        /\ w \in Seq(Int) /\ Len(w) = n /\ \A i \in 1 .. n : w[i] = IF i \in S THEN F[i] ELSE 0
    <2>1. \A k \in 1 .. m : F[p[k]] \in Int
      BY <1>0, <1>3
    <2>2. v = [k \in 1 .. m |-> F[p[k]]]
      BY <1>4
    <2>3. v \in Seq(Int) /\ Len(v) = m /\ \A k \in 1 .. m : v[k] = F[p[k]]
      <3> HIDE DEF v
      <3>1. QED
        BY <1>2, <2>1, <2>2
    <2>4. \A i \in 1 .. n : (IF i \in S THEN F[i] ELSE 0) \in Int
      OBVIOUS
    <2>5. w \in Seq(Int) /\ Len(w) = n /\ \A i \in 1 .. n : w[i] = IF i \in S THEN F[i] ELSE 0
      BY <2>4
    <2>6. QED
      BY <2>3, <2>5
  <1> HIDE DEF v, w
  <1>6. RunsTo(v, f) /\ RunsTo(w, g)
    BY <1>5, TotalRuns
  <1> HIDE DEF f, g
  <1>7. 0 \in M
    <2>1. Smaller(S, 0 + 1) = {}
      <3>1. \A x \in S : ~(x < 0 + 1)
        BY <1>0
      <3>2. QED
        BY <3>1 DEF Smaller
    <2>2. c(0) = 0
      BY <2>1, FS_EmptySet
    <2>3. QED
      BY <1>6, <2>2 DEF RunsTo
  <1>8. ASSUME NEW j \in 1 .. n, j - 1 \in M PROVE j \in M
    <2>1. g[j - 1] = f[Cardinality(Smaller(S, j))] /\ (j - 1) + 1 = j
      <3>1. (j - 1) + 1 = j
        OBVIOUS
      <3>2. QED
        BY <1>8, <3>1
    <2>2. g[j] = g[j - 1] + w[j] /\ g[j - 1] \in Int /\ j \in 0 .. n
      BY <1>5, <1>6 DEF RunsTo
    <2>3. CASE j \notin S
      <3>1. Smaller(S, j + 1) = Smaller(S, j)
        <4>1. \A x \in S : x < j + 1 <=> x < j
          BY <1>0, <2>3
        <4>2. QED
          BY <4>1 DEF Smaller
      <3>2. g[j] = g[j - 1]
        BY <1>5, <2>2, <2>3
      <3>3. QED
        BY <2>1, <2>2, <3>1, <3>2
    <2>4. CASE j \in S
      <3>1. PICK k \in 1 .. m : p[k] = j
        BY <1>2, <2>4
      <3>2. Smaller(S, j + 1) = Smaller(S, j) \cup {j} /\ j \notin Smaller(S, j)
        <4>1. \A x \in S : x < j + 1 <=> x < j \/ x = j
          BY <1>0
        <4>2. ~(j < j)
          OBVIOUS
        <4>3. QED
          BY <2>4, <4>1, <4>2 DEF Smaller
      <3>3. Cardinality(Smaller(S, j)) = k - 1
        BY <1>3, <3>1
      <3>4. IsFiniteSet(Smaller(S, j))
        BY <1>1, FS_Subset DEF Smaller
      <3>5. c(j) = k
        <4>1. c(j) = Cardinality(Smaller(S, j)) + 1
          BY <3>2, <3>4, FS_AddElement
        <4>2. QED
          BY <3>3, <4>1
      <3>6. f[k] = f[k - 1] + v[k] /\ v[k] = w[j]
        BY <1>5, <1>6, <2>4, <3>1 DEF RunsTo
      <3>7. g[j] = f[k]
        BY <2>1, <2>2, <3>3, <3>6
      <3>8. QED
        BY <2>2, <3>5, <3>7
    <2>5. QED
      BY <2>3, <2>4
  <1>9. \A j \in 0 .. n : j \in M
    <2> HIDE DEF M
    <2>1. QED
      BY <1>7, <1>8, InductionUpTo
  <1>10. Smaller(S, n + 1) = S
    <2>1. \A x \in S : x < n + 1
      BY <1>0
    <2>2. QED
      BY <2>1 DEF Smaller
  <1>11. g[n] = f[m]
    BY <1>9, <1>10 DEF m
  <1>12. QED
    BY <1>5, <1>11 DEF TotalOf, f, g, v, w, p

=============================================================================
