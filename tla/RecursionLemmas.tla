-------------------------- MODULE RecursionLemmas --------------------------
(***************************************************************************)
(* What the proofs about folds and runs over lists rest on: induction over *)
(* the naturals, extreme elements, and functions defined by recursion.     *)
(***************************************************************************)
EXTENDS TLAPS, WellFoundedInduction, FiniteSetTheorems, SequenceTheorems

----------------------------------------------------------------------------
(* Induction over the naturals, and the largest element of a finite set    *)

UpTo(S, x) == {j \in S : j <= x}

LEMMA UpToSmaller ==
    ASSUME NEW S, S \subseteq Nat, NEW x \in S, NEW y \in S, y < x
    PROVE  <<UpTo(S, y), UpTo(S, x)>> \in StrictSubsetOrdering(S)
<1>1. ASSUME NEW j \in UpTo(S, y) PROVE j \in UpTo(S, x)
  <2>1. j \in Nat /\ x \in Nat /\ y \in Nat /\ j <= y
    BY DEF UpTo
  <2>. QED
    BY <2>1 DEF UpTo
<1>2. x \in UpTo(S, x) /\ x \notin UpTo(S, y)
  BY DEF UpTo
<1>3. UpTo(S, y) \in SUBSET S /\ UpTo(S, x) \in SUBSET S
  BY DEF UpTo
<1>. QED
  BY <1>1, <1>2, <1>3 DEF StrictSubsetOrdering

LEMMA LeastExists ==
    ASSUME NEW S, S \subseteq Nat, IsFiniteSet(S), S # {}
    PROVE  \E x \in S : \A y \in S : x <= y
<1> DEFINE T == {UpTo(S, x) : x \in S}
<1>1. ASSUME NEW x \in S PROVE UpTo(S, x) \in FiniteSubsetsOf(S)
  <2>1. UpTo(S, x) \subseteq S
    BY DEF UpTo
  <2>. QED
    BY <2>1, FS_Subset DEF FiniteSubsetsOf
<1>2. T \subseteq FiniteSubsetsOf(S) /\ T # {}
  BY <1>1
<1>3. PICK B \in T : \A C \in T : ~ (<<C, B>> \in StrictSubsetOrdering(S))
  BY <1>2, FS_StrictSubsetOrderingWellFounded, WFMin, Zenon
<1>4. PICK x \in S : B = UpTo(S, x)
  BY <1>3
<1>5. ASSUME NEW y \in S PROVE ~ (y < x)
  BY <1>3, <1>4, UpToSmaller
<1>. QED
  BY <1>5

\* Induction, with the property as a set of numbers.
LEMMA Induction ==
    ASSUME NEW A, 0 \in A, \A n \in Nat : n \in A => n + 1 \in A
    PROVE  Nat \subseteq A
<1>1. SUFFICES ASSUME NEW m \in Nat, m \notin A PROVE FALSE
  OBVIOUS
<1> DEFINE S == {x \in 0..m : x \notin A}
<1>2. S \subseteq Nat /\ m \in S
  BY <1>1
<1>3. IsFiniteSet(S)
  <2>1. IsFiniteSet(0..m) /\ S \subseteq 0..m
    BY FS_Interval
  <2>. QED
    BY <2>1, FS_Subset
<1>4. PICK x \in S : \A y \in S : x <= y
  <2> HIDE DEF S
  <2>. QED
    BY <1>2, <1>3, LeastExists
<1>5. x # 0 /\ x - 1 \in 0..m
  BY <1>4
<1>6. x - 1 \in A
  BY <1>4, <1>5
<1>. QED
  BY <1>4, <1>5, <1>6

LEMMA LargestExists ==
    ASSUME NEW n \in Nat, NEW S, S \subseteq 0..n, S # {}
    PROVE  \E x \in S : \A y \in S : y <= x
<1> DEFINE T == {n - x : x \in S}
<1>0. \A x \in S : x \in 0..n
  OBVIOUS
<1>1. T \subseteq 0..n /\ T # {} /\ T \subseteq Nat
  <2>1. ASSUME NEW x \in S PROVE n - x \in 0..n /\ n - x \in Nat
    BY <1>0
  <2>. QED
    BY <2>1
<1>2. IsFiniteSet(T)
  <2>1. IsFiniteSet(0..n)
    BY FS_Interval
  <2>. QED
    BY <2>1, <1>1, FS_Subset
<1>3. PICK z \in T : \A y \in T : z <= y
  <2> HIDE DEF T
  <2>. QED
    BY <1>1, <1>2, LeastExists
<1>4. PICK x \in S : z = n - x
  BY <1>3
<1>5. ASSUME NEW y \in S PROVE y <= x
  <2>1. n - x <= n - y
    BY <1>3, <1>4
  <2>2. x \in 0..n /\ y \in 0..n
    BY <1>0
  <2>. QED
    BY <2>1, <2>2
<1>. QED
  BY <1>5

\* A finite set that is not empty has a largest element: it is bounded, by
\* induction over its size.
LEMMA LargestFinite ==
    ASSUME NEW S, S \subseteq Nat, IsFiniteSet(S), S # {}
    PROVE  \E x \in S : \A y \in S : y <= x
<1> DEFINE Bounded(X) == \E b \in Nat : \A x \in X : x <= b
           A == {n \in Nat : \A X \in SUBSET S : Cardinality(X) = n => Bounded(X)}
<1>0. \A X \in SUBSET S : IsFiniteSet(X) /\ Cardinality(X) \in Nat
  BY FS_Subset, FS_CardinalityType
<1>1. 0 \in A
  <2>1. ASSUME NEW X \in SUBSET S, Cardinality(X) = 0 PROVE X = {}
    BY <1>0, <2>1, FS_EmptySet
  <2>. QED
    BY <2>1
<1>2. ASSUME NEW n \in Nat, n \in A PROVE n + 1 \in A
  <2>1. SUFFICES ASSUME NEW X \in SUBSET S, Cardinality(X) = n + 1 PROVE Bounded(X)
    OBVIOUS
  <2>2. X # {}
    BY <2>1, FS_EmptySet
  <2>3. PICK x \in X : TRUE
    BY <2>2
  <2>4. X \ {x} \in SUBSET S /\ Cardinality(X \ {x}) = n
    BY <1>0, <2>1, FS_RemoveElement
  <2>5. PICK b \in Nat : \A y \in X \ {x} : y <= b
    BY <1>2, <2>4
  <2>6. x \in Nat /\ X \subseteq Nat
    OBVIOUS
  <2>7. CASE b <= x
    <3>1. \A y \in X : y <= x
      BY <2>5, <2>6, <2>7
    <3>. QED
      BY <2>6, <3>1
  <2>8. CASE x <= b
    <3>1. \A y \in X : y <= b
      BY <2>5, <2>8
    <3>. QED
      BY <3>1
  <2>. QED
    BY <2>5, <2>6, <2>7, <2>8
<1>3. PICK b \in Nat : \A x \in S : x <= b
  <2> HIDE DEF A
  <2>1. Cardinality(S) \in A
    BY <1>0, <1>1, <1>2, Induction
  <2>. QED
    BY <2>1 DEF A
<1>4. S \subseteq 0..b
  BY <1>3
<1>. QED
  BY <1>4, LargestExists

----------------------------------------------------------------------------
(* Functions defined by recursion over 0..m                                *)

\* f is defined by recursion over 0..m, from z by the steps s on S.
Steps(S, m) == [(1..m) \X S -> S]
Recursive(f, S, z, m, s) ==
    /\ f \in [0..m -> S]
    /\ \A j \in 0..m : f[j] = IF j = 0 THEN z ELSE s[<<j, f[j - 1]>>]

LEMMA RecursionExists ==
    ASSUME NEW S, NEW z \in S, NEW m \in Nat, NEW s \in Steps(S, m)
    PROVE  \E f : Recursive(f, S, z, m, s)
<1>0. s \in [(1..m) \X S -> S]
  BY DEF Steps
<1> DEFINE R(n, f) == \A j \in 0..n : f[j] = IF j = 0 THEN z ELSE s[<<j, f[j - 1]>>]
           A == {n \in Nat : n <= m => \E f \in [0..n -> S] : R(n, f)}
<1>1. 0 \in A
  <2> DEFINE f == [j \in 0..0 |-> z]
  <2>1. f \in [0..0 -> S] /\ R(0, f)
    OBVIOUS
  <2>. QED
    BY <2>1
<1>2. ASSUME NEW n \in Nat, n \in A PROVE n + 1 \in A
  <2>1. SUFFICES ASSUME n + 1 <= m PROVE \E f \in [0..(n + 1) -> S] : R(n + 1, f)
    OBVIOUS
  <2>2. PICK f \in [0..n -> S] : R(n, f)
    BY <1>2, <2>1
  <2> DEFINE x == s[<<n + 1, f[n]>>]
             g == [j \in 0..(n + 1) |-> IF j = n + 1 THEN x ELSE f[j]]
  <2>3. x \in S
    <3>1. n + 1 \in 1..m /\ f[n] \in S
      BY <2>1
    <3>. QED
      BY <1>0, <3>1
  <2>4. g \in [0..(n + 1) -> S]
    <3>1. \A j \in 0..(n + 1) : j # n + 1 => j \in 0..n
      OBVIOUS
    <3> HIDE DEF x
    <3>. QED
      BY <2>3, <3>1
  <2>5. ASSUME NEW j \in 0..(n + 1) PROVE g[j] = IF j = 0 THEN z ELSE s[<<j, g[j - 1]>>]
    <3>1. CASE j = n + 1
      <4>1. j - 1 = n /\ n \in 0..(n + 1) /\ n # n + 1 /\ j # 0
        BY <3>1
      <4>2. g[j - 1] = f[n] /\ g[j] = x
        BY <4>1, <3>1
      <4> HIDE DEF g
      <4>. QED
        BY <4>1, <4>2, <3>1, Zenon
    <3>2. CASE j \in 0..n
      <4>1. j # n + 1 /\ (j # 0 => j - 1 # n + 1 /\ j - 1 \in 0..(n + 1))
        BY <3>2
      <4>2. g[j] = f[j] /\ (j # 0 => g[j - 1] = f[j - 1])
        BY <4>1, Zenon
      <4> HIDE DEF g
      <4>. QED
        BY <4>2, <3>2, <2>2, Zenon
    <3>3. j = n + 1 \/ j \in 0..n
      OBVIOUS
    <3> HIDE DEF g
    <3>. QED
      BY <3>1, <3>2, <3>3, Zenon
  <2>. QED
    <3> HIDE DEF g
    <3>. QED
      BY <2>4, <2>5
<1>. QED
  <2> HIDE DEF A
  <2>1. m \in A
    BY <1>1, <1>2, Induction
  <2>. QED
    BY <2>1 DEF A, Recursive

\* What holds at 0 and goes on from j - 1 to j.
LEMMA RecursionHolds ==
    ASSUME NEW S, NEW m \in Nat, NEW f, f[0] \in S,
           \A j \in 1..m : f[j - 1] \in S => f[j] \in S
    PROVE  \A j \in 0..m : f[j] \in S
<1> DEFINE A == {j \in Nat : j <= m => f[j] \in S}
<1>1. 0 \in A
  OBVIOUS
<1>2. ASSUME NEW n \in Nat, n \in A PROVE n + 1 \in A
  <2>1. SUFFICES ASSUME n + 1 <= m PROVE f[n + 1] \in S
    OBVIOUS
  <2>2. n + 1 \in 1..m /\ (n + 1) - 1 = n /\ f[n] \in S
    BY <1>2, <2>1
  <2>. QED
    BY <2>2
<1>3. Nat \subseteq A
  <2> HIDE DEF A
  <2>. QED
    BY <1>1, <1>2, Induction
<1>. QED
  BY <1>3

LEMMA RecursionStays ==
    ASSUME NEW S, NEW z \in S, NEW m \in Nat, NEW f, f[0] = z,
           \A j \in 1..m : f[j - 1] \in S => f[j] \in S
    PROVE  f[m] \in S
<1>1. \A j \in 0..m : f[j] \in S
  BY RecursionHolds
<1>2. m \in 0..m
  OBVIOUS
<1>. QED
  BY <1>1, <1>2
=============================================================================
