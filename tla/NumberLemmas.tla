---------------------------- MODULE NumberLemmas ----------------------------
(***************************************************************************)
(* Facts about numbers and finite sets that several of the proofs need:    *)
(* division by a number that is not a literal, induction, and the order of *)
(* the elements of a finite set.                                           *)
(***************************************************************************)
EXTENDS Integers, FiniteSetTheorems, TLAPS

-----------------------------------------------------------------------------
(* Division with a remainder, for a divisor that is not a literal. *)

LEMMA Multiple ==
  ASSUME NEW n \in Nat \ {0}, NEW d \in Int, n * d < n, 0 - n < n * d
  PROVE  d = 0
<1>1. CASE d >= 1
  <2>1. n * (d - 1) >= 0
    BY <1>1
  <2>2. QED
    BY <2>1, <1>1
<1>2. CASE d <= -1
  <2>1. n * (0 - d - 1) >= 0
    BY <1>2
  <2>2. QED
    BY <2>1, <1>2
<1>3. QED
  BY <1>1, <1>2

LEMMA DivMod ==
  ASSUME NEW n \in Nat \ {0}, NEW x \in Nat
  PROVE  x = n * (x \div n) + (x % n) /\ x \div n \in Nat /\ x % n \in 0 .. n - 1
<1>1. x = n * (x \div n) + (x % n)
  BY Z3
<1>2. x \div n \in Nat /\ x % n \in 0 .. n - 1
  OBVIOUS
<1>3. QED
  BY <1>1, <1>2

LEMMA Cancel ==
  ASSUME NEW n \in Nat \ {0}, NEW a \in Int, NEW b \in Int, n * a <= n * b
  PROVE  a <= b
<1> SUFFICES ASSUME a >= b + 1 PROVE FALSE
  OBVIOUS
<1>1. n * (a - (b + 1)) >= 0
  OBVIOUS
<1>2. n * a >= n * b + n
  BY <1>1
<1>3. QED
  BY <1>2

\* Row q and column r of a table with m rows of n columns, numbered through.
LEMMA Numbering ==
  ASSUME NEW n \in Nat \ {0}, NEW m \in Nat, NEW q \in 0 .. m - 1, NEW r \in 0 .. n - 1
  PROVE  q * n + r \in 0 .. m * n - 1
<1>1. (m - (q + 1)) * n >= 0
  OBVIOUS
<1>2. q * n >= 0
  OBVIOUS
<1>3. (q + 1) * n <= m * n
  BY <1>1
<1>4. q * n + n <= m * n
  BY <1>3
<1>5. QED
  BY <1>2, <1>4

LEMMA ModUnique ==
  ASSUME NEW n \in Nat \ {0}, NEW q \in Int, NEW r \in 0 .. n - 1, NEW x \in Nat, x = n * q + r
  PROVE  x % n = r
<1>1. x = n * (x \div n) + (x % n) /\ x \div n \in Nat /\ x % n \in 0 .. n - 1
  BY DivMod
<1>2. n * (q - (x \div n)) = (x % n) - r
  BY <1>1
<1>3. q - (x \div n) = 0
  BY <1>1, <1>2, Multiple
<1>4. QED
  BY <1>1, <1>3

LEMMA NextMod ==
  ASSUME NEW n \in Nat \ {0}, NEW x \in Nat
  PROVE  ((x % n) + 1) % n = (x + 1) % n
<1> DEFINE q == x \div n
           r == x % n
<1>1. x = n * q + r /\ q \in Nat /\ r \in 0 .. n - 1
  BY DivMod
<1> HIDE DEF q, r
<1>2. CASE r = n - 1
  <2>1. x + 1 = n * (q + 1) + 0
    BY <1>1, <1>2
  <2>2. (x + 1) % n = 0
    BY <2>1, <1>1, ModUnique
  <2>3. n % n = 0
    BY ModUnique, n = n * 1 + 0
  <2>4. r + 1 = n
    BY <1>2
  <2>5. QED
    BY <2>2, <2>3, <2>4 DEF r
<1>3. CASE r # n - 1
  <2>1. r + 1 \in 0 .. n - 1 /\ r + 1 \in Nat
    BY <1>1, <1>3
  <2>2. x + 1 = n * q + (r + 1)
    BY <1>1
  <2>3. (x + 1) % n = r + 1
    BY <2>1, <2>2, <1>1, ModUnique
  <2>4. r + 1 = n * 0 + (r + 1)
    BY <1>1
  <2>5. (r + 1) % n = r + 1
    BY <2>1, <2>4, ModUnique
  <2>6. QED
    BY <2>3, <2>5 DEF r
<1>4. QED
  BY <1>2, <1>3
-----------------------------------------------------------------------------
(* Induction. *)

\* Induction on the natural numbers, for a set instead of a predicate: a smallest number
\* outside T would give a smallest interval, and the finite subsets of Nat are well founded.
LEMMA NatSetInduction ==
  ASSUME NEW T \in SUBSET Nat, 0 \in T, \A n \in T : n + 1 \in T
  PROVE  T = Nat
<1> DEFINE Initial == {1 .. n : n \in Nat \ T}
<1> SUFFICES ASSUME Nat \ T # {} PROVE FALSE
  OBVIOUS
<1>1. Initial \subseteq FiniteSubsetsOf(Nat) /\ Initial # {}
  <2>1. \A n \in Nat : IsFiniteSet(1 .. n) /\ 1 .. n \subseteq Nat
    BY FS_Interval
  <2>2. QED
    BY <2>1 DEF FiniteSubsetsOf
<1>2. IsWellFoundedOn(StrictSubsetOrdering(Nat), FiniteSubsetsOf(Nat))
  BY FS_StrictSubsetOrderingWellFounded
<1> HIDE DEF Initial
<1>3. PICK least \in Initial : \A s \in Initial : <<s, least>> \notin StrictSubsetOrdering(Nat)
  BY <1>1, <1>2, WFMin
<1>4. PICK n \in Nat \ T : least = 1 .. n
  BY DEF Initial
<1>5. n - 1 \in Nat \ T
  BY <1>4
<1>6. <<1 .. n - 1, 1 .. n>> \in StrictSubsetOrdering(Nat)
  <2>1. 1 .. n - 1 \subseteq 1 .. n /\ n \in 1 .. n /\ n \notin 1 .. n - 1 /\ 1 .. n \subseteq Nat
    BY <1>5
  <2>2. QED
    BY <2>1 DEF StrictSubsetOrdering
<1>7. 1 .. n - 1 \in Initial
  BY <1>5 DEF Initial
<1>8. QED
  BY <1>3, <1>4, <1>6, <1>7

-----------------------------------------------------------------------------
(* The elements of a finite set of numbers in their order. *)

\* Counting the elements up to each one numbers them from 1, in increasing order.
LEMMA Ranks ==
  ASSUME NEW S \in SUBSET Nat, IsFiniteSet(S)
  PROVE  LET rank(k) == Cardinality({j \in S : j <= k})
         IN  /\ Cardinality(S) \in Nat
             /\ \A k \in S : rank(k) \in 1 .. Cardinality(S)
             /\ \A j, k \in S : j < k => rank(j) < rank(k)
             /\ \A i \in 1 .. Cardinality(S) : \E k \in S : rank(k) = i
<1> DEFINE UpTo(k) == {j \in S : j <= k}
           rank == [k \in S |-> Cardinality(UpTo(k))]
<1>1. Cardinality(S) \in Nat
  BY FS_CardinalityType
<1>2. ASSUME NEW k \in S
      PROVE  IsFiniteSet(UpTo(k)) /\ rank[k] \in 1 .. Cardinality(S)
  <2>1. UpTo(k) \in SUBSET S /\ UpTo(k) # {}
    OBVIOUS
  <2>2. IsFiniteSet(UpTo(k)) /\ Cardinality(UpTo(k)) <= Cardinality(S)
    BY <2>1, FS_Subset
  <2>3. Cardinality(UpTo(k)) \in Nat /\ Cardinality(UpTo(k)) # 0
    BY <2>1, <2>2, FS_CardinalityType, FS_EmptySet
  <2>4. QED
    BY <1>1, <2>2, <2>3
<1>3. ASSUME NEW j \in S, NEW k \in S, j < k
      PROVE  rank[j] < rank[k]
  <2>1. UpTo(j) \in SUBSET UpTo(k) /\ k \in UpTo(k) /\ k \notin UpTo(j)
    <3>1. j \in Nat /\ k \in Nat /\ \A i \in S : i \in Nat
      OBVIOUS
    <3>2. k <= k /\ ~(k <= j) /\ \A i \in S : i <= j => i <= k
      BY <1>3, <3>1
    <3>3. QED
      BY <3>2
  <2>2. UpTo(j) # UpTo(k)
    BY <2>1
  <2>3. Cardinality(UpTo(j)) <= Cardinality(UpTo(k)) /\ Cardinality(UpTo(j)) # Cardinality(UpTo(k))
    BY <1>2, <2>1, <2>2, FS_Subset
  <2>4. QED
    BY <1>1, <1>2, <2>3
<1>4. rank \in Injection(S, 1 .. Cardinality(S))
  <2>1. rank \in [S -> 1 .. Cardinality(S)]
    BY <1>2
  <2>2. ASSUME NEW j \in S, NEW k \in S, rank[j] = rank[k]
        PROVE  j = k
    <3>1. rank[j] \in Int /\ rank[k] \in Int
      BY <1>1, <1>2
    <3>2. ~(j < k) /\ ~(k < j)
      BY <1>3, <2>2, <3>1
    <3>3. QED
      BY <3>2
  <2>3. QED
    BY <2>1, <2>2 DEF Injection, IsInjective
<1>5. IsFiniteSet(1 .. Cardinality(S)) /\ Cardinality(1 .. Cardinality(S)) = Cardinality(S)
  <2>1. 1 \in Int /\ Cardinality(S) \in Int
    BY <1>1
  <2>2. QED
    BY <1>1, <2>1, FS_Interval
<1>6. rank \in Surjection(S, 1 .. Cardinality(S))
  BY <1>4, <1>5, FS_Injection
<1>7. \A i \in 1 .. Cardinality(S) : \E k \in S : rank[k] = i
  BY <1>6 DEF Surjection
<1>8. \A k \in S : rank[k] = Cardinality({j \in S : j <= k})
  OBVIOUS
<1> HIDE DEF rank
<1>9. QED
  BY <1>1, <1>2, <1>3, <1>7, <1>8

-----------------------------------------------------------------------------
(* Small sets. *)

\* Two elements are two.
LEMMA Two ==
  ASSUME NEW a, NEW b, a # b
  PROVE  IsFiniteSet({a, b}) /\ Cardinality({a, b}) = 2
<1>1. IsFiniteSet({a}) /\ Cardinality({a}) = 1
  BY FS_Singleton
<1>2. b \notin {a} /\ {a, b} = {a} \cup {b}
  OBVIOUS
<1>3. QED
  BY <1>1, <1>2, FS_AddElement

LEMMA Three ==
  ASSUME NEW a, NEW b, NEW c, a # b, a # c, b # c
  PROVE  IsFiniteSet({a, b, c}) /\ Cardinality({a, b, c}) = 3
<1>1. IsFiniteSet({a, b}) /\ Cardinality({a, b}) = 2
  BY Two
<1>2. c \notin {a, b} /\ {a, b, c} = {a, b} \cup {c}
  OBVIOUS
<1>3. IsFiniteSet({a, b} \cup {c}) /\ Cardinality({a, b} \cup {c}) = Cardinality({a, b}) + 1
  BY <1>1, <1>2, FS_AddElement
<1>4. QED
  BY <1>1, <1>2, <1>3

LEMMA Four ==
  ASSUME NEW a, NEW b, NEW c, NEW d, a # b, a # c, b # c, d \notin {a, b, c}
  PROVE  Cardinality({a, b, c, d}) = 4
<1>1. IsFiniteSet({a, b, c}) /\ Cardinality({a, b, c}) = 3
  BY Three
<1>2. {a, b, c, d} = {a, b, c} \cup {d}
  OBVIOUS
<1>3. Cardinality({a, b, c} \cup {d}) = Cardinality({a, b, c}) + 1
  BY <1>1, FS_AddElement
<1>4. QED
  BY <1>1, <1>2, <1>3
=============================================================================
