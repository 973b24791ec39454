---------------------------- MODULE TextsProofs ----------------------------
(***************************************************************************)
(* Lemmas the proofs share: induction over a set of naturals, functions    *)
(* defined by recursion, the order of a finite set, and what picking       *)
(* positions out of sequences and joining sequences yield.                 *)
(***************************************************************************)
EXTENDS Texts, FiniteSetTheorems, SequenceTheorems, WellFoundedInduction, TLAPS

-----------------------------------------------------------------------------
(* Naturals.                                                               *)

\* A non-empty set of naturals has a least element.
LEMMA LeastExists ==
  ASSUME NEW S \in SUBSET Nat, S # {}
  PROVE  Least(S) \in S /\ \A y \in S : Least(S) <= y
<1>1. \E x \in S : \A y \in S : ~(<<y, x>> \in OpToRel(<, Nat))
  BY NatLessThanWellFounded, WFMin
<1>2. PICK x \in S : \A y \in S : ~(<<y, x>> \in OpToRel(<, Nat))
  BY <1>1
<1>3. ASSUME NEW y \in S, y < x  PROVE  <<y, x>> \in OpToRel(<, Nat)
  <2>1. <<y, x>> \in Nat \X Nat /\ <<y, x>>[1] = y /\ <<y, x>>[2] = x
    OBVIOUS
  <2>2. <<y, x>>[1] < <<y, x>>[2]
    BY <1>3, <2>1
  <2>. QED
    BY <2>1, <2>2, Zenon DEF OpToRel
<1>4. \A y \in S : ~(y < x)
  BY <1>2, <1>3, Zenon
<1>5. \A y \in S : x <= y
  BY <1>4
<1>. QED
  BY <1>5 DEF Least

\* So has a bounded one a greatest.
LEMMA GreatestExists ==
  ASSUME NEW n \in Nat, NEW S \in SUBSET (0..n), S # {}
  PROVE  Greatest(S) \in S /\ \A y \in S : y <= Greatest(S)
<1> DEFINE M == {n - x : x \in S}
<1>1. M \in SUBSET Nat /\ M # {}
  <2>1. \A x \in S : n - x \in Nat
    OBVIOUS
  <2>. QED
    BY <2>1
<1>2. Least(M) \in M /\ \A y \in M : Least(M) <= y
  BY <1>1, LeastExists
<1>3. PICK x \in S : Least(M) = n - x
  BY <1>2
<1>4. \A y \in S : y <= x
  BY <1>2, <1>3
<1>. QED
  BY <1>4 DEF Greatest

\* A set that holds 0, and n + 1 with every n, holds every natural.
LEMMA InductionOnNat ==
  ASSUME NEW S \in SUBSET Nat, 0 \in S, \A n \in S : n + 1 \in S
  PROVE  S = Nat
<1>. SUFFICES ASSUME Nat \ S # {}  PROVE  FALSE
  OBVIOUS
<1> DEFINE m == Least(Nat \ S)
<1>1. m \in Nat \ S /\ \A y \in Nat \ S : m <= y
  BY LeastExists
<1>. HIDE DEF m
<1>2. m # 0 /\ m - 1 \in Nat /\ ~(m <= m - 1)
  BY <1>1
<1>3. m - 1 \in S
  BY <1>1, <1>2
<1>4. (m - 1) + 1 \in S
  BY <1>3
<1>. QED
  BY <1>1, <1>4

\* What holds at the end, and at a position when it holds at all later ones, holds at all.
LEMMA InductionFromTheEnd ==
  ASSUME NEW N \in Nat, NEW S \in SUBSET (0..N), N \in S,
         \A i \in 0..N - 1 : i + 1..N \in SUBSET S => i \in S
  PROVE  S = 0..N
<1>. SUFFICES ASSUME (0..N) \ S # {}  PROVE  FALSE
  OBVIOUS
<1> DEFINE g == Greatest((0..N) \ S)
<1>1. g \in (0..N) \ S /\ \A y \in (0..N) \ S : y <= g
  BY GreatestExists
<1>. HIDE DEF g
<1>2. g \in 0..N - 1
  BY <1>1
<1>3. \A y \in g + 1..N : y \in 0..N /\ ~(y <= g)
  BY <1>1
<1>4. g + 1..N \in SUBSET S
  BY <1>1, <1>3
<1>. QED
  BY <1>1, <1>2, <1>4

-----------------------------------------------------------------------------
(* Functions on 0..N given by their first value and a step.                *)

Follows(f, N, a, step) ==
  f[0] = a /\ \A n \in 1..N : f[n] = step[n][f[n - 1]]

LEMMA RecursionExists ==
  ASSUME NEW T, NEW N \in Nat, NEW a \in T, NEW step \in [1..N -> [T -> T]]
  PROVE  \E f \in [0..N -> T] : Follows(f, N, a, step)
<1> DEFINE S == {m \in Nat : m <= N => \E f \in [0..m -> T] : Follows(f, m, a, step)}
<1>1. 0 \in S
  <2>1. [n \in 0..0 |-> a] \in [0..0 -> T] /\ Follows([n \in 0..0 |-> a], 0, a, step)
    BY DEF Follows
  <2>. QED
    BY <2>1
<1>2. ASSUME NEW m \in S  PROVE  m + 1 \in S
  <2>1. SUFFICES ASSUME m + 1 <= N
                 PROVE  \E f \in [0..m + 1 -> T] : Follows(f, m + 1, a, step)
    OBVIOUS
  <2>2. m \in Nat /\ m <= N
    BY <2>1
  <2>3. PICK f \in [0..m -> T] : Follows(f, m, a, step)
    BY <2>2
  <2> DEFINE g == [n \in 0..m + 1 |-> IF n = m + 1 THEN step[m + 1][f[m]] ELSE f[n]]
  <2>4. step[m + 1][f[m]] \in T
    BY <2>1, <2>2
  <2>5. g \in [0..m + 1 -> T]
    BY <2>2, <2>4
  <2>6. g[0] = a
    BY <2>2, <2>3 DEF Follows
  <2>7. ASSUME NEW n \in 1..m + 1  PROVE  g[n] = step[n][g[n - 1]]
    <3>1. CASE n = m + 1
      BY <2>2, <3>1
    <3>2. CASE n # m + 1
      <4>1. n \in 1..m /\ n - 1 \in 0..m /\ n - 1 # m + 1
        BY <2>2, <3>2
      <4>. QED
        BY <2>2, <2>3, <3>2, <4>1 DEF Follows
    <3>. QED
      BY <3>1, <3>2
  <2>. HIDE DEF g
  <2>. QED
    BY <2>5, <2>6, <2>7 DEF Follows
<1>3. S = Nat
  <2>. HIDE DEF S
  <2>1. S \in SUBSET Nat
    BY DEF S
  <2>. QED
    BY <1>1, <1>2, <2>1, InductionOnNat
<1>4. N \in S
  BY <1>3
<1>. QED
  BY <1>4

LEMMA RecursionTyped ==
  ASSUME NEW T, NEW N \in Nat, NEW f, DOMAIN f = 0..N, f = [n \in 0..N |-> f[n]],
         f[0] \in T, \A n \in 1..N : f[n - 1] \in T => f[n] \in T
  PROVE  f \in [0..N -> T]
<1> DEFINE S == {m \in Nat : m <= N => f[m] \in T}
<1>1. 0 \in S
  OBVIOUS
<1>2. ASSUME NEW m \in S  PROVE  m + 1 \in S
  <2>1. CASE m + 1 <= N
    <3>1. m \in Nat /\ m + 1 \in 1..N /\ (m + 1) - 1 = m /\ f[m] \in T
      BY <2>1
    <3>. QED
      BY <3>1
  <2>2. CASE ~(m + 1 <= N)
    BY <2>2
  <2>. QED
    BY <2>1, <2>2
<1>3. S = Nat
  <2>. HIDE DEF S
  <2>1. S \in SUBSET Nat
    BY DEF S
  <2>. QED
    BY <1>1, <1>2, <2>1, InductionOnNat
<1>4. \A n \in 0..N : f[n] \in T
  BY <1>3
<1>. QED
  BY <1>4

-----------------------------------------------------------------------------
\* A function that tells the elements of a finite set apart has as many values.
LEMMA ImageSize ==
  ASSUME NEW S, IsFiniteSet(S), NEW f, DOMAIN f = S, f = [x \in S |-> f[x]],
         \A x, y \in S : f[x] = f[y] => x = y
  PROVE  /\ IsFiniteSet({f[x] : x \in S})
         /\ Cardinality({f[x] : x \in S}) = Cardinality(S)
<1> DEFINE T == {f[x] : x \in S}
<1>1. f \in [S -> T]
  OBVIOUS
<1>2. f \in Surjection(S, T) /\ f \in Injection(S, T)
  BY <1>1 DEF Surjection, Injection, IsInjective
<1>. QED
  BY <1>2, FS_Surjection

-----------------------------------------------------------------------------
(* The order of a finite set of integers.                                  *)

Rank(S, x) == Cardinality({y \in S : y < x})

LEMMA RankGrows ==
  ASSUME NEW S \in SUBSET Int, IsFiniteSet(S), NEW x \in S, NEW y \in S, x < y
  PROVE  Rank(S, x) < Rank(S, y)
<1> DEFINE A == {z \in S : z < x}
           B == {z \in S : z < y}
<1>1. A \in SUBSET B /\ x \in B /\ x \notin A
  <2>1. \A z \in S : z < x => z < y
    OBVIOUS
  <2>2. ~(x < x)
    OBVIOUS
  <2>. QED
    BY <2>1, <2>2
<1>2. IsFiniteSet(B) /\ IsFiniteSet(A)
  BY FS_Subset
<1>3. Cardinality(A) <= Cardinality(B) /\ Cardinality(A) # Cardinality(B)
  BY <1>1, <1>2, FS_Subset
<1>4. Cardinality(A) \in Nat /\ Cardinality(B) \in Nat
  BY <1>2, FS_CardinalityType
<1>. QED
  BY <1>3, <1>4 DEF Rank

LEMMA RankInRange ==
  ASSUME NEW S \in SUBSET Int, IsFiniteSet(S), NEW x \in S
  PROVE  Rank(S, x) \in Nat /\ Rank(S, x) < Cardinality(S)
<1> DEFINE A == {z \in S : z < x}
<1>1. A \in SUBSET S /\ x \notin A
  OBVIOUS
<1>2. IsFiniteSet(A) /\ Cardinality(A) <= Cardinality(S) /\ Cardinality(A) # Cardinality(S)
  BY <1>1, FS_Subset
<1>3. Cardinality(A) \in Nat /\ Cardinality(S) \in Nat
  BY <1>2, FS_CardinalityType
<1>. QED
  BY <1>2, <1>3 DEF Rank

LEMMA RankDiffers ==
  ASSUME NEW S \in SUBSET Int, IsFiniteSet(S), NEW x \in S, NEW y \in S, Rank(S, x) = Rank(S, y)
  PROVE  x = y
<1>1. x < y \/ y < x \/ x = y
  OBVIOUS
<1>2. Rank(S, x) \in Nat
  BY RankInRange
<1>3. x < y => Rank(S, x) < Rank(S, y)
  BY RankGrows
<1>4. y < x => Rank(S, y) < Rank(S, x)
  BY RankGrows
<1>. QED
  BY <1>1, <1>2, <1>3, <1>4

LEMMA RankTaken ==
  ASSUME NEW S \in SUBSET Int, IsFiniteSet(S), NEW n \in 1..Cardinality(S)
  PROVE  \E x \in S : Rank(S, x) = n - 1
<1> DEFINE c == Cardinality(S)
           f == [x \in S |-> Rank(S, x) + 1]
<1>1. c \in Nat
  BY FS_CardinalityType
<1>2. \A x \in S : f[x] \in 1..c
  BY <1>1, RankInRange
<1>3. \A x, y \in S : f[x] = f[y] => x = y
  <2>1. TAKE x, y \in S
  <2>2. Rank(S, x) \in Nat /\ Rank(S, y) \in Nat
    BY RankInRange
  <2>. QED
    BY <2>2, RankDiffers
<1>. HIDE DEF f
<1>4. f \in Injection(S, 1..c)
  <2>1. f \in [S -> 1..c]
    BY <1>2 DEF f
  <2>. QED
    BY <1>3, <2>1 DEF Injection, IsInjective
<1>5. IsFiniteSet(1..c) /\ Cardinality(1..c) = c
  BY <1>1, FS_Interval
<1>6. f \in Surjection(S, 1..c)
  BY <1>4, <1>5, FS_Injection
<1>7. PICK x \in S : f[x] = n
  BY <1>6 DEF Surjection
<1>8. Rank(S, x) \in Nat
  BY RankInRange
<1>. QED
  BY <1>7, <1>8 DEF f

LEMMA OrderedIs ==
  ASSUME NEW S \in SUBSET Int, IsFiniteSet(S)
  PROVE  /\ Ordered(S) \in Seq(S) /\ Len(Ordered(S)) = Cardinality(S)
         /\ \A n \in 1..Cardinality(S) : Ordered(S)[n] \in S /\ Rank(S, Ordered(S)[n]) = n - 1
         /\ \A x \in S : Ordered(S)[Rank(S, x) + 1] = x
<1>1. Cardinality(S) \in Nat
  BY FS_CardinalityType
<1>2. ASSUME NEW n \in 1..Cardinality(S)
      PROVE  Ordered(S)[n] \in S /\ Rank(S, Ordered(S)[n]) = n - 1
  <2>1. \E x \in S : Cardinality({y \in S : y < x}) = n - 1
    BY RankTaken DEF Rank
  <2>2. Ordered(S)[n] = CHOOSE x \in S : Cardinality({y \in S : y < x}) = n - 1
    BY DEF Ordered
  <2>. QED
    BY <2>1, <2>2 DEF Rank
<1>3. Ordered(S) \in [1..Cardinality(S) -> S]
  BY <1>2 DEF Ordered
<1>4. Ordered(S) \in Seq(S) /\ Len(Ordered(S)) = Cardinality(S)
  BY <1>1, <1>3
<1>5. ASSUME NEW x \in S  PROVE  Ordered(S)[Rank(S, x) + 1] = x
  <2>1. Rank(S, x) \in Nat /\ Rank(S, x) + 1 \in 1..Cardinality(S)
    BY <1>1, RankInRange
  <2>2. PICK y : y = Ordered(S)[Rank(S, x) + 1]
    OBVIOUS
  <2>3. y \in S /\ Rank(S, y) = Rank(S, x)
    BY <1>2, <2>1, <2>2
  <2>4. y = x
    BY <2>3, RankDiffers
  <2>. QED
    BY <2>2, <2>4
<1>. QED
  BY <1>2, <1>4, <1>5

\* A number above all others comes last.
LEMMA OrderedTop ==
  ASSUME NEW B \in SUBSET Int, IsFiniteSet(B), NEW a \in Int, \A x \in B : x < a
  PROVE  /\ B \cup {a} \in SUBSET Int /\ IsFiniteSet(B \cup {a})
         /\ Cardinality(B) \in Nat /\ Cardinality(B \cup {a}) = Cardinality(B) + 1
         /\ \A n \in 1..Cardinality(B) : Ordered(B)[n] \in B /\ Ordered(B \cup {a})[n] = Ordered(B)[n]
         /\ Ordered(B \cup {a})[Cardinality(B) + 1] = a
<1> DEFINE S == B \cup {a}
<1>1. a \notin B /\ S \in SUBSET Int
  OBVIOUS
<1>2. IsFiniteSet(S) /\ Cardinality(S) = Cardinality(B) + 1 /\ Cardinality(B) \in Nat
  BY <1>1, FS_AddElement, FS_CardinalityType
<1>3. ASSUME NEW x \in B  PROVE  Rank(S, x) = Rank(B, x)
  <2>1. x \in Int /\ ~(a < x)
    OBVIOUS
  <2>2. {y \in S : y < x} = {y \in B : y < x}
    BY <2>1
  <2>. QED
    BY <2>2 DEF Rank
<1>4. Rank(S, a) = Cardinality(B)
  <2>1. ~(a < a)
    OBVIOUS
  <2>2. {y \in S : y < a} = B
    BY <2>1
  <2>. QED
    BY <2>2 DEF Rank
<1>5. a \in S /\ B \in SUBSET S
  OBVIOUS
<1>. HIDE DEF S
<1>6. ASSUME NEW n \in 1..Cardinality(B)
      PROVE  Ordered(B)[n] \in B /\ Ordered(S)[n] = Ordered(B)[n]
  <2>1. PICK x : x = Ordered(B)[n]
    OBVIOUS
  <2>2. x \in B /\ Rank(B, x) = n - 1
    BY <2>1, OrderedIs
  <2>3. Ordered(S)[Rank(S, x) + 1] = x
    BY <1>1, <1>2, <1>5, <2>2, OrderedIs
  <2>4. Rank(S, x) + 1 = n
    BY <1>2, <1>3, <2>2
  <2>. QED
    BY <2>1, <2>2, <2>3, <2>4
<1>7. Ordered(S)[Rank(S, a) + 1] = a
  BY <1>1, <1>2, <1>5, OrderedIs
<1>. QED
  BY <1>1, <1>2, <1>4, <1>6, <1>7 DEF S

LEMMA AtPositionsIs ==
  ASSUME NEW T, NEW s \in Seq(T), NEW S \in SUBSET (DOMAIN s)
  PROVE  /\ IsFiniteSet(S) /\ S \in SUBSET Nat /\ Cardinality(S) \in Nat
         /\ AtPositions(s, S) \in Seq(T) /\ Len(AtPositions(s, S)) = Cardinality(S)
         /\ \A n \in 1..Cardinality(S) : \E k \in S : AtPositions(s, S)[n] = s[k]
         /\ \A k \in S : /\ Rank(S, k) + 1 \in 1..Cardinality(S)
                         /\ AtPositions(s, S)[Rank(S, k) + 1] = s[k]
<1>1. DOMAIN s = 1..Len(s) /\ Len(s) \in Nat
  OBVIOUS
<1>2. IsFiniteSet(S) /\ S \in SUBSET Nat
  <2>1. IsFiniteSet(1..Len(s))
    BY <1>1, FS_Interval
  <2>. QED
    BY <1>1, <2>1, FS_Subset
<1>3. Cardinality(S) \in Nat
  BY <1>2, FS_CardinalityType
<1>4. /\ \A n \in 1..Cardinality(S) : Ordered(S)[n] \in S
      /\ \A x \in S : Ordered(S)[Rank(S, x) + 1] = x
  BY <1>2, OrderedIs
<1>5. \A n \in 1..Cardinality(S) : AtPositions(s, S)[n] = s[Ordered(S)[n]]
  BY DEF AtPositions
<1>6. \A k \in S : s[k] \in T
  BY <1>1
<1>7. AtPositions(s, S) \in [1..Cardinality(S) -> T]
  BY <1>4, <1>6 DEF AtPositions
<1>8. AtPositions(s, S) \in Seq(T) /\ Len(AtPositions(s, S)) = Cardinality(S)
  BY <1>3, <1>7
<1>9. \A k \in S : Rank(S, k) + 1 \in 1..Cardinality(S)
  BY <1>2, <1>3, RankInRange
<1>. QED
  BY <1>2, <1>3, <1>4, <1>5, <1>8, <1>9
LEMMA AtPositionsAgree ==
  ASSUME NEW s, NEW t, NEW S \in SUBSET Int, IsFiniteSet(S), \A k \in S : s[k] = t[k]
  PROVE  AtPositions(s, S) = AtPositions(t, S)
<1>1. \A n \in 1..Cardinality(S) : Ordered(S)[n] \in S
  BY OrderedIs
<1>. QED
  BY <1>1 DEF AtPositions

LEMMA AtNoPositions == ASSUME NEW s PROVE AtPositions(s, {}) = << >>
<1>1. Cardinality({}) = 0
  BY FS_EmptySet
<1>2. AtPositions(s, {}) = [n \in 1..0 |-> s[Ordered({})[n]]]
  BY <1>1 DEF AtPositions
<1>. QED
  BY <1>2

-----------------------------------------------------------------------------
(* Joining.                                                                *)

LEMMA JoinedUpToIs ==
  ASSUME NEW T, NEW ss \in Seq(Seq(T))
  PROVE  /\ JoinedUpTo(ss) \in [0..Len(ss) -> Seq(T)]
         /\ JoinedUpTo(ss)[0] = << >>
         /\ \A n \in 1..Len(ss) : JoinedUpTo(ss)[n] = JoinedUpTo(ss)[n - 1] \o ss[n]
<1> DEFINE N == Len(ss)
           step == [n \in 1..N |-> [x \in Seq(T) |-> x \o ss[n]]]
           Joins(g) == g = [n \in 0..N |-> IF n = 0 THEN << >> ELSE g[n - 1] \o ss[n]]
<1>1. N \in Nat /\ << >> \in Seq(T) /\ \A n \in 1..N : ss[n] \in Seq(T)
  OBVIOUS
<1>2. step \in [1..N -> [Seq(T) -> Seq(T)]]
  BY <1>1
<1>3. PICK f \in [0..N -> Seq(T)] : Follows(f, N, << >>, step)
  <2>. HIDE DEF step, N
  <2>. QED
    BY <1>1, <1>2, RecursionExists
<1>4. ASSUME NEW n \in 1..N  PROVE  n - 1 \in 0..N /\ f[n] = f[n - 1] \o ss[n]
  <2>1. n - 1 \in 0..N
    BY <1>1
  <2>2. f[n - 1] \in Seq(T)
    BY <1>3, <2>1
  <2>3. f[n] = step[n][f[n - 1]]
    BY <1>3 DEF Follows
  <2>. QED
    BY <2>1, <2>2, <2>3
<1>5. f[0] = << >>
  BY <1>3 DEF Follows
<1>6. Joins(f)
  <2>1. ASSUME NEW n \in 0..N  PROVE  f[n] = IF n = 0 THEN << >> ELSE f[n - 1] \o ss[n]
    <3>1. n = 0 \/ n \in 1..N
      BY <1>1
    <3>2. CASE n = 0
      BY <1>5, <3>2
    <3>3. CASE n \in 1..N
      <4>1. n # 0
        BY <1>1, <3>3
      <4>2. f[n] = f[n - 1] \o ss[n]
        BY <1>4, <3>3
      <4>. QED
        BY <4>1, <4>2
    <3>. QED
      BY <3>1, <3>2, <3>3
  <2>. HIDE DEF N
  <2>. QED
    BY <2>1
<1>7. JoinedUpTo(ss) = CHOOSE g : Joins(g)
  BY DEF JoinedUpTo
<1>8. Joins(JoinedUpTo(ss))
  <2>. HIDE DEF Joins
  <2>. QED
    BY <1>6, <1>7
<1> DEFINE j == JoinedUpTo(ss)
<1>9. j = [n \in 0..N |-> IF n = 0 THEN << >> ELSE j[n - 1] \o ss[n]]
  BY <1>8, Zenon
<1>. HIDE DEF j
<1>10. /\ DOMAIN j = 0..N /\ j = [n \in 0..N |-> j[n]]
       /\ j[0] = << >>
       /\ \A n \in 1..N : j[n] = j[n - 1] \o ss[n]
  <2>1. DOMAIN j = 0..N
    BY <1>9
  <2>2. j = [n \in 0..N |-> j[n]]
    BY <1>9, <2>1
  <2>3. \A n \in 0..N : j[n] = IF n = 0 THEN << >> ELSE j[n - 1] \o ss[n]
    BY <1>9
  <2>4. \A n \in 1..N : n \in 0..N /\ n # 0
    BY <1>1
  <2>5. \A n \in 1..N : j[n] = j[n - 1] \o ss[n]
    BY <2>3, <2>4
  <2>6. 0 \in 0..N
    BY <1>1
  <2>7. j[0] = << >>
    BY <2>3, <2>6
  <2>. QED
    BY <2>1, <2>2, <2>5, <2>7
<1>11. j \in [0..N -> Seq(T)]
  <2>1. ASSUME NEW n \in 1..N, j[n - 1] \in Seq(T)  PROVE  j[n] \in Seq(T)
    <3>1. ss[n] \in Seq(T) /\ j[n] = j[n - 1] \o ss[n]
      BY <1>1, <1>10
    <3>. QED
      BY <2>1, <3>1, ConcatProperties
  <2>. HIDE DEF N
  <2>. QED
    BY <1>1, <1>10, <2>1, RecursionTyped
<1>. QED
  BY <1>10, <1>11 DEF j

LEMMA JoinedIsSeq ==
  ASSUME NEW T, NEW ss \in Seq(Seq(T))
  PROVE  Joined(ss) \in Seq(T)
<1>1. Len(ss) \in 0..Len(ss)
  OBVIOUS
<1>. QED
  BY <1>1, JoinedUpToIs DEF Joined

LEMMA JoinedAgree ==
  ASSUME NEW T, NEW ss \in Seq(Seq(T)), NEW tt \in Seq(Seq(T)), NEW N \in Nat,
         N <= Len(ss), N <= Len(tt), \A n \in 1..N : ss[n] = tt[n]
  PROVE  JoinedUpTo(ss)[N] = JoinedUpTo(tt)[N]
<1> DEFINE f == JoinedUpTo(ss)
           g == JoinedUpTo(tt)
           S == {m \in Nat : m <= N => f[m] = g[m]}
<1>1. /\ f[0] = g[0]
      /\ \A n \in 1..Len(ss) : f[n] = f[n - 1] \o ss[n]
      /\ \A n \in 1..Len(tt) : g[n] = g[n - 1] \o tt[n]
  BY JoinedUpToIs
<1>. HIDE DEF f, g
<1>2. 0 \in S
  BY <1>1
<1>3. ASSUME NEW m \in S  PROVE  m + 1 \in S
  <2>1. SUFFICES ASSUME m + 1 <= N  PROVE  f[m + 1] = g[m + 1]
    BY <1>3
  <2>2. m \in Nat /\ f[m] = g[m] /\ (m + 1) - 1 = m
    BY <2>1
  <2>3. m + 1 \in 1..N /\ m + 1 \in 1..Len(ss) /\ m + 1 \in 1..Len(tt)
    BY <2>1, <2>2
  <2>. QED
    BY <1>1, <2>2, <2>3
<1>4. S = Nat
  <2>1. S \in SUBSET Nat
    OBVIOUS
  <2>. HIDE DEF S
  <2>. QED
    BY <1>2, <1>3, <2>1, InductionOnNat
<1>5. f[N] = g[N]
  BY <1>4
<1>. QED
  BY <1>5 DEF f, g

LEMMA JoinedOfNothing == Joined(<< >>) = << >>
<1>1. << >> \in Seq(Seq({})) /\ Len(<< >>) = 0
  OBVIOUS
<1>. QED
  BY <1>1, JoinedUpToIs DEF Joined

LEMMA JoinedOfAppend ==
  ASSUME NEW T, NEW ss \in Seq(Seq(T)), NEW s \in Seq(T)
  PROVE  Joined(Append(ss, s)) = Joined(ss) \o s
<1> DEFINE tt == Append(ss, s)
<1>1. /\ tt \in Seq(Seq(T)) /\ Len(tt) = Len(ss) + 1 /\ tt[Len(tt)] = s /\ Len(ss) \in Nat
      /\ \A n \in 1..Len(ss) : ss[n] = tt[n]
  OBVIOUS
<1>. HIDE DEF tt
<1>2. JoinedUpTo(ss)[Len(ss)] = JoinedUpTo(tt)[Len(ss)]
  <2>1. Len(ss) <= Len(ss) /\ Len(ss) <= Len(tt)
    BY <1>1
  <2>. QED
    BY <1>1, <2>1, JoinedAgree
<1>3. JoinedUpTo(tt)[Len(tt)] = JoinedUpTo(tt)[Len(tt) - 1] \o tt[Len(tt)]
  <2>1. Len(tt) \in 1..Len(tt)
    BY <1>1
  <2>. QED
    BY <1>1, <2>1, JoinedUpToIs
<1>4. Len(tt) - 1 = Len(ss)
  BY <1>1
<1>. QED
  BY <1>1, <1>2, <1>3, <1>4 DEF Joined, tt

LEMMA ConcatIs ==
  ASSUME NEW T, NEW s \in Seq(T), NEW h \in Seq(T)
  PROVE  /\ s \o h \in Seq(T) /\ Len(s) \in Nat /\ Len(h) \in Nat /\ Len(s \o h) = Len(s) + Len(h)
         /\ \A k \in 1..Len(s) : k \in 1..Len(s \o h) /\ (s \o h)[k] = s[k]
         /\ \A k \in 1..Len(h) : Len(s) + k \in 1..Len(s \o h) /\ (s \o h)[Len(s) + k] = h[k]
         /\ \A k \in 1..Len(s \o h) : k \in 1..Len(s) \/ \E j \in 1..Len(h) : k = Len(s) + j
<1>1. /\ s \o h \in Seq(T) /\ Len(s) \in Nat /\ Len(h) \in Nat /\ Len(s \o h) = Len(s) + Len(h)
      /\ \A i \in 1..Len(s) + Len(h) : (s \o h)[i] = IF i <= Len(s) THEN s[i] ELSE h[i - Len(s)]
  BY ConcatProperties
<1>2. \A k \in 1..Len(s) : k \in 1..Len(s) + Len(h) /\ k <= Len(s)
  BY <1>1
<1>3. \A k \in 1..Len(h) : Len(s) + k \in 1..Len(s) + Len(h) /\ ~(Len(s) + k <= Len(s)) /\ Len(s) + k - Len(s) = k
  BY <1>1
<1>4. ASSUME NEW k \in 1..Len(s) + Len(h)  PROVE  k \in 1..Len(s) \/ \E j \in 1..Len(h) : k = Len(s) + j
  <2>1. CASE k <= Len(s)
    BY <1>1, <2>1
  <2>2. CASE ~(k <= Len(s))
    <3>1. k - Len(s) \in 1..Len(h) /\ k = Len(s) + (k - Len(s))
      BY <1>1, <2>2
    <3>. QED
      BY <3>1
  <2>. QED
    BY <2>1, <2>2
<1>. QED
  BY <1>1, <1>2, <1>3, <1>4

\* Three sequences joined from the left or from the right.
Regroups(s, t, u) == (s \o t) \o u = s \o (t \o u)

LEMMA ConcatRegroups ==
  ASSUME NEW T, NEW s \in Seq(T), NEW t \in Seq(T), NEW u \in Seq(T)
  PROVE  Regroups(s, t, u)
BY ConcatAssociative DEF Regroups

LEMMA ConcatAppend ==
  ASSUME NEW T, NEW s \in Seq(T), NEW t \in Seq(T), NEW x \in T
  PROVE  s \o t \in Seq(T) /\ s \o Append(t, x) = Append(s \o t, x)
<1>1. <<x>> \in Seq(T) /\ s \o t \in Seq(T) /\ Append(t, x) = t \o <<x>>
  OBVIOUS
<1>2. s \o (t \o <<x>>) = (s \o t) \o <<x>>
  BY <1>1, ConcatRegroups DEF Regroups
<1>3. Append(s \o t, x) = (s \o t) \o <<x>>
  BY <1>1, AppendIsConcat
<1>. QED
  BY <1>1, <1>2, <1>3

LEMMA JoinedOfConcat ==
  ASSUME NEW T, NEW ss \in Seq(Seq(T)), NEW tt \in Seq(Seq(T))
  PROVE  Joined(ss \o tt) = Joined(ss) \o Joined(tt)
<1> DEFINE part(m) == SubSeq(tt, 1, m)
           S == {m \in Nat : m <= Len(tt) => Joined(ss \o part(m)) = Joined(ss) \o Joined(part(m))}
<1>1. 0 \in S
  <2>1. part(0) = << >> /\ ss \o << >> = ss
    OBVIOUS
  <2>2. Joined(ss) \in Seq(T)
    BY JoinedIsSeq
  <2>3. Joined(ss) \o << >> = Joined(ss)
    BY <2>2
  <2>. QED
    BY <2>1, <2>3, JoinedOfNothing
<1>2. ASSUME NEW m \in S  PROVE  m + 1 \in S
  <2>1. SUFFICES ASSUME m + 1 <= Len(tt)
                 PROVE  Joined(ss \o part(m + 1)) = Joined(ss) \o Joined(part(m + 1))
    BY <1>2
  <2>2. m \in Nat /\ m + 1 \in 1..Len(tt)
    BY <2>1
  <2>3. part(m) \in Seq(Seq(T)) /\ part(m + 1) = Append(part(m), tt[m + 1]) /\ tt[m + 1] \in Seq(T)
    BY <2>2
  <2>4. Joined(ss \o part(m)) = Joined(ss) \o Joined(part(m))
    BY <1>2, <2>1, <2>2
  <2>. HIDE DEF part
  <2>5. ss \o part(m) \in Seq(Seq(T)) /\ ss \o part(m + 1) = Append(ss \o part(m), tt[m + 1])
    <3> DEFINE U == Seq(T)
    <3>1. ss \in Seq(U) /\ part(m) \in Seq(U) /\ tt[m + 1] \in U
      BY <2>3
    <3>. HIDE DEF U
    <3>2. ss \o part(m) \in Seq(U) /\ ss \o Append(part(m), tt[m + 1]) = Append(ss \o part(m), tt[m + 1])
      BY <3>1, ConcatAppend
    <3>. QED
      BY <2>3, <3>2 DEF U
  <2>6. Joined(ss \o part(m + 1)) = Joined(ss \o part(m)) \o tt[m + 1]
    BY <2>3, <2>5, JoinedOfAppend
  <2>7. Joined(part(m + 1)) = Joined(part(m)) \o tt[m + 1]
    BY <2>3, JoinedOfAppend
  <2>8. Joined(ss) \in Seq(T) /\ Joined(part(m)) \in Seq(T)
    BY <2>3, JoinedIsSeq
  <2>9. (Joined(ss) \o Joined(part(m))) \o tt[m + 1] = Joined(ss) \o (Joined(part(m)) \o tt[m + 1])
    <3>1. tt[m + 1] \in Seq(T)
      BY <2>3
    <3>2. Regroups(Joined(ss), Joined(part(m)), tt[m + 1])
      BY <2>8, <3>1, ConcatRegroups
    <3>. QED
      BY <3>2 DEF Regroups
  <2>. QED
    BY <2>4, <2>6, <2>7, <2>9
<1>3. S = Nat
  <2>1. S \in SUBSET Nat
    OBVIOUS
  <2>. HIDE DEF S
  <2>. QED
    BY <1>1, <1>2, <2>1, InductionOnNat
<1>4. Len(tt) \in Nat /\ part(Len(tt)) = tt
  OBVIOUS
<1>5. Joined(ss \o part(Len(tt))) = Joined(ss) \o Joined(part(Len(tt)))
  BY <1>3, <1>4
<1>. QED
  BY <1>4, <1>5

LEMMA JoinedOfEmpties ==
  ASSUME NEW ss \in Seq({<< >>})
  PROVE  Joined(ss) = << >>
<1> DEFINE f == JoinedUpTo(ss)
           S == {m \in Nat : m <= Len(ss) => f[m] = << >>}
<1>1. ss \in Seq(Seq({})) /\ Len(ss) \in Nat /\ \A n \in 1..Len(ss) : ss[n] = << >>
  <2>1. ss \in [1..Len(ss) -> {<< >>}] /\ Len(ss) \in Nat
    BY LenProperties
  <2>2. << >> \in Seq({})
    OBVIOUS
  <2>3. ss \in [1..Len(ss) -> Seq({})]
    BY <2>1, <2>2
  <2>4. ss \in Seq(Seq({}))
    BY <2>1, <2>3
  <2>. QED
    BY <2>1, <2>4
<1>2. f[0] = << >> /\ \A n \in 1..Len(ss) : f[n] = f[n - 1] \o ss[n]
  BY <1>1, JoinedUpToIs
<1>. HIDE DEF f
<1>3. 0 \in S
  BY <1>2
<1>4. ASSUME NEW m \in S  PROVE  m + 1 \in S
  <2>1. SUFFICES ASSUME m + 1 <= Len(ss)  PROVE  f[m + 1] = << >>
    BY <1>4
  <2>2. m \in Nat /\ f[m] = << >> /\ (m + 1) - 1 = m /\ m + 1 \in 1..Len(ss)
    BY <2>1
  <2>3. << >> \o << >> = << >>
    OBVIOUS
  <2>. QED
    BY <1>1, <1>2, <2>2, <2>3
<1>5. S = Nat
  <2>1. S \in SUBSET Nat
    OBVIOUS
  <2>. HIDE DEF S
  <2>. QED
    BY <1>3, <1>4, <2>1, InductionOnNat
<1>. QED
  BY <1>1, <1>5 DEF Joined, f

\* All is in one of them.
LEMMA JoinedOfOnly ==
  ASSUME NEW T, NEW ss \in Seq(Seq(T)), NEW m \in 1..Len(ss), \A n \in 1..Len(ss) : n # m => ss[n] = << >>
  PROVE  Joined(ss) = ss[m]
<1> DEFINE f == JoinedUpTo(ss)
           S == {n \in Nat : n <= Len(ss) => f[n] = IF n < m THEN << >> ELSE ss[m]}
<1>1. Len(ss) \in Nat /\ m \in Nat /\ m >= 1 /\ m <= Len(ss) /\ ss[m] \in Seq(T)
  OBVIOUS
<1>2. f[0] = << >> /\ \A n \in 1..Len(ss) : f[n] = f[n - 1] \o ss[n]
  BY JoinedUpToIs
<1>. HIDE DEF f
<1>3. 0 \in S
  BY <1>1, <1>2
<1>4. ASSUME NEW n \in S  PROVE  n + 1 \in S
  <2>1. SUFFICES ASSUME n + 1 <= Len(ss)  PROVE  f[n + 1] = IF n + 1 < m THEN << >> ELSE ss[m]
    BY <1>4
  <2>2. n \in Nat /\ n + 1 \in 1..Len(ss) /\ (n + 1) - 1 = n
    BY <1>1, <2>1
  <2>3. f[n] = (IF n < m THEN << >> ELSE ss[m]) /\ f[n + 1] = f[n] \o ss[n + 1]
    <3>1. n <= Len(ss)
      BY <1>1, <2>1, <2>2
    <3>2. f[n] = IF n < m THEN << >> ELSE ss[m]
      BY <1>4, <3>1
    <3>3. f[n + 1] = f[(n + 1) - 1] \o ss[n + 1]
      BY <1>2, <2>2
    <3>. QED
      BY <2>2, <3>2, <3>3
  <2>4. << >> \o << >> = << >> /\ ss[m] \o << >> = ss[m] /\ << >> \o ss[m] = ss[m]
    BY <1>1
  <2>5. CASE n + 1 < m
    <3>1. n + 1 # m /\ n < m
      BY <1>1, <2>2, <2>5
    <3>. QED
      BY <2>2, <2>3, <2>4, <2>5, <3>1
  <2>6. CASE n + 1 = m
    <3>1. n < m /\ ~(n + 1 < m)
      BY <1>1, <2>2, <2>6
    <3>. QED
      BY <2>3, <2>4, <2>6, <3>1
  <2>7. CASE ~(n + 1 < m) /\ n + 1 # m
    <3>1. ~(n < m)
      BY <1>1, <2>2, <2>7
    <3>2. ss[n + 1] = << >>
      BY <2>2, <2>7
    <3>. QED
      BY <2>3, <2>4, <2>7, <3>1, <3>2
  <2>. QED
    BY <2>5, <2>6, <2>7
<1>5. S = Nat
  <2>1. S \in SUBSET Nat
    OBVIOUS
  <2>. HIDE DEF S
  <2>. QED
    BY <1>3, <1>4, <2>1, InductionOnNat
<1>6. f[Len(ss)] = ss[m]
  <2>1. Len(ss) \in S
    BY <1>1, <1>5
  <2>2. ~(Len(ss) < m) /\ Len(ss) <= Len(ss)
    BY <1>1
  <2>. QED
    BY <2>1, <2>2
<1>. QED
  BY <1>6 DEF Joined, f
=============================================================================
