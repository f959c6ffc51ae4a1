---------------------------- MODULE TradingProofs ----------------------------
(***************************************************************************)
(* What a scan proposes and what the build makes of it: the signals of a   *)
(* scan are whole and add up to no more than the strategies may put on,    *)
(* for any feeds, answers and news; the risk limits hold for the sizes,    *)
(* and the allocations sum to the capital, for any candidates, factors and *)
(* limits.  Much of it is about sums over sets; the first part is what has *)
(* to be known of them.                                                    *)
(***************************************************************************)
EXTENDS Allocation, MarketScan, TLAPS, WellFoundedInduction, FiniteSetTheorems, SequenceTheorems

(***************************************************************************)
(* Sums.  Induction is over a set that is given: the library's theorems    *)
(* about induction take a predicate, and its well-founded orderings do not. *)
(***************************************************************************)
\* A set of naturals that holds zero and every successor of its members holds all.
LEMMA SetInduction ==
    ASSUME NEW S, S \subseteq Nat, 0 \in S, \A n \in S : n + 1 \in S
    PROVE  Nat \subseteq S
<1> DEFINE T == Nat \ S
           R == OpToRel(<, Nat)
<1>1. SUFFICES ASSUME T # {} PROVE FALSE
  OBVIOUS
<1>2. IsWellFoundedOn(R, Nat)
  BY NatLessThanWellFounded
<1>3. \A x, y \in Nat : y < x => <<y, x>> \in R
  BY DEF OpToRel
<1>4. PICK x \in T : \A y \in T : ~(<<y, x>> \in R)
  <2> HIDE DEF T, R
  <2>1. T \subseteq Nat
    BY DEF T
  <2> QED BY <1>1, <1>2, <2>1, WFMin
<1> HIDE DEF R
<1>5. x # 0 /\ x \in Nat /\ x - 1 \in Nat /\ x - 1 < x /\ x - 1 + 1 = x
  OBVIOUS
<1>6. x - 1 \in S
  BY <1>3, <1>4, <1>5
<1> QED BY <1>5, <1>6

\* What a sum is, with the fold it is made of.
LEMMA Unfold ==
    ASSUME NEW f, NEW S
    PROVE SumOf(f, S) = LET iter[s \in SUBSET S] ==
        IF s = {} THEN 0
        ELSE LET x == CHOOSE y \in s : TRUE
             IN  f[x] + iter[s \ {x}]
    IN iter[S]
BY DEF SumOf, SumFunctionOnSet, FoldFunctionOnSet, MapThenFoldSet

\* g sums f over every subset of U, whichever element is taken out first.
Sums(g, f, U) ==
  /\ g \in [SUBSET U -> Int]
  /\ g[{}] = 0
  /\ \A t \in SUBSET U : \A x \in t : g[t] = f[x] + g[t \ {x}]

\* By induction on the size: adding the two last elements in either order is the same.
LEMMA SumsExist ==
    ASSUME NEW U, IsFiniteSet(U), NEW f, \A x \in U : f[x] \in Int
    PROVE  \E g : Sums(g, f, U)
<1> DEFINE Upto(g, n) ==
      /\ g \in [SUBSET U -> Int]
      /\ g[{}] = 0
      /\ \A t \in SUBSET U : Cardinality(t) <= n => \A x \in t : g[t] = f[x] + g[t \ {x}]
    N == {n \in Nat : \E g : Upto(g, n)}
<1>1. \A t \in SUBSET U : IsFiniteSet(t) /\ Cardinality(t) \in Nat
  BY FS_Subset, FS_CardinalityType
<1>2. \A t \in SUBSET U : \A x \in t : Cardinality(t \ {x}) = Cardinality(t) - 1 /\ t \ {x} \in SUBSET U
  BY <1>1, FS_RemoveElement
<1>3. 0 \in N
  <2> DEFINE z == [t \in SUBSET U |-> 0]
  <2>1. \A t \in SUBSET U : Cardinality(t) <= 0 => t = {}
    BY <1>1, FS_EmptySet
  <2>2. Upto(z, 0)
    BY <2>1
  <2> QED BY <2>2
<1>4. \A n \in N : n + 1 \in N
  <2> TAKE n \in N
  <2>1. PICK g : Upto(g, n)
    OBVIOUS
  <2> DEFINE p(t) == CHOOSE x \in t : TRUE
             h == [t \in SUBSET U |-> IF Cardinality(t) <= n THEN g[t] ELSE f[p(t)] + g[t \ {p(t)}]]
  <2> HIDE DEF N
  <2>2. n \in Nat
    BY DEF N
  <2>3. \A t \in SUBSET U : t # {} => p(t) \in t /\ p(t) \in U /\ f[p(t)] \in Int
    OBVIOUS
  <2>4. \A t \in SUBSET U : ~(Cardinality(t) <= n) => t # {}
    BY <2>2, <1>1, FS_EmptySet
  <2> HIDE DEF p
  <2>5. h \in [SUBSET U -> Int]
    <3> SUFFICES ASSUME NEW t \in SUBSET U PROVE h[t] \in Int
      OBVIOUS
    <3>1. CASE Cardinality(t) <= n
      BY <2>1, <3>1
    <3>2. CASE ~(Cardinality(t) <= n)
      <4>1. p(t) \in t /\ f[p(t)] \in Int
        BY <2>3, <2>4, <3>2
      <4>2. g[t \ {p(t)}] \in Int
        BY <2>1
      <4> QED BY <3>2, <4>1, <4>2
    <3> QED BY <3>1, <3>2
  <2>6. h[{}] = 0
    BY <2>1, <2>2, FS_EmptySet
  <2>7. ASSUME NEW t \in SUBSET U, Cardinality(t) <= n + 1, NEW x \in t
        PROVE  h[t] = f[x] + h[t \ {x}]
    <3>1. Cardinality(t \ {x}) <= n /\ t \ {x} \in SUBSET U
      BY <1>1, <1>2, <2>7, <2>2
    <3>2. h[t \ {x}] = g[t \ {x}]
      BY <3>1
    <3>3. CASE Cardinality(t) <= n
      BY <2>1, <3>2, <3>3
    <3>4. CASE ~(Cardinality(t) <= n)
      <4> DEFINE q == p(t)
      <4>1. h[t] = f[q] + g[t \ {q}] /\ q \in t
        BY <2>3, <2>4, <3>4
      <4>2. CASE q = x
        BY <4>1, <4>2, <3>2
      <4>3. CASE q # x
        <5> DEFINE a == t \ {q}
                   b == t \ {x}
                   c == t \ {q, x}
        <5>1. a \in SUBSET U /\ Cardinality(a) <= n /\ x \in a /\ a \ {x} = c
          BY <4>1, <4>3, <1>1, <1>2, <2>7, <2>2
        <5>2. b \in SUBSET U /\ Cardinality(b) <= n /\ q \in b /\ b \ {q} = c
          BY <4>1, <4>3, <1>1, <1>2, <2>7, <2>2
        <5>3. g[a] = f[x] + g[c] /\ g[b] = f[q] + g[c]
          <6>1. \A s \in SUBSET U : Cardinality(s) <= n => \A y \in s : g[s] = f[y] + g[s \ {y}]
            BY <2>1
          <6> HIDE DEF a, b, c, q
          <6>2. g[a] = f[x] + g[a \ {x}]
            BY <6>1, <5>1
          <6>3. g[b] = f[q] + g[b \ {q}]
            BY <6>1, <5>2
          <6> QED BY <5>1, <5>2, <6>2, <6>3
        <5>4. f[x] \in Int /\ f[q] \in Int /\ g[c] \in Int
          BY <4>1, <2>1
        <5> QED BY <5>3, <5>4, <4>1, <3>2
      <4> QED BY <4>2, <4>3
    <3> QED BY <3>3, <3>4
  <2>8. Upto(h, n + 1)
    BY <2>5, <2>6, <2>7
  <2>9. n + 1 \in Nat /\ \E k : Upto(k, n + 1)
    <3> HIDE DEF h, Upto
    <3> QED BY <2>2, <2>8
  <2> QED BY <2>9 DEF N
<1>5. PICK g : Upto(g, Cardinality(U))
  <2>1. Nat \subseteq N
    <3> HIDE DEF N
    <3>1. N \subseteq Nat
      BY DEF N
    <3> QED BY <1>3, <1>4, <3>1, SetInduction
  <2>2. Cardinality(U) \in Nat
    BY <1>1
  <2> HIDE DEF Upto
  <2> QED BY <2>1, <2>2
<1>6. \A t \in SUBSET U : Cardinality(t) <= Cardinality(U)
  BY FS_Subset
<1> QED BY <1>5, <1>6 DEF Sums

\* A set that holds t as soon as it holds t without any one element holds all of U's subsets.
LEMMA SetsInduction ==
    ASSUME NEW U, IsFiniteSet(U), NEW P,
           \A t \in SUBSET U : (\A x \in t : t \ {x} \in P) => t \in P
    PROVE  \A t \in SUBSET U : t \in P
<1> DEFINE N == {n \in Nat : \A t \in SUBSET U : Cardinality(t) = n => t \in P}
<1>1. \A t \in SUBSET U : IsFiniteSet(t) /\ Cardinality(t) \in Nat
  BY FS_Subset, FS_CardinalityType
<1>2. 0 \in N
  BY <1>1, FS_EmptySet
<1>3. \A n \in N : n + 1 \in N
  <2> TAKE n \in N
  <2> SUFFICES ASSUME NEW t \in SUBSET U, Cardinality(t) = n + 1 PROVE t \in P
    OBVIOUS
  <2>1. ASSUME NEW x \in t PROVE t \ {x} \in P
    <3>1. Cardinality(t \ {x}) = n
      BY <1>1, FS_RemoveElement
    <3> QED BY <3>1
  <2> QED BY <2>1
<1>4. Nat \subseteq N
  <2> HIDE DEF N
  <2>1. N \subseteq Nat
    BY DEF N
  <2> QED BY <1>2, <1>3, <2>1, SetInduction
<1> QED BY <1>1, <1>4

\* The fold chooses the elements in some order; it finds the same sum.
LEMMA SumIs ==
    ASSUME NEW U, IsFiniteSet(U), NEW f, NEW g, Sums(g, f, U), NEW S \in SUBSET U
    PROVE  SumOf(f, S) = g[S]
<1> DEFINE p(s) == CHOOSE y \in s : TRUE
           Fold(h) == h = [s \in SUBSET S |-> IF s = {} THEN 0 ELSE f[p(s)] + h[s \ {p(s)}]]
           iter == CHOOSE h : Fold(h)
<1>1. SumOf(f, S) = iter[S]
  BY Unfold
<1>2. \A s \in SUBSET S : s # {} => p(s) \in s
  OBVIOUS
<1> HIDE DEF p
<1>3. Fold([s \in SUBSET S |-> g[s]])
  <2> SUFFICES ASSUME NEW s \in SUBSET S
               PROVE  g[s] = IF s = {} THEN 0 ELSE f[p(s)] + g[s \ {p(s)}]
    BY <1>2
  <2> QED BY <1>2 DEF Sums
<1>4. Fold(iter)
  <2> HIDE DEF Fold
  <2> QED BY <1>3
<1> HIDE DEF iter
<1> DEFINE P == {s \in SUBSET S : iter[s] = g[s]}
<1>5. {} \in P
  BY <1>4 DEF Sums
<1>6. \A t \in SUBSET S : (\A x \in t : t \ {x} \in P) => t \in P
  <2> SUFFICES ASSUME NEW t \in SUBSET S, t # {}, \A x \in t : t \ {x} \in P PROVE t \in P
    BY <1>5
  <2>1. p(t) \in t /\ t \in SUBSET U
    BY <1>2
  <2>2. iter[t] = f[p(t)] + iter[t \ {p(t)}]
    BY <1>4
  <2>3. g[t] = f[p(t)] + g[t \ {p(t)}]
    BY <2>1 DEF Sums
  <2> QED BY <2>1, <2>2, <2>3
<1>7. S \in P
  <2>1. IsFiniteSet(S)
    BY FS_Subset
  <2> HIDE DEF P
  <2> QED BY <1>6, <2>1, SetsInduction
<1> QED BY <1>1, <1>7

\* A sum is an element's value and the sum of the rest.
LEMMA SumTakes ==
    ASSUME NEW S, IsFiniteSet(S), NEW f, \A c \in S : f[c] \in Int
    PROVE  /\ SumOf(f, {}) = 0
           /\ SumOf(f, S) \in Int
           /\ \A x \in S : SumOf(f, S) = f[x] + SumOf(f, S \ {x})
<1>1. PICK g : Sums(g, f, S)
  BY SumsExist
<1>2. \A t \in SUBSET S : SumOf(f, t) = g[t]
  BY <1>1, SumIs
<1>3. g \in [SUBSET S -> Int] /\ g[{}] = 0 /\ \A x \in S : g[S] = f[x] + g[S \ {x}]
  BY <1>1 DEF Sums
<1>4. SumOf(f, {}) = 0
  BY <1>2, <1>3
<1>5. SumOf(f, S) \in Int
  BY <1>2, <1>3
<1>6. \A x \in S : SumOf(f, S) = f[x] + SumOf(f, S \ {x})
  BY <1>2, <1>3
<1> QED BY <1>4, <1>5, <1>6

LEMMA SumAdds ==
    ASSUME NEW S, IsFiniteSet(S), NEW f, NEW x, x \notin S, f[x] \in Int, \A c \in S : f[c] \in Int
    PROVE  SumOf(f, S \cup {x}) = f[x] + SumOf(f, S)
<1>1. IsFiniteSet(S \cup {x})
  BY FS_AddElement
<1>2. (S \cup {x}) \ {x} = S
  OBVIOUS
<1>3. \A c \in S \cup {x} : f[c] \in Int
  OBVIOUS
<1> QED BY <1>1, <1>2, <1>3, SumTakes

LEMMA Distributes ==
    ASSUME NEW k \in Int, NEW a \in Int, NEW b \in Int
    PROVE  k * (a + b) = k * a + k * b /\ k * (a + 1) = k * a + k /\ {k * a, k * b} \subseteq Int
OBVIOUS

\* Each m * g[c] is at most k * f[c], up to d.
Bounded(m, g, k, f, d, S) ==
  \A c \in S : f[c] \in Int /\ g[c] \in Int /\ m * g[c] <= k * f[c] + d

LEMMA BoundedPart ==
    ASSUME NEW m, NEW g, NEW k, NEW f, NEW d, NEW S, NEW T \in SUBSET S, Bounded(m, g, k, f, d, S)
    PROVE  Bounded(m, g, k, f, d, T)
BY DEF Bounded

(* What holds of the values of two functions, up to d each, holds of their  *)
(* sums, up to d for each element.                                          *)
LEMMA SumsBounded ==
    ASSUME NEW S, IsFiniteSet(S), NEW f, NEW g, NEW m \in Int, NEW k \in Int, NEW d \in Int,
           Bounded(m, g, k, f, d, S)
    PROVE  m * SumOf(g, S) <= k * SumOf(f, S) + d * Cardinality(S)
<1> DEFINE P == {t \in SUBSET S : m * SumOf(g, t) <= k * SumOf(f, t) + d * Cardinality(t)}
<1>1. \A t \in SUBSET S : (\A x \in t : t \ {x} \in P) => t \in P
  <2> SUFFICES ASSUME NEW t \in SUBSET S, \A x \in t : t \ {x} \in P PROVE t \in P
    OBVIOUS
  <2>1. IsFiniteSet(t) /\ Cardinality(t) \in Nat
    BY FS_Subset, FS_CardinalityType
  <2>2. CASE t = {}
    <3>1. SumOf(g, t) = 0 /\ SumOf(f, t) = 0 /\ Cardinality(t) = 0
      BY <2>1, <2>2, SumTakes, FS_EmptySet
    <3> QED BY <3>1
  <2>3. CASE t # {}
    <3>1. PICK x \in t : TRUE
      BY <2>3
    <3> DEFINE r == t \ {x}
    <3>2. IsFiniteSet(r) /\ Cardinality(r) = Cardinality(t) - 1
      BY <2>1, <3>1, FS_RemoveElement
    <3>3. /\ SumOf(g, t) = g[x] + SumOf(g, r) /\ SumOf(f, t) = f[x] + SumOf(f, r)
          /\ SumOf(g, r) \in Int /\ SumOf(f, r) \in Int
      BY <2>1, <3>1, <3>2, SumTakes DEF Bounded
    <3>4. m * SumOf(g, r) <= k * SumOf(f, r) + d * Cardinality(r)
      BY <3>1
    <3>5. f[x] \in Int /\ g[x] \in Int /\ m * g[x] <= k * f[x] + d
      BY <3>1 DEF Bounded
    <3> HIDE DEF r
    <3>6. /\ m * (g[x] + SumOf(g, r)) = m * g[x] + m * SumOf(g, r)
          /\ {m * g[x], m * SumOf(g, r)} \subseteq Int
      BY <3>3, <3>5, Distributes
    <3>7. /\ k * (f[x] + SumOf(f, r)) = k * f[x] + k * SumOf(f, r)
          /\ {k * f[x], k * SumOf(f, r)} \subseteq Int
      BY <3>3, <3>5, Distributes
    <3>8. /\ d * Cardinality(t) = d * Cardinality(r) + d
          /\ d * Cardinality(r) \in Int
      <4>1. Cardinality(r) \in Int /\ Cardinality(t) = Cardinality(r) + 1
        BY <2>1, <3>2
      <4> HIDE DEF P
      <4> QED BY <4>1, Distributes
    <3>9. m * SumOf(g, t) <= k * SumOf(f, t) + d * Cardinality(t)
      BY <3>3, <3>4, <3>5, <3>6, <3>7, <3>8
    <3> QED BY <3>9
  <2> QED BY <2>2, <2>3
<1>2. \A t \in SUBSET S : t \in P
  <2> HIDE DEF P
  <2> QED BY <1>1, SetsInduction
<1> QED BY <1>2

\* A sum of naturals is one, and the larger the values the larger the sum.
LEMMA SumOfNat ==
    ASSUME NEW S, IsFiniteSet(S), NEW f, NEW g,
           \A c \in S : f[c] \in Nat /\ g[c] \in Nat /\ g[c] <= f[c]
    PROVE  SumOf(f, S) \in Nat /\ SumOf(g, S) \in Nat /\ SumOf(g, S) <= SumOf(f, S)
<1>1. \A c \in S : f[c] \in Int /\ g[c] \in Int
  OBVIOUS
<1>2. SumOf(f, S) \in Int /\ SumOf(g, S) \in Int /\ Cardinality(S) \in Nat
  BY <1>1, SumTakes, FS_CardinalityType
<1>3. ASSUME NEW one, one = 1, NEW zero, zero = 0
      PROVE  /\ one * SumOf(g, S) <= one * SumOf(f, S) + zero * Cardinality(S)
             /\ zero * SumOf(f, S) <= one * SumOf(g, S) + zero * Cardinality(S)
  <2>1. one \in Int /\ zero \in Int
    BY <1>3
  <2>2. Bounded(one, g, one, f, zero, S) /\ Bounded(zero, f, one, g, zero, S)
    BY <1>1, <1>3 DEF Bounded
  <2> QED BY <1>1, <2>1, <2>2, SumsBounded
<1>4. 0 * SumOf(f, S) = 0 /\ 0 * Cardinality(S) = 0 /\ 1 * SumOf(f, S) = SumOf(f, S) /\ 1 * SumOf(g, S) = SumOf(g, S)
  BY <1>2
<1> QED BY <1>2, <1>3, <1>4

\* Rounding is off by at most a half.
LEMMA RoundedIs ==
    ASSUME NEW a \in Nat, NEW b \in Nat \ {0}
    PROVE  /\ Rounded(a, b) \in Nat
           /\ 2 * b * Rounded(a, b) <= 2 * a + b
           /\ 2 * a <= 2 * b * Rounded(a, b) + b
<1> DEFINE q == (2 * a + b) \div (2 * b)
<1>1. q \in Nat /\ 2 * b * q <= 2 * a + b /\ 2 * a + b < 2 * b * q + 2 * b
  OBVIOUS
<1> QED BY <1>1 DEF Rounded

LEMMA NatProduct ==
    ASSUME NEW a \in Nat, NEW b \in Nat
    PROVE  a * b \in Nat
OBVIOUS

LEMMA Cancels ==
    ASSUME NEW a \in Nat \ {0}, NEW b \in Int, NEW c \in Int, a * b <= a * c
    PROVE  b <= c
OBVIOUS

\* Of the smallest and the largest of a few.
LEMMA LeastOf ==
    /\ \A a, b, c \in Nat : Min({a, b, c}) \in Nat
    /\ \A a, b \in Int : Max({a, b}) \in Int /\ a <= Max({a, b}) /\ b <= Max({a, b})
<1>1. ASSUME NEW a \in Nat, NEW b \in Nat, NEW c \in Nat PROVE Min({a, b, c}) \in Nat
  <2>1. \E x \in {a, b, c} : \A y \in {a, b, c} : x <= y
    OBVIOUS
  <2> QED BY <2>1 DEF Min
<1>2. ASSUME NEW a \in Int, NEW b \in Int
      PROVE  Max({a, b}) \in Int /\ a <= Max({a, b}) /\ b <= Max({a, b})
  <2>1. \E x \in {a, b} : \A y \in {a, b} : x >= y
    OBVIOUS
  <2> QED BY <2>1 DEF Max
<1> QED BY <1>1, <1>2

----------------------------------------------------------------------------
(* The invariant *)

Filtering == {"health", "correlation"}

Types == TypeOK /\ (stage \in Filtering => queue = {})

(* What makes it safe to cap the build's size only when the signal's size  *)
(* was cut: it is never the larger one.  (A Kelly size of 0 reads as 2 in  *)
(* the build, but check_trade rejects it.)                                 *)
NotLarger ==
    \A c \in Candidates :
        info[c].signal /\ info[c].kelly # 0 => size[c] <= info[c].kelly

(* The limits bound what check_trade counts; what the build counts is no   *)
(* more than that, overall and in each sector.                             *)
SizesCounted ==
    stage \notin Filtering =>
        /\ SumOf(size, Active) <= longs + shorts
        /\ SumOf(size, Active) <= MaxGross
        /\ \A s \in Sectors : SumOf(size, {c \in Active : info[c].sector = s}) <= exposures[s]

LInv == Types /\ NotLarger /\ WithinLimits /\ SizesCounted /\ FullyInvested

\* Sets of candidates are finite, and sizes over them sum to naturals.
LEMMA FiniteParts ==
    ASSUME NEW S \in SUBSET Candidates, NEW f \in [Candidates -> Nat]
    PROVE  IsFiniteSet(S) /\ Cardinality(S) \in Nat /\ SumOf(f, S) \in Nat /\ SumOf(f, {}) = 0
<1>1. IsFiniteSet(Candidates)
  BY AllocationBounds, FS_Interval DEF Candidates
<1>2. IsFiniteSet(S) /\ Cardinality(S) \in Nat
  BY <1>1, FS_Subset, FS_CardinalityType
<1>3. \A c \in S : f[c] \in Nat /\ f[c] <= f[c]
  OBVIOUS
<1>4. SumOf(f, S) \in Nat
  BY <1>2, <1>3, SumOfNat
<1>5. \A c \in S : f[c] \in Int
  OBVIOUS
<1>6. SumOf(f, {}) = 0
  BY <1>2, <1>5, SumTakes
<1> QED BY <1>2, <1>4, <1>6

LEMMA SmallerSum ==
    ASSUME NEW S \in SUBSET Candidates, NEW f \in [Candidates -> Nat], NEW g \in [Candidates -> Nat],
           \A c \in S : g[c] <= f[c]
    PROVE  SumOf(g, S) <= SumOf(f, S)
<1>1. IsFiniteSet(S)
  BY FiniteParts
<1>2. \A c \in S : f[c] \in Nat /\ g[c] \in Nat /\ g[c] <= f[c]
  OBVIOUS
<1> QED BY <1>1, <1>2, SumOfNat

\* A candidate joins a set, and only its value has changed.
LEMMA JoinedSum ==
    ASSUME NEW S \in SUBSET Candidates, NEW f \in [Candidates -> Nat], NEW g \in [Candidates -> Nat],
           NEW x \in Candidates, x \notin S, \A c \in S : g[c] = f[c]
    PROVE  SumOf(g, S \cup {x}) = g[x] + SumOf(f, S)
<1>1. IsFiniteSet(S) /\ SumOf(f, S) \in Nat /\ SumOf(g, S) \in Nat
  BY FiniteParts
<1>2. \A c \in S : f[c] \in Nat /\ g[c] \in Nat /\ g[c] <= f[c] /\ f[c] <= g[c]
  OBVIOUS
<1>3. SumOf(g, S) <= SumOf(f, S) /\ SumOf(f, S) <= SumOf(g, S)
  BY <1>1, <1>2, SumOfNat
<1>4. SumOf(g, S) = SumOf(f, S)
  BY <1>1, <1>3
<1>5. g[x] \in Int /\ \A c \in S : g[c] \in Int
  OBVIOUS
<1>6. SumOf(g, S \cup {x}) = g[x] + SumOf(g, S)
  BY <1>1, <1>5, SumAdds
<1> QED BY <1>4, <1>6

----------------------------------------------------------------------------
\* A factor of at most 100 percent does not enlarge a size.
LEMMA ScaledSmaller ==
    ASSUME NEW a \in Nat, NEW b \in Scaled(a)
    PROVE  b \in Nat /\ b <= a
<1>1. PICK f \in Factors : b = (a * f) \div 100
  BY DEF Scaled
<1>2. f \in Nat /\ f <= 100
  BY AllocationBounds
<1>3. a * f \in Nat /\ a * f <= a * 100
  BY <1>2
<1> QED BY <1>1, <1>3

LEMMA ShrunkSmaller ==
    ASSUME NEW f \in [Candidates -> Nat], NEW S, NEW g \in Shrunk(f, S)
    PROVE  g \in [Candidates -> Nat] /\ \A c \in Candidates : g[c] <= f[c]
<1>1. \A c \in Candidates : g[c] \in Nat /\ g[c] <= f[c]
  <2> TAKE c \in Candidates
  <2>1. g[c] = f[c] \/ g[c] \in Scaled(f[c])
    BY DEF Shrunk
  <2>2. f[c] \in Nat
    OBVIOUS
  <2> QED BY <2>1, <2>2, ScaledSmaller
<1>2. g \in [Candidates -> UNION {{f[c]} \cup Scaled(f[c]) : c \in Candidates}]
  BY DEF Shrunk
<1> QED BY <1>1, <1>2

\* No limit is passed by the size that check_trade grants.
LEMMA AdjustedFits ==
    ASSUME LInv, NEW c \in Candidates, info[c].signal
    PROVE  /\ info[c].kelly \in Nat /\ info[c].sector \in Sectors
           /\ AdjustedSize(c) \in Nat
           /\ AdjustedSize(c) <= info[c].kelly
           /\ AdjustedSize(c) <= MaxPosition
           /\ exposures[info[c].sector] + AdjustedSize(c) <= MaxSector
           /\ AdjustedSize(c) > 0 => longs + shorts + AdjustedSize(c) <= MaxGross
<1>1. info[c] \in Signals
  BY DEF LInv, Types, TypeOK, Others
<1>2. info[c].kelly \in Nat /\ info[c].sector \in Sectors /\ info[c].long \in BOOLEAN
  BY <1>1, LimitsAssumption DEF Signals
<1>3. /\ exposures[info[c].sector] \in Nat /\ exposures[info[c].sector] <= MaxSector
      /\ MaxSector \in Nat /\ MaxPosition \in Nat
  BY <1>2, LimitsAssumption DEF LInv, Types, TypeOK, WithinLimits
<1>4. SectorRoom(c) \in Nat /\ exposures[info[c].sector] + SectorRoom(c) <= MaxSector
  BY <1>3 DEF SectorRoom, Clip
<1>5. GrossRoom \in Nat /\ (GrossRoom > 0 => longs + shorts + GrossRoom <= MaxGross)
  BY LimitsAssumption DEF GrossRoom, Clip, LInv, Types, TypeOK
<1>6. NetRoom(c) \in Nat
  BY <1>2, LimitsAssumption DEF NetRoom, Clip, LInv, Types, TypeOK
<1> HIDE DEF SectorRoom, GrossRoom, NetRoom
<1>7. /\ AdjustedSize(c) \in Nat /\ AdjustedSize(c) <= info[c].kelly
      /\ AdjustedSize(c) <= MaxPosition /\ AdjustedSize(c) <= SectorRoom(c)
      /\ AdjustedSize(c) <= GrossRoom
  BY <1>2, <1>3, <1>4, <1>5, <1>6 DEF AdjustedSize, Least
<1>8. longs \in Nat /\ shorts \in Nat /\ MaxGross \in Nat
  BY LimitsAssumption DEF LInv, Types, TypeOK
<1> QED BY <1>2, <1>3, <1>4, <1>5, <1>7, <1>8

----------------------------------------------------------------------------
LEMMA LInvInit == Init => LInv
<1> SUFFICES ASSUME Init PROVE LInv
  OBVIOUS
<1>1. ASSUME NEW c \in Candidates
      PROVE  /\ size[c] \in Nat
             /\ info[c].signal /\ info[c].kelly # 0 => size[c] <= info[c].kelly
  <2>1. size[c] \in InitialSizes(c) /\ info[c] \in Signals \cup Others
    BY DEF Init, Waterfall
  <2>2. CASE ~info[c].signal
    BY <2>1, <2>2, LimitsAssumption DEF InitialSizes
  <2>3. CASE info[c].signal
    <3> DEFINE kelly == IF info[c].kelly = 0 THEN 2 ELSE info[c].kelly
    <3>1. info[c].kelly \in Nat /\ kelly \in Nat
      BY <2>1, <2>3, LimitsAssumption DEF Signals, Others
    <3>2. PICK k \in Scaled(kelly) : size[c] = Least(k, MaxWeight)
      BY <2>1, <2>3 DEF InitialSizes
    <3>3. k \in Nat /\ k <= kelly
      BY <3>1, <3>2, ScaledSmaller
    <3>4. size[c] \in Nat /\ size[c] <= kelly
      BY <3>1, <3>2, <3>3, LimitsAssumption DEF Least
    <3> QED BY <3>1, <3>4
  <2> QED BY <2>2, <2>3
<1>2. size \in [Candidates -> Nat]
  BY <1>1 DEF Init
<1>3. Types
  <2>1. PICK n \in 0..MaxCandidates : picks = 1..n
    BY DEF Init, Waterfall
  <2>2. picks \subseteq Candidates
    BY <2>1, AllocationBounds DEF Candidates
  <2>3. stage \in Stages /\ dollars \in [Candidates -> Nat]
    BY DEF Init, Stages
  <2> QED BY <1>2, <2>2, <2>3 DEF Init, Types, TypeOK, Waterfall
<1>4. NotLarger
  BY <1>1 DEF NotLarger
<1>5. WithinLimits
  BY LimitsAssumption DEF Init, WithinLimits, Active
<1>6. picks = {} \/ stage \in Filtering
  BY DEF Init, Filtering
<1>7. SizesCounted
  <2> SUFFICES ASSUME picks = {} PROVE SizesCounted
    BY <1>6 DEF SizesCounted
  <2>1. Active = {} /\ \A s \in Sectors : {c \in Active : info[c].sector = s} = {}
    BY DEF Active
  <2>2. SumOf(size, {}) = 0
    BY <1>2, FiniteParts
  <2> HIDE DEF Active
  <2> QED BY <2>1, <2>2, LimitsAssumption DEF Init, SizesCounted
<1>8. FullyInvested
  <2> SUFFICES ASSUME picks = {} PROVE Allocated = 0
    BY <1>6 DEF FullyInvested, Filtering
  <2>1. dollars \in [Candidates -> Nat]
    BY DEF Init
  <2> QED BY <2>1, FiniteParts DEF Allocated
<1> QED BY <1>3, <1>4, <1>5, <1>7, <1>8 DEF LInv

(* Every step that only shrinks sizes keeps what is said about them.       *)
LEMMA ShrinkStep ==
    ASSUME LInv, UNCHANGED <<info, book, dollars, halved>>, NEW S, size' \in Shrunk(size, S),
           picks' \subseteq picks, queue' \subseteq picks',
           stage' \in Stages \ {"done"}, stage' \in Filtering => queue' = {},
           stage' \notin Filtering =>
               Active' = {} \/ (stage \notin Filtering /\ Active' = Active)
    PROVE  LInv'
<1>1. size' \in [Candidates -> Nat] /\ \A c \in Candidates : size'[c] <= size[c]
  BY ShrunkSmaller DEF LInv, Types, TypeOK
<1>2. Types'
  BY <1>1 DEF LInv, Types, TypeOK, book
<1>3. NotLarger'
  <2> SUFFICES ASSUME NEW c \in Candidates, info[c].signal, info[c].kelly # 0
               PROVE  size'[c] <= info[c].kelly
    BY DEF NotLarger
  <2>1. info[c].kelly \in Nat
    BY LimitsAssumption DEF LInv, Types, TypeOK, Signals, Others
  <2>2. size[c] <= info[c].kelly /\ size[c] \in Nat /\ size'[c] \in Nat
    BY <1>1 DEF LInv, NotLarger, Types, TypeOK
  <2> QED BY <1>1, <2>1, <2>2
<1>4. WithinLimits'
  <2>1. (\A s \in Sectors : exposures[s] <= MaxSector)'
    BY DEF LInv, WithinLimits, book
  <2>2. ASSUME stage' \notin Filtering, NEW c \in Active'
        PROVE  size'[c] <= MaxPosition
    <3>1. c \in Candidates
      BY <1>2, <2>2 DEF Active, Types, TypeOK
    <3>2. size[c] \in Nat /\ size'[c] \in Nat /\ size'[c] <= size[c] /\ MaxPosition \in Nat
      BY <1>1, <3>1, LimitsAssumption DEF LInv, Types, TypeOK
    <3>3. size[c] <= MaxPosition
      BY <2>2 DEF LInv, WithinLimits, Filtering
    <3> QED BY <3>2, <3>3
  <2> QED BY <2>1, <2>2 DEF WithinLimits, Filtering
<1>5. SizesCounted'
  <2> SUFFICES ASSUME stage' \notin Filtering
               PROVE  /\ SumOf(size', Active') <= longs + shorts
                      /\ SumOf(size', Active') <= MaxGross
                      /\ \A s \in Sectors :
                             SumOf(size', {c \in Active' : info[c].sector = s}) <= exposures[s]
    BY DEF SizesCounted, book
  <2>1. CASE Active' = {}
    <3>1. SumOf(size', {}) = 0 /\ \A s \in Sectors : {c \in Active' : info[c].sector = s} = {}
      BY <1>1, <2>1, FiniteParts
    <3>2. \A s \in Sectors : exposures[s] \in Nat
      BY DEF LInv, Types, TypeOK
    <3> QED BY <2>1, <3>1, <3>2, LimitsAssumption DEF LInv, Types, TypeOK
  <2>2. CASE stage \notin Filtering /\ Active' = Active
    <3>1. size \in [Candidates -> Nat] /\ Active \subseteq Candidates
      BY DEF LInv, Types, TypeOK, Active
    <3>2. \A T \in SUBSET Active : /\ SumOf(size', T) <= SumOf(size, T)
                                   /\ SumOf(size', T) \in Nat /\ SumOf(size, T) \in Nat
      BY <1>1, <3>1, SmallerSum, FiniteParts
    <3>3. /\ SumOf(size, Active) <= longs + shorts
          /\ SumOf(size, Active) <= MaxGross
          /\ \A s \in Sectors : SumOf(size, {c \in Active : info[c].sector = s}) <= exposures[s]
      BY <2>2 DEF LInv, SizesCounted
    <3>4. /\ longs + shorts \in Nat /\ MaxGross \in Nat
          /\ \A s \in Sectors : exposures[s] \in Nat
      BY LimitsAssumption DEF LInv, Types, TypeOK
    <3>5. SumOf(size', Active) <= longs + shorts /\ SumOf(size', Active) <= MaxGross
      BY <3>2, <3>3, <3>4
    <3>6. ASSUME NEW s \in Sectors
          PROVE  SumOf(size', {c \in Active : info[c].sector = s}) <= exposures[s]
      <4> DEFINE T == {c \in Active : info[c].sector = s}
      <4>1. T \in SUBSET Active /\ SumOf(size, T) <= exposures[s]
        BY <3>3
      <4> HIDE DEF T
      <4>2. SumOf(size', T) <= exposures[s]
        BY <4>1, <3>2, <3>4
      <4> QED BY <4>2 DEF T
    <3> QED BY <2>2, <3>5, <3>6
  <2> QED BY <2>1, <2>2
<1>6. FullyInvested'
  BY DEF FullyInvested
<1> QED BY <1>2, <1>3, <1>4, <1>5, <1>6 DEF LInv

LEMMA RiskCheckStep ==
    ASSUME LInv, NEW c \in Candidates, RiskCheck(c)
    PROVE  LInv'
<1>1. /\ stage = "risk" /\ stage' = "risk" /\ stage' \notin Filtering /\ UNCHANGED info
      /\ c \in queue /\ queue' = queue \ {c}
  BY DEF RiskCheck, FirstOf, Filtering
<1>2. size \in [Candidates -> Nat] /\ queue' \subseteq picks' /\ picks' \subseteq picks
  BY <1>1 DEF RiskCheck, LInv, Types, TypeOK
<1>3. stage' \in Stages /\ UNCHANGED <<dollars, halved>>
  BY <1>1 DEF RiskCheck, Stages
<1>4. FullyInvested'
  BY <1>1 DEF FullyInvested
<1>5. CASE info[c].signal /\ Approved(c)
  <2> DEFINE s == info[c].sector
             new == SizeAfterCheck(c)
  <2>1. /\ size' = [size EXCEPT ![c] = new]
        /\ exposures' = [exposures EXCEPT ![s] = @ + new]
        /\ picks' = picks
    BY <1>5 DEF RiskCheck
  <2>2. /\ info[c].kelly \in Nat /\ s \in Sectors
        /\ AdjustedSize(c) \in Nat \ {0} /\ AdjustedSize(c) <= info[c].kelly
        /\ AdjustedSize(c) <= MaxPosition
        /\ exposures[s] + AdjustedSize(c) <= MaxSector
        /\ longs + shorts + AdjustedSize(c) <= MaxGross
    BY <1>5, AdjustedFits DEF Approved
  <2>3. size[c] \in Nat /\ size[c] <= info[c].kelly
    BY <1>2, <1>5, <2>2 DEF LInv, NotLarger
  <2>4. new \in Nat /\ new <= AdjustedSize(c) /\ new <= size[c]
    BY <2>2, <2>3 DEF SizeAfterCheck, Least
  <2> HIDE DEF new
  <2>5. size' \in [Candidates -> Nat]
    BY <1>2, <2>1, <2>4
  <2>6. exposures[s] \in Nat /\ exposures[s] + new \in Nat /\ exposures[s] + new <= MaxSector
    BY <2>2, <2>4, LimitsAssumption DEF LInv, Types, TypeOK
  <2> HIDE DEF s
  <2>7. exposures' \in [Sectors -> Nat] /\ \A t \in Sectors : exposures'[t] <= MaxSector
    BY <2>1, <2>2, <2>6 DEF LInv, Types, TypeOK, WithinLimits
  <2>8. longs' \in Nat /\ shorts' \in Nat /\ longs' + shorts' = longs + shorts + info[c].kelly
    BY <1>5, <2>2 DEF RiskCheck, LInv, Types, TypeOK
  <2>9. Types'
    BY <1>1, <1>2, <1>3, <2>5, <2>7, <2>8 DEF LInv, Types, TypeOK
  <2>10. NotLarger'
    BY <1>1, <1>2, <2>1, <2>2, <2>3, <2>4 DEF LInv, NotLarger
  <2>11. \A d \in Active' : size'[d] <= MaxPosition
    <3> TAKE d \in Active'
    <3>1. d \in Candidates /\ (d = c \/ d \in Active)
      BY <1>1, <2>1, <2>9 DEF Active, Types, TypeOK
    <3>2. CASE d = c
      BY <1>2, <2>1, <2>2, <2>4, <3>2, LimitsAssumption
    <3>3. CASE d # c
      BY <1>1, <1>2, <2>1, <3>1, <3>3 DEF LInv, WithinLimits
    <3> QED BY <3>2, <3>3
  <2>12. SizesCounted'
    <3>1. /\ Active \in SUBSET Candidates /\ c \notin Active /\ Active' = Active \cup {c}
          /\ size'[c] = new /\ \A d \in Active : size'[d] = size[d]
          /\ SumOf(size, Active) <= longs + shorts
          /\ \A t \in Sectors : SumOf(size, {d \in Active : info[d].sector = t}) <= exposures[t]
      BY <1>1, <1>2, <1>5, <2>1 DEF LInv, SizesCounted, Active, Types, TypeOK
    <3>2. SumOf(size', Active') = new + SumOf(size, Active) /\ SumOf(size, Active) \in Nat
      BY <1>2, <2>5, <3>1, JoinedSum, FiniteParts
    <3>3. longs \in Nat /\ shorts \in Nat /\ MaxGross \in Nat
      BY LimitsAssumption DEF LInv, Types, TypeOK
    <3>4. SumOf(size', Active') <= longs' + shorts' /\ SumOf(size', Active') <= MaxGross
      BY <2>2, <2>4, <2>8, <3>1, <3>2, <3>3
    <3>5. ASSUME NEW t \in Sectors
          PROVE  SumOf(size', {d \in Active' : info'[d].sector = t}) <= exposures'[t]
      <4> DEFINE T == {d \in Active : info[d].sector = t}
      <4>1. T \in SUBSET Candidates /\ c \notin T /\ SumOf(size, T) <= exposures[t]
            /\ \A d \in T : size'[d] = size[d]
        BY <3>1
      <4>2. exposures[t] \in Nat /\ SumOf(size, T) \in Nat
        BY <1>2, <4>1, FiniteParts DEF LInv, Types, TypeOK
      <4> DEFINE U == {d \in Active' : info'[d].sector = t}
      <4>3. U = {d \in Active \cup {c} : info[d].sector = t}
        BY <1>1, <3>1
      <4>4. ASSUME t = s PROVE SumOf(size', U) <= exposures'[t]
        <5>1. U = T \cup {c}
          BY <4>4, <4>3 DEF s
        <5>2. exposures'[t] = exposures[t] + new
          BY <2>1, <4>4 DEF LInv, Types, TypeOK
        <5> HIDE DEF T, U
        <5>3. SumOf(size', T \cup {c}) = new + SumOf(size, T)
          BY <1>2, <2>5, <3>1, <4>1, JoinedSum
        <5> QED BY <2>4, <4>1, <4>2, <5>1, <5>2, <5>3
      <4>5. ASSUME t # s PROVE SumOf(size', U) <= exposures'[t]
        <5>1. U = T
          BY <4>5, <4>3 DEF s
        <5>2. exposures'[t] = exposures[t]
          BY <2>1, <4>5 DEF LInv, Types, TypeOK
        <5> HIDE DEF T, U
        <5>3. SumOf(size', T) <= SumOf(size, T) /\ SumOf(size', T) \in Nat
          BY <1>2, <2>5, <4>1, SmallerSum, FiniteParts
        <5> QED BY <4>1, <4>2, <5>1, <5>2, <5>3
      <4> HIDE DEF U
      <4>6. SumOf(size', U) <= exposures'[t]
        BY <4>4, <4>5
      <4> QED BY <4>6 DEF U
    <3> QED BY <3>4, <3>5 DEF SizesCounted
  <2> QED BY <1>4, <2>7, <2>9, <2>10, <2>11, <2>12 DEF LInv, WithinLimits
<1>6. CASE ~(info[c].signal /\ Approved(c))
  <2>1. UNCHANGED <<info, size, book>>
    BY <1>1, <1>6 DEF RiskCheck
  <2>2. Types'
    BY <1>1, <1>2, <1>3, <2>1 DEF LInv, Types, TypeOK, book
  <2>3. NotLarger'
    BY <2>1 DEF LInv, NotLarger
  <2>4. c \notin picks' \/ ~info[c].signal
    BY <1>6 DEF RiskCheck
  <2>5. Active' \subseteq Active
    BY <1>1, <1>2, <2>1, <2>4 DEF Active
  <2>6. WithinLimits'
    <3>1. \A t \in Sectors : exposures'[t] <= MaxSector
      BY <2>1 DEF LInv, WithinLimits, book
    <3>2. \A d \in Active' : size'[d] <= MaxPosition
      BY <1>1, <2>1, <2>5 DEF LInv, WithinLimits
    <3> QED BY <3>1, <3>2 DEF WithinLimits
  <2>7. Active' = Active
    BY <1>1, <1>2, <1>6, <2>1 DEF RiskCheck, Active
  <2>8. SizesCounted'
    BY <1>1, <2>1, <2>7 DEF LInv, SizesCounted, book
  <2> QED BY <1>4, <2>2, <2>3, <2>6, <2>8 DEF LInv
<1> QED BY <1>5, <1>6

\* The steps that change dollars only.
LEMMA DollarStep ==
    ASSUME LInv, UNCHANGED <<info, queue, picks, size, book>>,
           stage \notin Filtering, stage' \in Stages \ Filtering,
           dollars' \in [Candidates -> Nat], halved' \in BOOLEAN, FullyInvested'
    PROVE  LInv'
<1>1. Types'
  BY DEF LInv, Types, TypeOK, book
<1>2. NotLarger'
  BY DEF LInv, NotLarger
<1>3. UNCHANGED <<info, size, exposures, longs, shorts, Active>>
  BY DEF Active, book
<1>4. WithinLimits'
  BY <1>3 DEF LInv, WithinLimits, Filtering
<1>5. SizesCounted'
  BY <1>3 DEF LInv, SizesCounted
<1> QED BY <1>1, <1>2, <1>4, <1>5 DEF LInv

LEMMA AllocateStep == ASSUME LInv, Allocate PROVE LInv'
<1>1. /\ size \in [Candidates -> Nat] /\ picks \in SUBSET Candidates
      /\ SumOf(size, picks) \in Nat /\ Number \in Nat
      /\ Investable \in Nat /\ MaxWeight \in Nat
  BY FiniteParts, AllocationBounds, LimitsAssumption DEF LInv, Types, TypeOK, Number
<1>2. ASSUME NEW c \in picks PROVE KellyShare(c) \in Nat
  <2> DEFINE total == SumOf(size, picks)
  <2>1. size[c] \in Nat /\ total \in Nat
    BY <1>1
  <2>2. Investable * size[c] * Number \in Nat /\ Investable * MaxWeight * Number \in Nat
        /\ Investable * MaxWeight \in Nat
    BY <1>1, <2>1, NatProduct
  <2>3. CASE total = 0
    BY <2>3 DEF KellyShare
  <2>4. CASE total # 0
    <3>1. /\ Rounded(Investable * size[c] * Number, total) \in Nat
          /\ Rounded(Investable * MaxWeight * Number, 100) \in Nat
          /\ Rounded(Investable * MaxWeight, 100) \in Nat
      <4>1. total \in Nat \ {0} /\ 100 \in Nat \ {0}
        BY <2>1, <2>4
      <4>2. \A x \in Nat : \A y \in Nat \ {0} : Rounded(x, y) \in Nat
        BY RoundedIs
      <4> HIDE DEF total
      <4> QED BY <2>2, <4>1, <4>2
    <3> DEFINE a == Rounded(Investable * size[c] * Number, total)
               b == Rounded(Investable * MaxWeight * Number, 100)
               d == Rounded(Investable * MaxWeight, 100)
    <3>2. KellyShare(c) = Min({a, b, d})
      BY <2>4 DEF KellyShare
    <3> HIDE DEF a, b, d
    <3> QED BY <3>1, <3>2, LeastOf DEF a, b, d
  <2> QED BY <2>3, <2>4
<1>3. dollars' \in [Candidates -> Nat]
  BY <1>2 DEF Allocate
<1>4. FullyInvested' /\ stage \notin Filtering /\ stage' \in Stages \ Filtering
  BY DEF Allocate, FullyInvested, Filtering, Stages
<1> QED BY <1>3, <1>4, DollarStep DEF Allocate, LInv, Types, TypeOK

LEMMA VarStep == ASSUME LInv, VarCheck PROVE LInv'
<1>1. PICK f \in VarScales :
          dollars' = [c \in Candidates |-> Rounded(dollars[c] * f, 100)]
  BY DEF VarCheck
<1>2. f \in Nat
  BY AllocationBounds DEF VarScales
<1>3. ASSUME NEW c \in Candidates PROVE Rounded(dollars[c] * f, 100) \in Nat
  <2>1. dollars[c] \in Nat
    BY DEF LInv, Types, TypeOK
  <2>2. dollars[c] * f \in Nat
    BY <1>2, <2>1, NatProduct
  <2> QED BY <2>2, RoundedIs
<1>4. dollars' \in [Candidates -> Nat]
  BY <1>1, <1>3
<1>5. FullyInvested' /\ stage \notin Filtering /\ stage' \in Stages \ Filtering
  BY DEF VarCheck, FullyInvested, Filtering, Stages
<1> QED BY <1>4, <1>5, DollarStep DEF VarCheck, LInv, Types, TypeOK

LEMMA SharpeStep == ASSUME LInv, SharpeCheck PROVE LInv'
<1>1. dollars \in [Candidates -> Nat]
  BY DEF LInv, Types, TypeOK
<1>2. \A c \in Candidates : Rounded(dollars[c], 2) \in Nat
  BY <1>1, RoundedIs
<1>3. dollars' \in [Candidates -> Nat]
  <2>1. ASSUME NEW c \in Candidates PROVE dollars'[c] \in Nat
    <3>1. dollars'[c] = Rounded(dollars[c], 2) \/ dollars'[c] = dollars[c]
      BY DEF SharpeCheck
    <3> QED BY <1>1, <1>2, <3>1
  <2> QED BY <2>1 DEF SharpeCheck
<1>4. halved' \in BOOLEAN
  <2>1. halved' \in {FALSE, Number > 1}
    BY DEF SharpeCheck
  <2>2. (Number > 1) \in BOOLEAN
    OBVIOUS
  <2> QED BY <2>1, <2>2, Zenon
<1>5. FullyInvested' /\ stage \notin Filtering /\ stage' \in Stages \ Filtering
  BY DEF SharpeCheck, FullyInvested, Filtering, Stages
<1> QED BY <1>3, <1>4, <1>5, DollarStep DEF SharpeCheck

(* Each rounded allocation is off by at most a half, so that they sum to   *)
(* the capital up to a half for each pick.                                 *)
LEMMA NormalisedSum ==
    ASSUME NEW S \in SUBSET Candidates, NEW f \in [Candidates -> Nat], SumOf(f, S) > 0,
           NEW g \in [Candidates -> Nat],
           \A c \in S : g[c] = Rounded(f[c] * Investable, SumOf(f, S))
    PROVE  2 * (SumOf(g, S) - Investable) \in (-Cardinality(S)) .. Cardinality(S)
<1> DEFINE A == SumOf(f, S)
           B == SumOf(g, S)
           n == Cardinality(S)
           I == Investable
<1>1. IsFiniteSet(S) /\ A \in Nat \ {0} /\ B \in Nat /\ n \in Nat /\ I \in Nat
  BY FiniteParts, AllocationBounds
<1>2. ASSUME NEW c \in S
      PROVE  /\ f[c] \in Int /\ g[c] \in Int
             /\ (2 * A) * g[c] <= (2 * I) * f[c] + A
             /\ (2 * I) * f[c] <= (2 * A) * g[c] + A
  <2>1. f[c] \in Nat /\ g[c] \in Nat
    OBVIOUS
  <2> HIDE DEF A, I
  <2>2. f[c] * I \in Nat
    BY <1>1, <2>1, NatProduct
  <2>3. g[c] = Rounded(f[c] * I, A)
    BY DEF A, I
  <2>4. 2 * A * g[c] <= 2 * (f[c] * I) + A /\ 2 * (f[c] * I) <= 2 * A * g[c] + A
    BY <1>1, <2>2, <2>3, RoundedIs
  <2>5. 2 * (f[c] * I) = (2 * I) * f[c]
    BY <1>1, <2>1
  <2> QED BY <2>1, <2>4, <2>5
<1>3. 2 * A \in Int /\ 2 * I \in Int /\ A \in Int
  BY <1>1
<1>4. Bounded(2 * A, g, 2 * I, f, A, S) /\ Bounded(2 * I, f, 2 * A, g, A, S)
  BY <1>2 DEF Bounded
<1>5. (2 * A) * B <= (2 * I) * A + A * n /\ (2 * I) * A <= (2 * A) * B + A * n
  <2> HIDE DEF I
  <2> QED BY <1>1, <1>3, <1>4, SumsBounded
<1> HIDE DEF A, B, n, I
<1>6. A * (2 * B) <= A * (2 * I + n) /\ A * (2 * I) <= A * (2 * B + n)
  BY <1>1, <1>5
<1>7. 2 * B <= 2 * I + n /\ 2 * I <= 2 * B + n
  BY <1>1, <1>6, Cancels
<1>8. 2 * (B - I) \in (-n) .. n
  BY <1>1, <1>7
<1> QED BY <1>8 DEF B, I, n

LEMMA NormaliseStep == ASSUME LInv, Normalise PROVE LInv'
<1>1. /\ dollars \in [Candidates -> Nat] /\ picks \in SUBSET Candidates
      /\ Allocated \in Nat /\ Number \in Nat /\ Investable \in Nat /\ Tolerance \in Nat
  BY FiniteParts, AllocationBounds DEF LInv, Types, TypeOK, Number, Allocated
<1>2. dollars' \in [Candidates -> Nat]
  <2>1. CASE OffTarget
    <3>1. Allocated \in Nat \ {0}
      BY <1>1, <2>1 DEF OffTarget
    <3>2. ASSUME NEW c \in Candidates PROVE Rounded(dollars[c] * Investable, Allocated) \in Nat
      <4>1. dollars[c] * Investable \in Nat
        BY <1>1, NatProduct
      <4> QED BY <3>1, <4>1, RoundedIs
    <3> QED BY <2>1, <3>2 DEF Normalise
  <2>2. CASE ~OffTarget
    BY <1>1, <2>2 DEF Normalise
  <2> QED BY <2>1, <2>2
<1>3. FullyInvested'
  <2> DEFINE most == Max({2 * Tolerance, Number})
  <2>1. most \in Int /\ 2 * Tolerance <= most /\ Number <= most
    BY <1>1, LeastOf
  <2>2. picks' = picks /\ Number' = Number /\ Allocated' = SumOf(dollars', picks)
    BY DEF Normalise, Number, Allocated
  <2> HIDE DEF most
  <2>3. ASSUME Allocated' > 0 PROVE 2 * (Allocated' - Investable) \in (-most) .. most
    <3>1. CASE OffTarget
      <4>1. SumOf(dollars, picks) > 0
            /\ \A c \in picks : dollars'[c] = Rounded(dollars[c] * Investable, SumOf(dollars, picks))
        BY <1>1, <3>1 DEF Normalise, OffTarget, Allocated
      <4>2. 2 * (SumOf(dollars', picks) - Investable) \in (-Number) .. Number
        BY <1>1, <1>2, <4>1, NormalisedSum DEF Number
      <4>3. SumOf(dollars', picks) \in Nat
        BY <1>1, <1>2, FiniteParts
      <4> QED BY <1>1, <2>1, <2>2, <4>2, <4>3
    <3>2. CASE ~OffTarget
      <4>1. Allocated' = Allocated
        BY <3>2, <2>2 DEF Normalise, Allocated
      <4>2. Allocated - Investable <= Tolerance /\ Investable - Allocated <= Tolerance
        BY <1>1, <2>3, <3>2, <4>1 DEF OffTarget
      <4> QED BY <1>1, <2>1, <4>1, <4>2
    <3> QED BY <3>1, <3>2
  <2> QED BY <2>2, <2>3 DEF FullyInvested, most
<1>4. stage \notin Filtering /\ stage' \in Stages \ Filtering /\ halved' \in BOOLEAN
  BY DEF Normalise, Filtering, Stages, LInv, Types, TypeOK
<1> QED BY <1>2, <1>3, <1>4, DollarStep DEF Normalise

LEMMA LInvStep == LInv /\ [Next]_vars => LInv'
<1> SUFFICES ASSUME LInv, [Next]_vars PROVE LInv'
  OBVIOUS
<1>1. CASE HealthFilter
  <2>1. picks' \subseteq picks /\ queue' \subseteq queue
        /\ stage' \in Filtering /\ stage' \in Stages \ {"done"}
    BY <1>1 DEF HealthFilter, Filtering, Stages
  <2>2. queue' = {}
    BY <1>1 DEF HealthFilter, LInv, Types, TypeOK, Filtering
  <2> QED BY <1>1, <2>1, <2>2, ShrinkStep DEF HealthFilter
<1>2. CASE CorrelationDedup
  <2>1. picks' \subseteq picks /\ queue' = picks'
        /\ stage' \notin Filtering /\ stage' \in Stages \ {"done"}
    BY <1>2 DEF CorrelationDedup, FirstOf, Filtering, Stages
  <2>2. Active' = {}
    BY <2>1 DEF Active
  <2> QED BY <1>2, <2>1, <2>2, ShrinkStep DEF CorrelationDedup
<1>3. ASSUME NEW c \in Candidates, RiskCheck(c) PROVE LInv'
  BY <1>3, RiskCheckStep
<1>4. CASE ShadowSizing
  <2>1. /\ UNCHANGED <<info, book, picks, queue>> /\ stage \notin Filtering
        /\ stage' \notin Filtering /\ stage' \in Stages \ {"done"}
    BY <1>4 DEF ShadowSizing, Filtering, Stages
  <2>2. Active' = Active /\ queue' \subseteq picks' /\ picks' \subseteq picks
    BY <2>1 DEF Active, LInv, Types, TypeOK
  <2> QED BY <1>4, <2>1, <2>2, ShrinkStep DEF ShadowSizing
<1>5. CASE UNCHANGED vars
  <2>1. UNCHANGED <<Active, Number, Allocated>>
    BY <1>5 DEF vars, Active, Number, Allocated
  <2>2. Types' /\ NotLarger' /\ WithinLimits'
    BY <1>5, <2>1 DEF vars, LInv, Types, TypeOK, NotLarger, WithinLimits
  <2>3. SizesCounted' /\ FullyInvested'
    BY <1>5, <2>1 DEF vars, LInv, SizesCounted, FullyInvested
  <2> QED BY <2>2, <2>3 DEF LInv
<1> QED BY <1>1, <1>2, <1>3, <1>4, <1>5, AllocateStep, VarStep, SharpeStep, NormaliseStep DEF Next

LEMMA Invariance == Spec => []LInv
BY LInvInit, LInvStep, PTL DEF Spec

\* Every variable keeps its type: sizes, exposures and allocations are naturals,
\* through every scaling, whose divisors are never zero.
THEOREM AllocationTypes == Spec => []TypeOK
<1>1. LInv => TypeOK
  BY DEF LInv, Types
<1> QED BY <1>1, Invariance, PTL

(* check_trade and the build measure sizes differently, and still keep     *)
(* every sector and every position within its limit.                       *)
THEOREM LimitsHold == Spec => []WithinLimits
<1>1. LInv => WithinLimits
  BY DEF LInv
<1> QED BY <1>1, Invariance, PTL

(* The sizes the build works with sum to no more than the gross limit, and *)
(* in each sector to no more than the sector limit, however the signals'   *)
(* own sizes, by which check_trade counts, differ from them.               *)
THEOREM PortfolioStaysWithinLimits == Spec => []PortfolioLimits
<1>1. LInv => PortfolioLimits
  <2> SUFFICES ASSUME LInv, stage \notin Filtering PROVE PortfolioLimits
    BY DEF PortfolioLimits, Filtering
  <2>1. size \in [Candidates -> Nat] /\ Active \subseteq Candidates /\ MaxSector \in Nat
    BY LimitsAssumption DEF LInv, Types, TypeOK, Active
  <2>2. ASSUME NEW s \in Sectors
        PROVE  SumOf(size, {c \in Active : info[c].sector = s}) <= MaxSector
    <3> DEFINE T == {c \in Active : info[c].sector = s}
    <3>1. T \in SUBSET Candidates /\ SumOf(size, T) <= exposures[s]
      BY <2>1 DEF LInv, SizesCounted
    <3> HIDE DEF T
    <3>2. exposures[s] \in Nat /\ exposures[s] <= MaxSector /\ SumOf(size, T) \in Nat
      BY <2>1, <3>1, FiniteParts DEF LInv, Types, TypeOK, WithinLimits
    <3>3. SumOf(size, T) <= MaxSector
      BY <2>1, <3>1, <3>2
    <3> QED BY <3>3 DEF T
  <2> QED BY <2>2 DEF LInv, SizesCounted, PortfolioLimits
<1> QED BY <1>1, Invariance, PTL

(* Whatever the VaR check and the Sharpe check scaled down, the rounded    *)
(* allocations sum to the capital up to the tolerance or a half a pick.    *)
THEOREM CapitalIsInvested == Spec => []FullyInvested
<1>1. LInv => FullyInvested
  BY DEF LInv
<1> QED BY <1>1, Invariance, PTL
----------------------------------------------------------------------------
(* The scan.  First, more of sums and of lists.                            *)

\* A sum looks at the values of the elements only.
LEMMA SumsEqual ==
    ASSUME NEW S, IsFiniteSet(S), NEW f, NEW g, \A x \in S : f[x] \in Int /\ g[x] = f[x]
    PROVE  SumOf(g, S) = SumOf(f, S)
<1> DEFINE P == {t \in SUBSET S : SumOf(g, t) = SumOf(f, t)}
<1>1. \A t \in SUBSET S : (\A x \in t : t \ {x} \in P) => t \in P
  <2> SUFFICES ASSUME NEW t \in SUBSET S, \A x \in t : t \ {x} \in P PROVE t \in P
    OBVIOUS
  <2>1. IsFiniteSet(t) /\ \A x \in t : f[x] \in Int /\ g[x] \in Int
    BY FS_Subset
  <2>2. CASE t = {}
    <3>1. SumOf(g, t) = 0 /\ SumOf(f, t) = 0
      BY <2>1, <2>2, SumTakes
    <3> QED BY <3>1
  <2>3. CASE t # {}
    <3>1. PICK x \in t : TRUE
      BY <2>3
    <3>2. SumOf(g, t) = g[x] + SumOf(g, t \ {x}) /\ SumOf(f, t) = f[x] + SumOf(f, t \ {x})
      BY <2>1, <3>1, SumTakes
    <3>3. SumOf(g, t \ {x}) = SumOf(f, t \ {x}) /\ g[x] = f[x]
      BY <3>1
    <3> QED BY <3>2, <3>3
  <2> QED BY <2>2, <2>3
<1>2. \A t \in SUBSET S : t \in P
  <2> HIDE DEF P
  <2> QED BY <1>1, SetsInduction
<1> QED BY <1>2

\* A sum may be taken over the places its elements come from.
LEMMA Reindexed ==
    ASSUME NEW T, IsFiniteSet(T), NEW f, NEW p, NEW g,
           \A x \in T : f[p[x]] \in Int /\ g[x] = f[p[x]],
           \A x, y \in T : p[x] = p[y] => x = y
    PROVE  IsFiniteSet({p[x] : x \in T}) /\ SumOf(g, T) = SumOf(f, {p[x] : x \in T})
<1> DEFINE img(t) == {p[x] : x \in t}
           P == {t \in SUBSET T : IsFiniteSet(img(t)) /\ SumOf(g, t) = SumOf(f, img(t))}
<1>1. \A t \in SUBSET T : (\A x \in t : t \ {x} \in P) => t \in P
  <2> SUFFICES ASSUME NEW t \in SUBSET T, \A x \in t : t \ {x} \in P PROVE t \in P
    OBVIOUS
  <2>1. IsFiniteSet(t) /\ \A x \in t : g[x] \in Int
    BY FS_Subset
  <2>2. CASE t = {}
    <3>1. img(t) = {} /\ IsFiniteSet({})
      BY <2>2, FS_EmptySet
    <3>2. SumOf(g, t) = 0
      BY <2>1, <2>2, SumTakes
    <3>3. SumOf(f, img(t)) = 0
      <4>1. \A c \in {} : f[c] \in Int
        OBVIOUS
      <4> QED BY <3>1, <4>1, SumTakes
    <3> QED BY <3>1, <3>2, <3>3
  <2>3. CASE t # {}
    <3>1. PICK x \in t : TRUE
      BY <2>3
    <3>2. PICK I : I = img(t \ {x})
      OBVIOUS
    <3>3. IsFiniteSet(I) /\ SumOf(g, t \ {x}) = SumOf(f, I)
      BY <3>1, <3>2
    <3>4. SumOf(g, t) = g[x] + SumOf(g, t \ {x})
      <4> HIDE DEF P
      <4> QED BY <2>1, <3>1, SumTakes
    <3>5. img(t) = I \union {p[x]} /\ p[x] \notin I
      BY <3>1, <3>2
    <3>6. f[p[x]] \in Int /\ g[x] = f[p[x]] /\ \A c \in I : f[c] \in Int
      BY <3>1, <3>2
    <3> HIDE DEF img
    <3>7. SumOf(f, I \union {p[x]}) = f[p[x]] + SumOf(f, I)
      BY <3>3, <3>5, <3>6, SumAdds
    <3>8. IsFiniteSet(I \union {p[x]})
      BY <3>3, FS_AddElement
    <3> QED BY <3>3, <3>4, <3>5, <3>6, <3>7, <3>8
  <2> QED BY <2>2, <2>3
<1>2. \A t \in SUBSET T : t \in P
  <2> HIDE DEF P
  <2> QED BY <1>1, SetsInduction
<1> QED BY <1>2

\* A part of a sum of naturals is no more than the sum.
LEMMA SmallerPart ==
    ASSUME NEW S, IsFiniteSet(S), NEW f, \A x \in S : f[x] \in Nat, NEW T \in SUBSET S
    PROVE  SumOf(f, T) \in Nat /\ SumOf(f, S) \in Nat /\ SumOf(f, T) <= SumOf(f, S)
<1> DEFINE P == {t \in SUBSET S : SumOf(f, t \intersect T) <= SumOf(f, t)}
<1>0. \A t \in SUBSET S : IsFiniteSet(t) /\ SumOf(f, t) \in Nat
  <2> TAKE t \in SUBSET S
  <2>1. IsFiniteSet(t) /\ \A c \in t : f[c] \in Nat /\ f[c] <= f[c]
    BY FS_Subset
  <2> QED BY <2>1, SumOfNat
<1>1. \A t \in SUBSET S : (\A x \in t : t \ {x} \in P) => t \in P
  <2> SUFFICES ASSUME NEW t \in SUBSET S, \A x \in t : t \ {x} \in P PROVE t \in P
    OBVIOUS
  <2> DEFINE u == t \intersect T
  <2>1. /\ IsFiniteSet(t) /\ IsFiniteSet(u) /\ SumOf(f, t) \in Nat /\ SumOf(f, u) \in Nat
        /\ \A c \in t : f[c] \in Int
    BY <1>0
  <2>2. CASE t = u
    BY <2>1, <2>2
  <2>3. CASE t # u
    <3>1. PICK x \in t : x \notin u
      BY <2>3
    <3>2. SumOf(f, t) = f[x] + SumOf(f, t \ {x}) /\ f[x] \in Nat
      BY <2>1, <3>1, SumTakes
    <3>3. (t \ {x}) \intersect T = u
      BY <3>1
    <3>4. SumOf(f, u) <= SumOf(f, t \ {x})
      <4>1. SumOf(f, (t \ {x}) \intersect T) <= SumOf(f, t \ {x})
        BY <3>1
      <4> QED BY <3>3, <4>1
    <3>5. SumOf(f, t \ {x}) \in Nat
      BY <1>0
    <3>6. SumOf(f, u) <= SumOf(f, t)
      BY <2>1, <3>2, <3>4, <3>5
    <3> QED BY <3>6
  <2> QED BY <2>2, <2>3
<1>2. S \in P
  <2> HIDE DEF P
  <2>1. \A t \in SUBSET S : t \in P
    BY <1>1, SetsInduction
  <2> QED BY <2>1
<1>3. S \intersect T = T
  OBVIOUS
<1> QED BY <1>0, <1>2, <1>3

\* The greatest of zero and the values on a finite set.
LEMMA GreatestIs ==
    ASSUME NEW S, IsFiniteSet(S), NEW f, \A x \in S : f[x] \in Int
    PROVE  Max({0} \union {f[x] : x \in S}) \in Int
<1> DEFINE vals(t) == {0} \union {f[x] : x \in t}
           P == {t \in SUBSET S : \E a \in vals(t) : \A b \in vals(t) : a >= b}
<1>1. \A t \in SUBSET S : (\A x \in t : t \ {x} \in P) => t \in P
  <2> SUFFICES ASSUME NEW t \in SUBSET S, \A x \in t : t \ {x} \in P PROVE t \in P
    OBVIOUS
  <2>1. CASE t = {}
    <3>1. vals(t) = {0}
      BY <2>1
    <3> HIDE DEF vals
    <3> QED BY <3>1
  <2>2. CASE t # {}
    <3>1. PICK x \in t : TRUE
      BY <2>2
    <3>2. PICK a \in vals(t \ {x}) : \A b \in vals(t \ {x}) : a >= b
      BY <3>1
    <3>3. vals(t) = vals(t \ {x}) \union {f[x]} /\ vals(t) \subseteq Int
      BY <3>1
    <3> HIDE DEF vals
    <3>4. \E c \in vals(t) : \A b \in vals(t) : c >= b
      <4>1. CASE a >= f[x]
        BY <3>2, <3>3, <4>1
      <4>2. CASE ~(a >= f[x])
        <5>1. a \in Int /\ f[x] \in Int /\ f[x] > a
          BY <3>3, <4>2
        <5>2. \A b \in vals(t) : f[x] >= b
          <6> TAKE b \in vals(t)
          <6>1. b \in Int /\ (b = f[x] \/ a >= b)
            BY <3>2, <3>3
          <6> QED BY <5>1, <6>1
        <5> QED BY <3>3, <5>2
      <4> QED BY <4>1, <4>2
    <3> QED BY <3>4
  <2> QED BY <2>1, <2>2
<1>2. S \in P
  <2> HIDE DEF P
  <2>1. \A t \in SUBSET S : t \in P
    BY <1>1, SetsInduction
  <2> QED BY <2>1
<1>3. vals(S) \subseteq Int
  OBVIOUS
<1> HIDE DEF vals
<1>4. Max(vals(S)) \in Int
  BY <1>2, <1>3 DEF Max
<1> QED BY <1>4 DEF vals

\* b names n of the places, each once.
Chosen(b, n, places) ==
    /\ DOMAIN b = 1..n /\ n \in Nat
    /\ \A m \in DOMAIN b : b[m] \in places
    /\ \A m, o \in DOMAIN b : b[m] = b[o] => m = o

(***************************************************************************)
(* A stable sort finds a place for every rank: the numbers of those ahead  *)
(* are different for different places, and there are as many of them.      *)
(***************************************************************************)
LEMMA BestIs ==
    ASSUME NEW n \in Nat, NEW S, IsFiniteSet(S), S \subseteq Nat, NEW key, \A i \in S : key[i] \in Int
    PROVE  Chosen(Best(n, S, key), Lesser(n, Cardinality(S)), S)
<1>0. PICK b : b = Best(n, S, key)
  OBVIOUS
<1> DEFINE Ahead(i) == {j \in S : key[j] > key[i] \/ (key[j] = key[i] /\ j < i)}
           N == Cardinality(S)
           rank == [i \in S |-> Cardinality(Ahead(i))]
<1>1. N \in Nat
  BY FS_CardinalityType
<1>2. \A i \in S : i \notin Ahead(i) /\ Ahead(i) \subseteq S
  OBVIOUS
<1>3. \A i, j \in S : i # j => i \in Ahead(j) \/ j \in Ahead(i)
  OBVIOUS
<1>4. \A i, j \in S : i \in Ahead(j) => Ahead(i) \subseteq Ahead(j)
  <2> SUFFICES ASSUME NEW i \in S, NEW j \in S, i \in Ahead(j), NEW k \in Ahead(i)
               PROVE  k \in Ahead(j)
    OBVIOUS
  <2>1. /\ k \in S /\ key[i] \in Int /\ key[j] \in Int /\ key[k] \in Int
        /\ i \in Nat /\ j \in Nat /\ k \in Nat
        /\ key[i] > key[j] \/ (key[i] = key[j] /\ i < j)
        /\ key[k] > key[i] \/ (key[k] = key[i] /\ k < i)
    OBVIOUS
  <2>2. key[k] > key[j] \/ (key[k] = key[j] /\ k < j)
    BY <2>1
  <2> QED BY <2>1, <2>2
<1>5. b = [m \in 1..Lesser(n, N) |-> CHOOSE i \in S : Cardinality(Ahead(i)) = m - 1]
  BY <1>0 DEF Best
<1> HIDE DEF Ahead
<1>6. \A i \in S : IsFiniteSet(Ahead(i)) /\ Cardinality(Ahead(i)) \in Nat
  BY <1>2, FS_Subset, FS_CardinalityType
<1>7. \A i \in S : Cardinality(Ahead(i)) <= N - 1
  <2> TAKE i \in S
  <2>1. Ahead(i) \in SUBSET (S \ {i}) /\ IsFiniteSet(S \ {i}) /\ Cardinality(S \ {i}) = N - 1
    BY <1>2, FS_RemoveElement
  <2> HIDE DEF N
  <2> QED BY <2>1, FS_Subset
<1>8. \A i, j \in S : i \in Ahead(j) => Cardinality(Ahead(i)) < Cardinality(Ahead(j))
  <2> SUFFICES ASSUME NEW i \in S, NEW j \in S, i \in Ahead(j)
               PROVE  Cardinality(Ahead(i)) < Cardinality(Ahead(j))
    OBVIOUS
  <2>1. Ahead(i) \subseteq Ahead(j) /\ Ahead(i) # Ahead(j)
    BY <1>2, <1>4
  <2>2. Cardinality(Ahead(i)) <= Cardinality(Ahead(j)) /\ Cardinality(Ahead(i)) # Cardinality(Ahead(j))
    BY <1>6, <2>1, FS_Subset
  <2> QED BY <1>6, <2>2
<1>9. \A i, j \in S : Cardinality(Ahead(i)) = Cardinality(Ahead(j)) => i = j
  BY <1>3, <1>6, <1>8
<1>10. rank \in Injection(S, 0..N - 1)
  <2>1. \A i \in S : rank[i] \in 0..N - 1
    BY <1>1, <1>6, <1>7
  <2> HIDE DEF N
  <2> QED BY <1>9, <2>1 DEF Injection, IsInjective
<1>11. IsFiniteSet(0..N - 1) /\ Cardinality(0..N - 1) = N
  <2>1. PICK c \in Nat : c = N
    BY <1>1
  <2>2. 0 \in Int /\ c - 1 \in Int /\ (0 > c - 1 => c = 0) /\ c - 1 - 0 + 1 = c
    OBVIOUS
  <2>3. IsFiniteSet(0..c - 1) /\ Cardinality(0..c - 1) = IF 0 > c - 1 THEN 0 ELSE c - 1 - 0 + 1
    BY <2>2, FS_Interval
  <2>4. Cardinality(0..c - 1) = c
    BY <2>2, <2>3
  <2> HIDE DEF N
  <2> QED BY <2>1, <2>3, <2>4
<1>12. rank \in Surjection(S, 0..N - 1)
  <2> HIDE DEF rank
  <2> QED BY <1>10, <1>11, FS_Injection
<1>13. \A m \in 1..N : \E i \in S : Cardinality(Ahead(i)) = m - 1
  <2> TAKE m \in 1..N
  <2>1. m - 1 \in 0..N - 1
    BY <1>1
  <2>2. \E i \in S : rank[i] = m - 1
    <3> HIDE DEF rank
    <3> QED BY <1>12, <2>1 DEF Surjection
  <2> QED BY <2>2
<1> HIDE DEF N, rank
<1>14. Lesser(n, N) \in Nat /\ 1..Lesser(n, N) \subseteq 1..N
  BY <1>1 DEF Lesser
<1>15. \A m \in 1..Lesser(n, N) : b[m] \in S /\ Cardinality(Ahead(b[m])) = m - 1
  BY <1>5, <1>13, <1>14
<1>16. Chosen(b, Lesser(n, N), S)
  BY <1>5, <1>14, <1>15 DEF Chosen
<1> QED BY <1>0, <1>16 DEF N
----------------------------------------------------------------------------
(* The scan's invariant *)

Strategies == {"cross_asset", "flow", "catalyst", "stat_arb"}
Before == {"begin", "end", "rotate", "sweeps", "dark_pool", "answers", "events", "pairs", "spreads"}

Given ==
    /\ scan.strategy \in Strategies
    /\ \E x \in Settings : scan.vix = x.vix /\ scan.average = x.average /\ scan.sizing = x.sizing
                                            /\ scan.atr = x.atr
    /\ scan.strategy = "cross_asset" => feed \in Readings
    /\ scan.strategy \in {"flow", "catalyst"} => feed \in SweepsFound

\* The parts belong to the strategies.
Places ==
    /\ at \in Before \union {"returned", "news", "done"}
    /\ at = "rotate" => scan.strategy = "cross_asset"
    /\ at \in {"sweeps", "dark_pool"} => scan.strategy = "flow"
    /\ at \in {"answers", "events"} => scan.strategy = "catalyst"
    /\ at \in {"pairs", "spreads"} => scan.strategy = "stat_arb"
    /\ at \in {"begin", "returned", "done"} => found = <<>> /\ exposure = 0
    /\ at \in Before => signals = <<>>

IsList(l) == l \in Seq(ToSet(l))

Stands(s) == IF s.direction = "long" THEN s.stop < Price /\ Price < s.target
                                     ELSE s.target < Price /\ Price < s.stop
Sound(s) ==
    /\ s = Signal(s.from, s.ticker, s.direction, s.conviction, s.size, s.stop, s.target)
    /\ s.size \in Nat /\ s.conviction \in Int
    /\ Stands(s)

\* Who is looking for signals, and who may have found some.
Source == IF at = "news" THEN "news" ELSE scan.strategy
MayHaveSignalled == {scan.strategy} \union IF at = "done" THEN {"news"} ELSE {}

GoodList(l, sources) ==
    /\ IsList(l)
    /\ \A i \in DOMAIN l : Sound(l[i]) /\ l[i].from \in sources
    /\ \A i, j \in DOMAIN l : l[i].ticker = l[j].ticker => i = j

Lists == GoodList(found, {Source}) /\ GoodList(signals, MayHaveSignalled)
Apart == \A i \in DOMAIN found : \A j \in DOMAIN signals : found[i].ticker # signals[j].ticker

\* What a pass has yet to look at has no signal, but for the answers.
Pending ==
    /\ at = "rotate" =>
         /\ IsList(todo) /\ \A i, j \in DOMAIN todo : todo[i] = todo[j] => i = j
         /\ \A i \in DOMAIN todo : todo[i] \notin Tickers(found)
    /\ at = "sweeps" => todo \subseteq DOMAIN feed \ Tickers(found)
    /\ at = "dark_pool" => todo \subseteq DOMAIN Universe /\ \A i \in todo : Universe[i] \notin Tickers(found)
    /\ at = "events" => todo \subseteq DOMAIN feed
    /\ at = "news" =>
         /\ IsList(todo) /\ \A i, j \in DOMAIN todo : todo[i].ticker = todo[j].ticker => i = j
         /\ \A i \in DOMAIN todo :
              /\ todo[i].mood \in Int
              /\ todo[i].ticker \notin Tickers(found) \union Tickers(signals)

\* The pass counts what it has found; from the news come a few trades of 6.8 % each.
Counted ==
    /\ exposure \in Nat /\ Total(found, Source) <= exposure
    /\ at \in Before /\ scan.strategy = "cross_asset" => exposure <= 15000
    /\ at \in Before /\ scan.strategy = "flow" => exposure < 14000
    /\ at = "news" => Len(found) <= MaxFromNews /\ exposure <= Len(found) * 6800

Limit(source) == CASE source = "cross_asset" -> 15000
                   [] source = "flow" -> 13999
                   [] source = "news" -> MaxFromNews * 6800
Kept == \A source \in {"cross_asset", "flow", "news"} : Total(signals, source) <= Limit(source)

SInv == Given /\ Places /\ Lists /\ Apart /\ Pending /\ Counted /\ Kept

----------------------------------------------------------------------------
(* Lists *)

LEMMA ListParts ==
    ASSUME NEW l, IsList(l)
    PROVE  /\ Len(l) \in Nat /\ DOMAIN l = 1..Len(l) /\ DOMAIN l \subseteq Nat
           /\ IsFiniteSet(DOMAIN l) /\ Cardinality(DOMAIN l) = Len(l)
<1>1. Len(l) \in Nat /\ DOMAIN l = 1..Len(l)
  BY DEF IsList
<1>2. IsFiniteSet(1..Len(l)) /\ Cardinality(1..Len(l)) = Len(l)
  <2>1. PICK n \in Nat : n = Len(l)
    BY <1>1
  <2>2. 1 \in Int /\ n \in Int /\ (1 > n => n = 0) /\ n - 1 + 1 = n
    OBVIOUS
  <2>3. IsFiniteSet(1..n) /\ Cardinality(1..n) = IF 1 > n THEN 0 ELSE n - 1 + 1
    BY <2>2, FS_Interval
  <2> QED BY <2>1, <2>2, <2>3
<1> QED BY <1>1, <1>2

LEMMA ListOf ==
    ASSUME NEW n \in Nat, NEW S, NEW l \in [1..n -> S]
    PROVE  IsList(l) /\ Len(l) = n
<1>1. l \in [1..n -> ToSet(l)]
  BY DEF ToSet
<1>2. l \in Seq(ToSet(l)) /\ Len(l) = n
  BY <1>1
<1> QED BY <1>2 DEF IsList

LEMMA Empty == IsList(<<>>) /\ Len(<<>>) = 0 /\ DOMAIN <<>> = {} /\ Tickers(<<>>) = {}
BY DEF IsList, Tickers

\* a is l and then s.
Longer(a, l, s) ==
    /\ IsList(a) /\ Len(a) = Len(l) + 1
    /\ \A i \in DOMAIN l : a[i] = l[i]
    /\ a[Len(l) + 1] = s
    /\ DOMAIN a = DOMAIN l \union {Len(l) + 1} /\ Len(l) + 1 \notin DOMAIN l

\* a is l and then k.
Joined(a, l, k) ==
    /\ IsList(a) /\ DOMAIN a = 1..Len(l) + Len(k)
    /\ \A i \in DOMAIN l : i \in DOMAIN a /\ a[i] = l[i]
    /\ \A i \in DOMAIN k : Len(l) + i \in DOMAIN a /\ Len(l) + i \notin DOMAIN l /\ a[Len(l) + i] = k[i]
    /\ \A i \in DOMAIN a : i \in DOMAIN l \/ i - Len(l) \in DOMAIN k

LEMMA Appended ==
    ASSUME NEW l, IsList(l), NEW s
    PROVE  Longer(Append(l, s), l, s)
<1>0. PICK a : a = Append(l, s)
  OBVIOUS
<1> DEFINE S == ToSet(l) \union {s}
<1>1. l \in Seq(S) /\ s \in S
  BY DEF IsList, ToSet
<1> HIDE DEF S
<1>2. a \in Seq(S) /\ Len(a) = Len(l) + 1 /\ Len(l) \in Nat /\ DOMAIN l = 1..Len(l)
  BY <1>0, <1>1
<1>3. \A i \in 1..Len(l) + 1 : a[i] = IF i <= Len(l) THEN l[i] ELSE s
  BY <1>0, <1>1
<1>4. a \in [1..Len(l) + 1 -> S]
  BY <1>2, LenProperties
<1>5. IsList(a)
  <2>1. PICK n \in Nat : n = Len(l) + 1
    BY <1>2
  <2> QED BY <1>4, <2>1, ListOf
<1> QED BY <1>0, <1>2, <1>3, <1>4, <1>5 DEF Longer

LEMMA JoinedList ==
    ASSUME NEW l, IsList(l), NEW k, IsList(k)
    PROVE  Joined(l \o k, l, k)
<1>0. PICK a : a = l \o k
  OBVIOUS
<1> DEFINE S == ToSet(l) \union ToSet(k)
<1>1. l \in Seq(S) /\ k \in Seq(S)
  BY DEF IsList, ToSet
<1> HIDE DEF S
<1>2. /\ a \in Seq(S) /\ Len(a) = Len(l) + Len(k)
      /\ Len(l) \in Nat /\ DOMAIN l = 1..Len(l) /\ Len(k) \in Nat /\ DOMAIN k = 1..Len(k)
  BY <1>0, <1>1
<1>3. \A i \in 1..Len(l) + Len(k) : a[i] = IF i <= Len(l) THEN l[i] ELSE k[i - Len(l)]
  BY <1>0, <1>1
<1>4. a \in [1..Len(l) + Len(k) -> S]
  BY <1>2, LenProperties
<1>5. IsList(a)
  <2>1. PICK n \in Nat : n = Len(l) + Len(k)
    BY <1>2
  <2> QED BY <1>4, <2>1, ListOf
<1>6. \A i \in DOMAIN k : Len(l) + i \in 1..Len(l) + Len(k) /\ ~(Len(l) + i <= Len(l)) /\ Len(l) + i - Len(l) = i
  BY <1>2
<1>7. \A i \in 1..Len(l) + Len(k) : i <= Len(l) \/ i - Len(l) \in 1..Len(k)
  BY <1>2
<1>8. DOMAIN a = 1..Len(l) + Len(k)
  BY <1>4
<1> QED BY <1>0, <1>2, <1>3, <1>5, <1>6, <1>7, <1>8 DEF Joined

LEMMA RestOf ==
    ASSUME NEW l, IsList(l), l # <<>>
    PROVE  /\ IsList(Tail(l)) /\ 1 \in DOMAIN l /\ Head(l) = l[1]
           /\ \A i \in DOMAIN Tail(l) : i + 1 \in DOMAIN l /\ i # 0 /\ i \in Nat /\ Tail(l)[i] = l[i + 1]
<1>1. l \in Seq(ToSet(l))
  BY DEF IsList
<1>2. PICK S : S = ToSet(l)
  OBVIOUS
<1>3. /\ Len(l) \in Nat /\ Len(l) # 0 /\ DOMAIN l = 1..Len(l) /\ Head(l) = l[1]
      /\ Tail(l) \in Seq(S) /\ Len(Tail(l)) = Len(l) - 1
  BY <1>1, <1>2
<1>4. \A i \in 1..Len(l) - 1 : Tail(l)[i] = l[i + 1]
  BY <1>1, <1>2
<1>5. Tail(l) \in [1..Len(l) - 1 -> S] /\ Len(l) - 1 \in Nat
  BY <1>3, LenProperties
<1>6. IsList(Tail(l))
  BY <1>5, ListOf
<1> QED BY <1>3, <1>4, <1>5, <1>6
----------------------------------------------------------------------------
(* Totals of lists *)

Sizes(l) == [i \in DOMAIN l |-> l[i].size]
Of(l, source) == {i \in DOMAIN l : l[i].from = source}
Sized(l) == IsList(l) /\ \A i \in DOMAIN l : l[i].size \in Nat

LEMMA TotalIs ==
    ASSUME NEW l, Sized(l), NEW source
    PROVE  /\ Total(l, source) = SumOf(Sizes(l), Of(l, source)) /\ Total(l, source) \in Nat
           /\ IsFiniteSet(Of(l, source)) /\ \A i \in Of(l, source) : Sizes(l)[i] \in Nat
           /\ (\A i \in DOMAIN l : l[i].from # source) => Total(l, source) = 0
<1>1. Total(l, source) = SumOf(Sizes(l), Of(l, source))
  BY DEF Total, SumOf, Sizes, Of
<1>2. IsFiniteSet(Of(l, source))
  <2>1. IsFiniteSet(DOMAIN l) /\ Of(l, source) \in SUBSET DOMAIN l
    BY ListParts DEF Sized, Of
  <2> QED BY <2>1, FS_Subset
<1>3. \A i \in Of(l, source) : Sizes(l)[i] \in Nat /\ Sizes(l)[i] <= Sizes(l)[i]
  BY DEF Sized, Sizes, Of
<1>4. SumOf(Sizes(l), Of(l, source)) \in Nat
  BY <1>2, <1>3, SumOfNat
<1>5. ASSUME \A i \in DOMAIN l : l[i].from # source PROVE Total(l, source) = 0
  <2>1. Of(l, source) = {} /\ \A i \in {} : Sizes(l)[i] \in Int
    BY <1>5 DEF Of
  <2>2. SumOf(Sizes(l), {}) = 0
    BY <2>1, FS_EmptySet, SumTakes
  <2> QED BY <1>1, <2>1, <2>2
<1> QED BY <1>1, <1>2, <1>3, <1>4, <1>5

\* Lists that agree where the signals of a source are have the same total of it.
LEMMA TotalSame ==
    ASSUME NEW l, Sized(l), NEW k, Sized(k), NEW source, Of(k, source) = Of(l, source),
           \A i \in Of(l, source) : k[i].size = l[i].size
    PROVE  Total(k, source) = Total(l, source)
<1>1. \A i \in Of(l, source) : Sizes(l)[i] \in Int /\ Sizes(k)[i] = Sizes(l)[i]
  <2>1. \A i \in Of(l, source) : i \in DOMAIN l /\ i \in DOMAIN k
    BY DEF Of
  <2> QED BY <2>1 DEF Sizes, Sized
<1>2. SumOf(Sizes(k), Of(l, source)) = SumOf(Sizes(l), Of(l, source))
  BY <1>1, TotalIs, SumsEqual
<1> QED BY <1>2, TotalIs

LEMMA TotalAdds ==
    ASSUME NEW l, Sized(l), NEW s, s.size \in Nat, NEW a, a = Append(l, s)
    PROVE  Sized(a) /\ \A source : Total(a, source) = Total(l, source) + IF s.from = source THEN s.size ELSE 0
<1> DEFINE n == Len(l) + 1
<1>1. /\ IsList(l) /\ IsList(a) /\ DOMAIN a = DOMAIN l \union {n} /\ n \notin DOMAIN l
      /\ a[n] = s /\ \A i \in DOMAIN l : a[i] = l[i]
  <2>1. IsList(l)
    BY DEF Sized
  <2>2. Longer(a, l, s)
    BY <2>1, Appended
  <2> QED BY <2>1, <2>2 DEF Longer
<1> HIDE DEF n
<1>2. Sized(a)
  BY <1>1 DEF Sized
<1>3. ASSUME NEW source, s.from # source PROVE Total(a, source) = Total(l, source)
  <2>1. Of(a, source) = Of(l, source) /\ \A i \in Of(l, source) : a[i].size = l[i].size
    BY <1>1, <1>3 DEF Of
  <2> QED BY <1>2, <2>1, TotalSame
<1>4. ASSUME NEW source, s.from = source PROVE Total(a, source) = Total(l, source) + s.size
  <2>1. Of(a, source) = Of(l, source) \union {n} /\ n \notin Of(l, source)
    BY <1>1, <1>4 DEF Of
  <2>2. \A i \in Of(l, source) : Sizes(a)[i] = Sizes(l)[i] /\ Sizes(l)[i] \in Int
    BY <1>1 DEF Of, Sizes, Sized
  <2>3. IsFiniteSet(Of(l, source)) /\ \A i \in Of(l, source) : Sizes(a)[i] \in Int
    BY <2>2, TotalIs
  <2>4. Sizes(a)[n] = s.size /\ s.size \in Int
    BY <1>1 DEF Sizes
  <2>5. SumOf(Sizes(a), Of(l, source) \union {n}) = s.size + SumOf(Sizes(a), Of(l, source))
    BY <2>1, <2>3, <2>4, SumAdds
  <2>6. SumOf(Sizes(a), Of(l, source)) = SumOf(Sizes(l), Of(l, source))
    BY <2>2, <2>3, SumsEqual
  <2>7. /\ Total(a, source) = SumOf(Sizes(a), Of(a, source)) /\ Total(l, source) \in Nat
        /\ Total(l, source) = SumOf(Sizes(l), Of(l, source))
    BY <1>2, TotalIs
  <2> QED BY <2>1, <2>4, <2>5, <2>6, <2>7
<1>5. \A source : Total(l, source) \in Nat
  BY TotalIs
<1> QED BY <1>2, <1>3, <1>4, <1>5

LEMMA TotalTakes ==
    ASSUME NEW l, Sized(l), NEW s, s.size \in Nat
    PROVE  Total(Append(l, s), s.from) = Total(l, s.from) + s.size
<1>1. PICK a : a = Append(l, s)
  OBVIOUS
<1>2. PICK source : source = s.from
  OBVIOUS
<1>3. Total(a, source) = Total(l, source) + s.size
  BY <1>1, <1>2, TotalAdds
<1> QED BY <1>1, <1>2, <1>3

\* Of two lists only one has signals of the source.
LEMMA TotalJoins ==
    ASSUME NEW l, Sized(l), NEW k, Sized(k), NEW source
    PROVE  /\ Sized(l \o k)
           /\ (\A i \in DOMAIN k : k[i].from # source) => Total(l \o k, source) = Total(l, source)
           /\ (\A i \in DOMAIN l : l[i].from # source) => Total(l \o k, source) = Total(k, source)
<1>0. PICK a : a = l \o k
  OBVIOUS
<1>1. /\ IsList(a)
      /\ \A i \in DOMAIN l : i \in DOMAIN a /\ a[i] = l[i]
      /\ \A i \in DOMAIN k : Len(l) + i \in DOMAIN a /\ a[Len(l) + i] = k[i]
      /\ \A i \in DOMAIN a : i \in DOMAIN l \/ i - Len(l) \in DOMAIN k
      /\ Len(l) \in Nat /\ DOMAIN l \subseteq Nat /\ DOMAIN k \subseteq Nat /\ DOMAIN a \subseteq Nat
  <2>1. IsList(l) /\ IsList(k)
    BY DEF Sized
  <2>2. Joined(a, l, k)
    BY <1>0, <2>1, JoinedList
  <2>3. Len(l) \in Nat /\ DOMAIN l \subseteq Nat /\ DOMAIN k \subseteq Nat /\ DOMAIN a \subseteq Nat
    BY <2>1, <2>2, ListParts DEF Joined
  <2> QED BY <2>2, <2>3 DEF Joined
<1>2. \A i \in DOMAIN a : i \in DOMAIN l \/ (i - Len(l) \in DOMAIN k /\ a[i] = k[i - Len(l)])
  <2> TAKE i \in DOMAIN a
  <2>1. Len(l) + (i - Len(l)) = i
    BY <1>1
  <2> QED BY <1>1, <2>1
<1>3. Sized(a)
  BY <1>1, <1>2 DEF Sized
<1>4. ASSUME \A i \in DOMAIN k : k[i].from # source PROVE Total(a, source) = Total(l, source)
  <2>1. Of(a, source) = Of(l, source) /\ \A i \in Of(l, source) : a[i].size = l[i].size
    BY <1>1, <1>2, <1>4 DEF Of
  <2> QED BY <1>3, <2>1, TotalSame
<1>5. ASSUME \A i \in DOMAIN l : l[i].from # source PROVE Total(a, source) = Total(k, source)
  <2> DEFINE p == [i \in DOMAIN k |-> Len(l) + i]
             T == Of(k, source)
  <2>1. T \subseteq DOMAIN k
    BY DEF Of
  <2>2. \A i \in DOMAIN k : p[i] = Len(l) + i /\ p[i] \in DOMAIN a /\ a[p[i]] = k[i]
    BY <1>1
  <2>3. Of(a, source) = {p[i] : i \in T}
    <3>1. ASSUME NEW j \in Of(a, source) PROVE \E i \in T : j = p[i]
      <4>1. j \in DOMAIN a /\ a[j].from = source
        BY DEF Of
      <4>2. j \notin DOMAIN l
        BY <1>1, <1>5, <4>1
      <4>3. j - Len(l) \in DOMAIN k /\ a[j] = k[j - Len(l)] /\ Len(l) + (j - Len(l)) = j
        BY <1>1, <1>2, <4>1, <4>2
      <4> QED BY <4>1, <4>3 DEF Of
    <3>2. ASSUME NEW i \in T PROVE p[i] \in Of(a, source)
      <4>1. i \in DOMAIN k /\ k[i].from = source
        BY DEF Of
      <4> HIDE DEF p
      <4> QED BY <2>2, <4>1 DEF Of
    <3> HIDE DEF p, T
    <3> QED BY <3>1, <3>2
  <2>4. \A i, j \in T : p[i] = p[j] => i = j
    BY <1>1, <2>1
  <2>5. \A i \in T : Sizes(a)[p[i]] \in Int /\ Sizes(k)[i] = Sizes(a)[p[i]]
    <3> HIDE DEF p
    <3> QED BY <2>1, <2>2 DEF Sizes, Sized
  <2>6. IsFiniteSet(T)
    BY TotalIs
  <2> HIDE DEF p, T
  <2>7. SumOf(Sizes(k), T) = SumOf(Sizes(a), {p[i] : i \in T})
    <3>1. PICK f : f = Sizes(a)
      OBVIOUS
    <3>2. PICK g : g = Sizes(k)
      OBVIOUS
    <3>3. /\ \A i \in T : f[p[i]] \in Int /\ g[i] = f[p[i]]
          /\ \A i, j \in T : p[i] = p[j] => i = j
      BY <2>4, <2>5, <3>1, <3>2
    <3>4. SumOf(g, T) = SumOf(f, {p[i] : i \in T})
      BY <2>6, <3>3, Reindexed
    <3> QED BY <3>1, <3>2, <3>4
  <2> QED BY <1>3, <2>3, <2>7, TotalIs DEF T
<1> QED BY <1>0, <1>3, <1>4, <1>5

\* Some of a list's signals, each once, add up to no more than all.
LEMMA TotalPart ==
    ASSUME NEW l, Sized(l), NEW b, \A m \in DOMAIN b : b[m] \in DOMAIN l,
           \A m, o \in DOMAIN b : b[m] = b[o] => m = o,
           IsList(At(l, b)), NEW source
    PROVE  Sized(At(l, b)) /\ Total(At(l, b), source) <= Total(l, source)
<1>1. DOMAIN At(l, b) = DOMAIN b /\ \A m \in DOMAIN b : At(l, b)[m] = l[b[m]]
  BY DEF At
<1>2. PICK a : a = At(l, b)
  OBVIOUS
<1>3. Sized(a)
  BY <1>1, <1>2 DEF Sized
<1> DEFINE T == Of(a, source)
           I == {b[m] : m \in T}
<1>4. T \subseteq DOMAIN b /\ I \in SUBSET Of(l, source)
  BY <1>1, <1>2 DEF Of
<1>5. \A m \in T : Sizes(l)[b[m]] \in Int /\ Sizes(a)[m] = Sizes(l)[b[m]]
  BY <1>1, <1>2, <1>4 DEF Sizes, Sized
<1>6. IsFiniteSet(T) /\ IsFiniteSet(Of(l, source)) /\ \A i \in Of(l, source) : Sizes(l)[i] \in Nat
  BY <1>3, TotalIs
<1>7. \A m, o \in T : b[m] = b[o] => m = o
  BY <1>4
<1> HIDE DEF T
<1>8. SumOf(Sizes(a), T) = SumOf(Sizes(l), I)
  BY <1>5, <1>6, <1>7, Reindexed
<1> HIDE DEF I
<1>9. SumOf(Sizes(l), I) <= SumOf(Sizes(l), Of(l, source))
  BY <1>4, <1>6, SmallerPart
<1>10. Total(a, source) = SumOf(Sizes(a), T) /\ Total(l, source) = SumOf(Sizes(l), Of(l, source))
  BY <1>3, TotalIs DEF T
<1> QED BY <1>2, <1>3, <1>8, <1>9, <1>10

----------------------------------------------------------------------------
(* Lists of sound signals *)

LEMMA GoodIsSized ==
    ASSUME NEW l, NEW S, GoodList(l, S)
    PROVE  Sized(l)
BY DEF GoodList, Sized, Sound

LEMMA NoneIsGood == \A S : GoodList(<<>>, S) /\ \A source : Total(<<>>, source) = 0
<1>1. \A S : GoodList(<<>>, S)
  BY Empty DEF GoodList
<1>2. Sized(<<>>) /\ \A i \in DOMAIN <<>> : <<>>[i].from # 0
  BY Empty DEF Sized
<1>3. ASSUME NEW source PROVE Total(<<>>, source) = 0
  <2>1. \A i \in DOMAIN <<>> : <<>>[i].from # source
    BY Empty
  <2> QED BY <1>2, <2>1, TotalIs
<1> QED BY <1>1, <1>3

LEMMA GoodAppend ==
    ASSUME NEW l, NEW S, GoodList(l, S), NEW s, Sound(s), s.from \in S, s.ticker \notin Tickers(l)
    PROVE  GoodList(Append(l, s), S) /\ Tickers(Append(l, s)) = Tickers(l) \union {s.ticker}
<1>1. PICK a : a = Append(l, s)
  OBVIOUS
<1>2. PICK n : n = Len(l) + 1
  OBVIOUS
<1>3. /\ IsList(a) /\ DOMAIN a = DOMAIN l \union {n} /\ n \notin DOMAIN l
      /\ a[n] = s /\ \A i \in DOMAIN l : a[i] = l[i]
  <2>1. IsList(l)
    BY DEF GoodList
  <2>2. Longer(a, l, s)
    BY <1>1, <2>1, Appended
  <2> QED BY <1>2, <2>2 DEF Longer
<1>4. \A i \in DOMAIN a : Sound(a[i]) /\ a[i].from \in S
  BY <1>3 DEF GoodList
<1>5. \A i, j \in DOMAIN a : a[i].ticker = a[j].ticker => i = j
  BY <1>3 DEF GoodList, Tickers
<1>6. Tickers(a) = Tickers(l) \union {s.ticker}
  BY <1>3 DEF Tickers
<1> QED BY <1>1, <1>3, <1>4, <1>5, <1>6 DEF GoodList

LEMMA GoodJoin ==
    ASSUME NEW l, NEW S, GoodList(l, S), NEW k, NEW T, GoodList(k, T),
           \A i \in DOMAIN k : \A j \in DOMAIN l : k[i].ticker # l[j].ticker
    PROVE  GoodList(l \o k, S \union T)
<1>1. PICK a : a = l \o k
  OBVIOUS
<1>2. /\ IsList(a)
      /\ \A i \in DOMAIN l : i \in DOMAIN a /\ a[i] = l[i]
      /\ \A i \in DOMAIN k : Len(l) + i \in DOMAIN a /\ a[Len(l) + i] = k[i]
      /\ \A i \in DOMAIN a : i \in DOMAIN l \/ i - Len(l) \in DOMAIN k
      /\ Len(l) \in Nat /\ DOMAIN a \subseteq Nat
  <2>1. IsList(l) /\ IsList(k)
    BY DEF GoodList
  <2>2. Joined(a, l, k)
    BY <1>1, <2>1, JoinedList
  <2>3. Len(l) \in Nat /\ DOMAIN a \subseteq Nat
    BY <2>1, <2>2, ListParts DEF Joined
  <2> QED BY <2>2, <2>3 DEF Joined
<1>3. \A i \in DOMAIN a : \/ i \in DOMAIN l /\ a[i] = l[i]
                          \/ \E o \in DOMAIN k : i = Len(l) + o /\ a[i] = k[o]
  <2> TAKE i \in DOMAIN a
  <2>1. Len(l) + (i - Len(l)) = i
    BY <1>2
  <2> QED BY <1>2, <2>1
<1>4. \A i \in DOMAIN a : Sound(a[i]) /\ a[i].from \in S \union T
  BY <1>3 DEF GoodList
<1>5. \A i, j \in DOMAIN a : a[i].ticker = a[j].ticker => i = j
  BY <1>3 DEF GoodList
<1> QED BY <1>1, <1>2, <1>4, <1>5 DEF GoodList

\* The best n are some of the list, each once.
LEMMA TopIs ==
    ASSUME NEW l, NEW S, GoodList(l, S), NEW n \in Nat
    PROVE  /\ GoodList(Top(n, l), S) /\ Tickers(Top(n, l)) \subseteq Tickers(l)
           /\ \A source : Total(Top(n, l), source) <= Total(l, source)
<1> DEFINE key == [i \in DOMAIN l |-> l[i].conviction]
<1>1. PICK b : b = Best(n, DOMAIN l, key)
  OBVIOUS
<1>2. IsFiniteSet(DOMAIN l) /\ DOMAIN l \subseteq Nat /\ \A i \in DOMAIN l : key[i] \in Int
  BY ListParts DEF GoodList, Sound
<1>3. PICK size0 \in Nat : /\ DOMAIN b = 1..size0
                           /\ \A m \in DOMAIN b : b[m] \in DOMAIN l
                           /\ \A m, o \in DOMAIN b : b[m] = b[o] => m = o
  <2> HIDE DEF key
  <2>1. Chosen(b, Lesser(n, Cardinality(DOMAIN l)), DOMAIN l)
    BY <1>1, <1>2, BestIs
  <2> QED BY <2>1 DEF Chosen
<1>4. PICK a : a = At(l, b)
  OBVIOUS
<1>5. DOMAIN a = 1..size0 /\ \A m \in 1..size0 : a[m] = l[b[m]] /\ b[m] \in DOMAIN l
  BY <1>3, <1>4 DEF At
<1>6. IsList(a)
  <2>1. a \in [1..size0 -> {a[m] : m \in 1..size0}]
    BY <1>3, <1>4 DEF At
  <2> QED BY <2>1, ListOf
<1>7. GoodList(a, S) /\ Tickers(a) \subseteq Tickers(l)
  BY <1>3, <1>5, <1>6 DEF GoodList, Tickers
<1>8. \A source : Total(a, source) <= Total(l, source)
  BY <1>3, <1>4, <1>6, GoodIsSized, TotalPart
<1>9. Top(n, l) = a
  BY <1>1, <1>4 DEF Top
<1> QED BY <1>7, <1>8, <1>9
----------------------------------------------------------------------------
(* Scales, sizes and stops *)

LEMMA Quotient ==
    ASSUME NEW a \in Nat, NEW b \in Nat \ {0}
    PROVE  a \div b \in Nat
<1> DEFINE q == a \div b
<1>1. q \in Int /\ b * q <= a /\ a < b * q + b
  OBVIOUS
<1>2. q >= 0
  <2> SUFFICES ASSUME ~(q >= 0) PROVE FALSE
    OBVIOUS
  <2> HIDE DEF q
  <2>1. q + 1 <= 0 /\ b * (q + 1) = b * q + b /\ b * (q + 1) <= 0
    BY <1>1
  <2> QED BY <1>1, <2>1
<1> QED BY <1>1, <1>2

LEMMA ProductBounds ==
    ASSUME NEW a \in Nat, NEW b \in Nat, NEW least \in Nat, NEW most \in Nat, NEW top \in Nat,
           a >= least, a <= most
    PROVE  /\ a * b \in Nat
           /\ b >= 1 => a * b >= least
           /\ b <= top => a * b <= most * top
<1>1. a * b \in Nat
  OBVIOUS
<1>2. b >= 1 => a * b >= a
  OBVIOUS
<1>3. b <= top => a * b <= a * top
  OBVIOUS
<1>4. a * top <= most * top
  OBVIOUS
<1>5. most * top \in Nat /\ a * top \in Nat
  OBVIOUS
<1> QED BY <1>1, <1>2, <1>3, <1>4, <1>5

LEMMA MarketIs ==
    ASSUME Given
    PROVE  /\ scan.vix \in Nat \ {0} /\ scan.average \in Nat \ {0} /\ scan.atr \in Nat \ {0}
           /\ scan.sizing \in {"quarter_kelly", "half_kelly", "equal_risk"}
BY SettingsAreMarkets DEF Given

LEMMA Scales ==
    ASSUME Given
    PROVE  /\ VolScale \in Nat
           /\ PositionScale \in Nat /\ 30 <= PositionScale /\ PositionScale <= 200
           /\ TargetReturn \in 8..15
<1>1. PICK v \in Nat \ {0} : v = scan.vix
  BY MarketIs
<1>2. PICK a \in Nat \ {0} : a = scan.average
  BY MarketIs
<1>3. VolScale \in Nat
  <2>1. (100 * v) \div a \in Nat
    BY Quotient
  <2> QED BY <1>1, <1>2, <2>1 DEF VolScale
<1>4. PositionScale \in Nat /\ 30 <= PositionScale /\ PositionScale <= 200
  <2>1. (100 * a) \div v \in Nat
    BY Quotient
  <2>2. PICK q \in Nat : q = (100 * a) \div v
    BY <2>1
  <2> QED BY <1>1, <1>2, <2>2 DEF PositionScale, Clamp
<1>5. TargetReturn \in 8..15
  <2>1. PICK q \in Nat : q = VolScale
    BY <1>3
  <2>2. PICK c \in 80..150 : c = Clamp(80, VolScale, 150)
    BY <2>1 DEF Clamp
  <2>3. (10 * c) \div 100 \in 8..15
    OBVIOUS
  <2> QED BY <2>2, <2>3 DEF TargetReturn
<1> QED BY <1>3, <1>4, <1>5

LEMMA KellyIs ==
    ASSUME Given, NEW x \in Strategies
    PROVE  KellyFraction(x) \in Nat /\ KellyFraction(x) <= 10 * STRATEGY_CAPS[x]
<1>1. PICK p \in Nat : p = PositionScale
  BY Scales
<1>2. PICK s \in {"quarter_kelly", "half_kelly", "equal_risk"} : s = scan.sizing
  BY MarketIs
<1>3. PICK cap \in Nat : cap = STRATEGY_CAPS[x]
  BY DEF STRATEGY_CAPS, Strategies
<1> DEFINE raw == CASE s = "quarter_kelly" -> (100 * p + 24) \div 48
                    [] s = "half_kelly" -> (100 * p + 12) \div 24
                    [] s = "equal_risk" -> p
<1>4. raw \in Nat
  <2>1. (100 * p + 24) \div 48 \in Nat /\ (100 * p + 12) \div 24 \in Nat
    OBVIOUS
  <2> QED BY <1>2, <2>1
<1>5. KellyFraction(x) = 10 * Lesser(raw, cap)
  BY <1>1, <1>2, <1>3 DEF KellyFraction
<1> HIDE DEF raw
<1> QED BY <1>3, <1>4, <1>5 DEF Lesser

LEMMA StopIs ==
    ASSUME Given, NEW x \in Strategies
    PROVE  StopDistance(x) \in Nat /\ StopDistance(x) >= 1
<1>1. PICK c \in 70..200 : c = Clamp(70, VolScale, 200)
  <2>1. PICK q \in Nat : q = VolScale
    BY Scales
  <2> QED BY <2>1 DEF Clamp
<1>2. PICK r \in Nat : r = scan.atr /\ r >= 1
  BY MarketIs
<1>3. PICK m \in 15..30 : m = BASE_ATR_MULTIPLES[x]
  BY DEF BASE_ATR_MULTIPLES, Strategies
<1>4. m * c \in Nat /\ m * c >= 1000
  <2>1. c * m \in Nat /\ c * m >= 70 * m /\ 70 * m >= 1050
    OBVIOUS
  <2>2. m * c = c * m
    OBVIOUS
  <2> QED BY <2>1, <2>2
<1>5. PICK d \in Nat : d = m * c * r /\ d >= 1000
  <2>1. m * c * r \in Nat /\ m * c * r >= m * c
    <3>1. PICK w \in Nat : w = m * c
      BY <1>4
    <3>2. w * r \in Nat /\ w * r >= w
      BY <1>2
    <3> QED BY <3>1, <3>2
  <2> QED BY <1>4, <2>1
<1>6. d \div 1000 \in Nat /\ d \div 1000 >= 1
  BY <1>5
<1>7. StopDistance(x) = d \div 1000
  BY <1>1, <1>2, <1>3, <1>5 DEF StopDistance
<1> QED BY <1>6, <1>7

\* A stop at some distance below and a target above the price, or the other way round.
LEMMA PlanStands ==
    ASSUME NEW from, NEW ticker, NEW direction, NEW conviction \in Int, NEW size0 \in Nat,
           NEW below \in Nat, below >= 1, NEW above \in Nat, above >= 1,
           NEW s, s = Signal(from, ticker, direction, conviction, size0,
                             Gained(direction, -below), Gained(direction, above))
    PROVE  Sound(s) /\ s.from = from /\ s.ticker = ticker /\ s.size = size0
<1>1. PICK stop : stop = Gained(direction, -below)
  OBVIOUS
<1>2. PICK target : target = Gained(direction, above)
  OBVIOUS
<1>3. /\ s.from = from /\ s.ticker = ticker /\ s.direction = direction /\ s.conviction = conviction
      /\ s.size = size0 /\ s.stop = stop /\ s.target = target
  BY <1>1, <1>2 DEF Signal
<1>4. s = Signal(s.from, s.ticker, s.direction, s.conviction, s.size, s.stop, s.target)
  BY <1>1, <1>2, <1>3
<1>5. Stands(s)
  BY <1>1, <1>2, <1>3 DEF Stands, Gained, Price
<1> QED BY <1>3, <1>4, <1>5 DEF Sound
----------------------------------------------------------------------------
(* The signals of the strategies are sound *)

LEMMA SizeIs == \A x \in Int : Size(x) \in Nat
BY DEF Size

LEMMA WeightIs ==
    ASSUME NEW set, IsFiniteSet(set), \A i \in set : feed[i] \in Int
    PROVE  Weight(set) \in Nat /\ Max({0} \union {Size(feed[i]) : i \in set}) \in Int
<1>1. PICK f : f = [i \in set |-> Size(feed[i])]
  OBVIOUS
<1>2. \A i \in set : f[i] \in Nat /\ f[i] <= f[i]
  BY <1>1, SizeIs
<1>3. SumOf(f, set) \in Nat
  BY <1>2, SumOfNat
<1>4. Max({0} \union {f[i] : i \in set}) \in Int
  <2>1. \A i \in set : f[i] \in Int
    BY <1>2
  <2> QED BY <2>1, GreatestIs
<1>5. {f[i] : i \in set} = {Size(feed[i]) : i \in set}
  BY <1>1
<1> QED BY <1>1, <1>3, <1>4, <1>5 DEF Weight, SumOf

\* The voters are indicators, of which there are finitely many.
LEMMA VotersAre ==
    ASSUME Given, scan.strategy = "cross_asset", NEW s
    PROVE  /\ IsFiniteSet(For(s)) /\ \A i \in For(s) : feed[i] \in Int
           /\ IsFiniteSet(Against(s)) /\ \A i \in Against(s) : feed[i] \in Int
<1>1. DOMAIN feed = Indicators /\ \A i \in Indicators : feed[i] \in Int
  <2>1. PICK z \in [Indicators -> ZScores \union {50}] : z = feed
    BY DEF Given, Readings
  <2>2. ZScores \union {50} \subseteq Int
    BY RotationBounds
  <2>3. \A i \in Indicators : z[i] \in Int
    BY <2>2
  <2> QED BY <2>1, <2>3
<1>2. For(s) \in SUBSET Indicators /\ Against(s) \in SUBSET Indicators
  BY <1>1 DEF For, Against, Fired
<1>3. IsFiniteSet(For(s)) /\ IsFiniteSet(Against(s))
  BY <1>2, RotationBounds, FS_Subset
<1> QED BY <1>1, <1>2, <1>3

LEMMA ScoreIs ==
    ASSUME Given, scan.strategy = "cross_asset", NEW s
    PROVE  Score(s) \in Int
<1>1. Weight(For(s)) \in Nat /\ Weight(Against(s)) \in Nat
  BY VotersAre, WeightIs
<1> QED BY <1>1 DEF Score

LEMMA RotationSound ==
    ASSUME Given, scan.strategy = "cross_asset", exposure \in Nat, exposure < MaxRotation, NEW s
    PROVE  /\ Sound(Rotation(s)) /\ Rotation(s).from = "cross_asset" /\ Rotation(s).ticker = s
           /\ exposure + Rotation(s).size <= 15000
<1>1. PICK score \in Int : score = Score(s)
  BY ScoreIs
<1>2. PICK direction : direction = IF score > 0 THEN "long" ELSE "short"
  OBVIOUS
<1>3. PICK voters : voters = IF score > 0 THEN For(s) ELSE Against(s)
  OBVIOUS
<1>4. PICK strongest \in Int : strongest = Max({0} \union {Size(feed[i]) : i \in voters})
  <2>1. Max({0} \union {Size(feed[i]) : i \in For(s)}) \in Int
    BY VotersAre, WeightIs
  <2>2. Max({0} \union {Size(feed[i]) : i \in Against(s)}) \in Int
    BY VotersAre, WeightIs
  <2> QED BY <1>3, <2>1, <2>2
<1>5. PICK distance \in Nat : distance = StopDistance("cross_asset") /\ distance >= 1
  BY StopIs DEF Strategies
<1>6. PICK position \in Nat : position = Lesser(KellyFraction("cross_asset"), (MaxEtf * PositionScale) \div 100)
  <2>1. PICK p \in Nat : p = PositionScale
    BY Scales
  <2>2. PICK k \in Nat : k = KellyFraction("cross_asset")
    BY KellyIs DEF Strategies
  <2>3. (5000 * p) \div 100 \in Nat
    OBVIOUS
  <2> QED BY <2>1, <2>2, <2>3 DEF Lesser, MaxEtf
<1>7. PICK size0 \in Nat : size0 = Clipped(position) /\ exposure + size0 <= 15000
  BY <1>6 DEF Clipped, MaxRotation
<1>8. PICK conviction \in Int : conviction = Lesser(100, strongest \div 4 + Size(score) \div 8)
  <2>1. PICK w \in Nat : w = Size(score)
    BY SizeIs
  <2> QED BY <2>1 DEF Lesser
<1>9. (5 * distance) \div 2 \in Nat /\ (5 * distance) \div 2 >= 1
  BY <1>5
<1>10. Rotation(s) = Signal("cross_asset", s, direction, conviction, size0,
                            Gained(direction, -distance), Gained(direction, (5 * distance) \div 2))
  BY <1>1, <1>2, <1>3, <1>4, <1>5, <1>6, <1>7, <1>8 DEF Rotation
<1>11. PICK plan : plan = Rotation(s)
  OBVIOUS
<1>12. Sound(plan) /\ plan.from = "cross_asset" /\ plan.ticker = s /\ plan.size = size0
  BY <1>5, <1>9, <1>10, <1>11, PlanStands
<1> QED BY <1>7, <1>11, <1>12

\* Premiums add up to numbers.
LEMMA PremiumIs ==
    ASSUME Given, scan.strategy \in {"flow", "catalyst"}, NEW t \in DOMAIN feed,
           NEW places \in SUBSET DOMAIN feed[t], NEW type
    PROVE  Premium(feed[t], places, type) \in Int /\ IsFiniteSet(places) /\ Cardinality(places) \in Nat
<1>1. PICK sweeps : sweeps = feed[t]
  OBVIOUS
<1>2. sweeps \in Seq([type : STRING, premium : Int])
  <2>1. feed \in SweepFeeds \/ feed = <<>>
    BY DEF Given, SweepsFound
  <2>2. feed # <<>>
    BY Empty
  <2> QED BY <1>1, <2>1, <2>2, SweepsAreLists
<1>3. DOMAIN sweeps = 1..Len(sweeps) /\ Len(sweeps) \in Nat /\ \A i \in DOMAIN sweeps : sweeps[i].premium \in Int
  <2>1. PICK R : R = [type : STRING, premium : Int]
    OBVIOUS
  <2>2. \A x \in R : x.premium \in Int
    BY <2>1
  <2>3. sweeps \in Seq(R)
    BY <1>2, <2>1
  <2>4. DOMAIN sweeps = 1..Len(sweeps) /\ Len(sweeps) \in Nat /\ sweeps \in [1..Len(sweeps) -> R]
    BY <2>3, LenProperties
  <2> QED BY <2>2, <2>4
<1>4. IsFiniteSet(DOMAIN sweeps)
  <2>1. PICK n \in Nat : n = Len(sweeps)
    BY <1>3
  <2>2. 1 \in Int /\ n \in Int
    OBVIOUS
  <2> QED BY <1>3, <2>1, <2>2, FS_Interval
<1>5. PICK chosen : chosen = {i \in places : sweeps[i].type = type}
  OBVIOUS
<1>6. PICK f : f = [i \in DOMAIN sweeps |-> sweeps[i].premium]
  OBVIOUS
<1>7. chosen \in SUBSET DOMAIN sweeps /\ places \in SUBSET DOMAIN sweeps
  BY <1>1, <1>5
<1>8. IsFiniteSet(chosen) /\ IsFiniteSet(places) /\ Cardinality(places) \in Nat
  BY <1>4, <1>7, FS_Subset, FS_CardinalityType
<1>9. \A i \in chosen : f[i] \in Int
  BY <1>3, <1>6, <1>7
<1>10. SumOf(f, chosen) \in Int
  BY <1>8, <1>9, SumTakes
<1> QED BY <1>1, <1>5, <1>6, <1>8, <1>10 DEF Premium, SumOf

LEMMA SweepConvictionIs ==
    ASSUME Given, scan.strategy \in {"flow", "catalyst"}, NEW t \in DOMAIN feed,
           NEW places \in SUBSET DOMAIN feed[t]
    PROVE  SweepConviction(feed[t], places) \in Int
<1>1. PICK call \in Int : call = Premium(feed[t], places, "Call")
  BY PremiumIs
<1>2. PICK put \in Int : put = Premium(feed[t], places, "Put")
  BY PremiumIs
<1>3. PICK n \in Nat : n = Cardinality(places)
  BY PremiumIs
<1> QED BY <1>1, <1>2, <1>3 DEF SweepConviction, Lesser

LEMMA FlowPositionIs ==
    ASSUME Given, NEW kelly \in Nat, kelly <= 4000
    PROVE  FlowPosition(kelly) \in Nat /\ FlowPosition(kelly) <= 4000
<1>1. PICK p \in Nat : p = PositionScale
  BY Scales
<1>2. (4000 * p) \div 100 \in Nat
  OBVIOUS
<1> QED BY <1>1, <1>2 DEF FlowPosition, Lesser, MaxFlowPosition

LEMMA FlowKelly ==
    ASSUME Given
    PROVE  /\ KellyFraction("flow") \in Nat /\ KellyFraction("flow") <= 4000
           /\ (7 * KellyFraction("flow")) \div 10 \in Nat /\ (7 * KellyFraction("flow")) \div 10 <= 4000
<1>1. PICK k \in Nat : k = KellyFraction("flow") /\ k <= 4000
  BY KellyIs DEF Strategies, STRATEGY_CAPS
<1>2. (7 * k) \div 10 \in Nat /\ (7 * k) \div 10 <= 4000
  BY <1>1
<1> QED BY <1>1, <1>2

LEMMA SweepSound ==
    ASSUME Given, scan.strategy = "flow", NEW t \in DOMAIN feed
    PROVE  /\ Sound(SweepSignal(t)) /\ SweepSignal(t).from = "flow" /\ SweepSignal(t).ticker = t
           /\ SweepSignal(t).size <= 4000
<1>1. PICK large : large = Large(feed[t])
  OBVIOUS
<1>2. PICK direction : direction = Leaning(feed[t], large)
  OBVIOUS
<1>3. PICK conviction \in Int : conviction = SweepConviction(feed[t], large)
  <2>1. large \in SUBSET DOMAIN feed[t]
    BY <1>1 DEF Large
  <2> QED BY <2>1, SweepConvictionIs
<1>4. PICK distance \in Nat : distance = StopDistance("flow") /\ distance >= 1
  BY StopIs DEF Strategies
<1>5. PICK size0 \in Nat : size0 = FlowPosition(KellyFraction("flow")) /\ size0 <= 4000
  BY FlowKelly, FlowPositionIs
<1>6. (5 * distance) \div 2 \in Nat /\ (5 * distance) \div 2 >= 1
  BY <1>4
<1>7. PICK plan : plan = SweepSignal(t)
  OBVIOUS
<1>8. plan = Signal("flow", t, direction, conviction, size0,
                    Gained(direction, -distance), Gained(direction, (5 * distance) \div 2))
  BY <1>1, <1>2, <1>3, <1>4, <1>5, <1>7 DEF SweepSignal
<1>9. Sound(plan) /\ plan.from = "flow" /\ plan.ticker = t /\ plan.size = size0
  BY <1>4, <1>6, <1>8, PlanStands
<1> QED BY <1>5, <1>7, <1>9

LEMMA DarkPoolSound ==
    ASSUME Given, scan.strategy = "flow", NEW t, NEW score \in DarkPoolScores
    PROVE  /\ Sound(DarkPoolSignal(t, score)) /\ DarkPoolSignal(t, score).from = "flow"
           /\ DarkPoolSignal(t, score).ticker = t /\ DarkPoolSignal(t, score).size <= 4000
<1>1. PICK conviction \in Int : conviction = Lesser(100, score)
  BY FlowBounds DEF Lesser
<1>2. PICK distance \in Nat : distance = StopDistance("flow") /\ distance >= 1
  BY StopIs DEF Strategies
<1>3. PICK size0 \in Nat : size0 = FlowPosition((7 * KellyFraction("flow")) \div 10) /\ size0 <= 4000
  BY FlowKelly, FlowPositionIs
<1>4. PICK plan : plan = DarkPoolSignal(t, score)
  OBVIOUS
<1>5. plan = Signal("flow", t, "long", conviction, size0, Gained("long", -distance), Gained("long", 2 * distance))
  <2>1. Gained("long", -distance) = Price - distance /\ Gained("long", 2 * distance) = Price + 2 * distance
    BY DEF Gained, Price
  <2> QED BY <1>1, <1>2, <1>3, <1>4, <2>1 DEF DarkPoolSignal
<1>6. 2 * distance \in Nat /\ 2 * distance >= 1
  BY <1>2
<1>7. Sound(plan) /\ plan.from = "flow" /\ plan.ticker = t /\ plan.size = size0
  BY <1>2, <1>5, <1>6, PlanStands
<1> QED BY <1>3, <1>4, <1>7
LEMMA CatalystSound ==
    ASSUME Given, NEW t, NEW direction, NEW conviction \in Int, NEW tenths \in Nat,
           NEW above \in Nat, above >= 1
    PROVE  LET s == CatalystSignal(t, direction, conviction, tenths, Gained(direction, above))
           IN  Sound(s) /\ s.from = "catalyst" /\ s.ticker = t
<1>1. PICK distance \in Nat : distance = StopDistance("catalyst") /\ distance >= 1
  BY StopIs DEF Strategies
<1>2. PICK kelly \in Nat : kelly = KellyFraction("catalyst")
  BY KellyIs DEF Strategies
<1>3. PICK size0 \in Nat : size0 = (tenths * kelly) \div 10
  <2>1. PICK x \in Nat : x = tenths * kelly
    BY NatProduct
  <2> QED BY <2>1
<1>4. PICK s : s = CatalystSignal(t, direction, conviction, tenths, Gained(direction, above))
  OBVIOUS
<1>5. s = Signal("catalyst", t, direction, conviction, size0, Gained(direction, -distance), Gained(direction, above))
  BY <1>1, <1>2, <1>3, <1>4 DEF CatalystSignal
<1>6. Sound(s) /\ s.from = "catalyst" /\ s.ticker = t
  BY <1>1, <1>5, PlanStands
<1> QED BY <1>4, <1>6

LEMMA PeadSound ==
    ASSUME Given, NEW t, NEW s \in PeadSignals(t)
    PROVE  Sound(s) /\ s.from = "catalyst" /\ s.ticker = t
<1>1. PICK x \in Surprises \X Gaps \X Backgrounds : s = PeadSignal(t, x[1], PeadScore(x[1], x[2], x[3]))
  BY DEF PeadSignals
<1>2. PICK surprise \in Int, gap \in Int, background \in Int :
         surprise = x[1] /\ gap = x[2] /\ background = x[3]
  BY ScoresAreNumbers
<1>3. PICK direction : direction = IF surprise > 0 THEN "long" ELSE "short"
  OBVIOUS
<1>4. PICK conviction \in Int : conviction = PeadScore(surprise, gap, background)
  <2>1. PICK a \in Nat : a = Size(surprise)
    BY SizeIs
  <2>2. PICK b \in Nat : b = Size(gap)
    BY SizeIs
  <2>3. PICK c \in Int : c = (30 * Lesser(100, 5 * a)) \div 100
    BY DEF Lesser
  <2>4. PICK d \in Int : d = (20 * Lesser(100, 10 * b)) \div 100
    BY DEF Lesser
  <2>5. Lesser(100, c + d + background) \in Int
    BY DEF Lesser
  <2> QED BY <2>1, <2>2, <2>3, <2>4, <2>5 DEF PeadScore
<1>5. PICK above \in Nat : above = (Price * TargetReturn) \div 100 /\ above >= 1
  <2>1. PICK r \in 8..15 : r = TargetReturn
    BY Scales
  <2>2. (10000 * r) \div 100 \in Nat /\ (10000 * r) \div 100 >= 1
    OBVIOUS
  <2> QED BY <2>1, <2>2 DEF Price
<1>6. s = CatalystSignal(t, direction, conviction, 10, Gained(direction, above))
  BY <1>1, <1>2, <1>3, <1>4, <1>5 DEF PeadSignal
<1> QED BY <1>5, <1>6, CatalystSound

LEMMA RevisionSound ==
    ASSUME Given, NEW t, NEW s \in RevisionSignals(t)
    PROVE  Sound(s) /\ s.from = "catalyst" /\ s.ticker = t
<1>1. PICK r \in Revisions : s = CatalystSignal(t, "long", RevisionScore(r), 7,
                                               Price + (7 * Price * TargetReturn) \div 1000)
  BY DEF RevisionSignals
<1>2. PICK a \in Int, b \in Int, c \in Int : a = r.breadth /\ b = r.acceleration /\ c = r.moved
  BY ScoresAreNumbers
<1>3. PICK conviction \in Int : conviction = RevisionScore(r)
  <2>1. PICK x \in Int : x = (45 * Lesser(80, a)) \div 80
    BY DEF Lesser
  <2>2. PICK y \in Int : y = (35 * Lesser(30, b)) \div 30
    BY DEF Lesser
  <2>3. PICK z \in Int : z = (20 * (5 - c)) \div 5
    OBVIOUS
  <2>4. x + y + z \in Int
    OBVIOUS
  <2> QED BY <1>2, <2>1, <2>2, <2>3, <2>4 DEF RevisionScore
<1>4. PICK above \in Nat : above = (7 * Price * TargetReturn) \div 1000 /\ above >= 1
  <2>1. PICK q \in 8..15 : q = TargetReturn
    BY Scales
  <2>2. (7 * 10000 * q) \div 1000 \in Nat /\ (7 * 10000 * q) \div 1000 >= 1
    OBVIOUS
  <2> QED BY <2>1, <2>2 DEF Price
<1>5. Gained("long", above) = Price + above
  BY DEF Gained
<1>6. s = CatalystSignal(t, "long", conviction, 7, Gained("long", above))
  BY <1>1, <1>3, <1>4, <1>5
<1> QED BY <1>4, <1>6, CatalystSound

LEMMA InsiderSound ==
    ASSUME Given, NEW t, NEW s \in InsiderSignals(t)
    PROVE  Sound(s) /\ s.from = "catalyst" /\ s.ticker = t
<1>1. PICK score \in Int : s = Signal("catalyst", t, "long", score, (6 * KellyFraction("catalyst")) \div 10,
            Price - Lesser(2 * scan.atr, Price - 1), Price + 3 * scan.atr)
  BY ScoresAreNumbers DEF InsiderSignals
<1>2. PICK kelly \in Nat : kelly = KellyFraction("catalyst")
  BY KellyIs DEF Strategies
<1>3. PICK size0 \in Nat : size0 = (6 * kelly) \div 10
  OBVIOUS
<1>4. PICK r \in Nat : r = scan.atr /\ r >= 1
  BY MarketIs
<1>5. PICK below \in Nat : below = Lesser(2 * r, Price - 1) /\ below >= 1
  BY <1>4 DEF Lesser, Price
<1>6. 3 * r \in Nat /\ 3 * r >= 1
  BY <1>4
<1>7. Gained("long", -below) = Price - below /\ Gained("long", 3 * r) = Price + 3 * r
  BY DEF Gained, Price
<1>8. s = Signal("catalyst", t, "long", score, size0, Gained("long", -below), Gained("long", 3 * r))
  BY <1>1, <1>2, <1>3, <1>4, <1>5, <1>7
<1> QED BY <1>5, <1>6, <1>8, PlanStands

\* The news moves the conviction of a signal and nothing else.
LEMMA MovedSound ==
    ASSUME NEW s, Sound(s), NEW mood \in Int
    PROVE  LET n == Moved(s, mood)
           IN  Sound(n) /\ n.from = s.from /\ n.ticker = s.ticker /\ n.size = s.size
<1>1. PICK swing \in Int : swing = IF s.direction = "long" THEN Swing(mood) ELSE -Swing(mood)
  <2>1. PICK x \in Int : x = Swing(mood)
    <3>1. (mood - 70 + 1) \div 3 \in Int /\ (30 - mood + 1) \div 3 \in Int
      OBVIOUS
    <3> QED BY <3>1 DEF Swing, Lesser
  <2> QED BY <2>1
<1>2. PICK c \in Int : c = IF swing = 0 THEN s.conviction ELSE Clamp(0, s.conviction + swing, 100)
  BY DEF Sound, Clamp
<1>3. PICK from, ticker, direction, conviction, size0, stop, target :
         s = Signal(from, ticker, direction, conviction, size0, stop, target)
  BY DEF Sound
<1>4. PICK n : n = [s EXCEPT !.conviction = c]
  OBVIOUS
<1>5. n = Signal(from, ticker, direction, c, size0, stop, target)
  BY <1>3, <1>4 DEF Signal
<1>6. /\ n.from = s.from /\ n.ticker = s.ticker /\ n.direction = s.direction /\ n.conviction = c
      /\ n.size = s.size /\ n.stop = s.stop /\ n.target = s.target
  BY <1>3, <1>5 DEF Signal
<1>7. n = Signal(n.from, n.ticker, n.direction, n.conviction, n.size, n.stop, n.target)
  BY <1>5 DEF Signal
<1>8. Sound(n)
  BY <1>6, <1>7 DEF Sound, Stands
<1>9. Moved(s, mood) = n
  BY <1>1, <1>2, <1>4 DEF Moved
<1> QED BY <1>6, <1>8, <1>9

LEMMA EventSound ==
    ASSUME Given, scan.strategy = "catalyst", NEW t \in DOMAIN feed,
           Leaning(feed[t], DOMAIN feed[t]) # "none"
    PROVE  Sound(FlowEvent(t)) /\ FlowEvent(t).from = "catalyst" /\ FlowEvent(t).ticker = t
<1>1. PICK direction \in {"long", "short"} : direction = Leaning(feed[t], DOMAIN feed[t])
  BY DEF Leaning
<1>2. PICK conviction \in Int : conviction = SweepConviction(feed[t], DOMAIN feed[t])
  <2>1. DOMAIN feed[t] \in SUBSET DOMAIN feed[t]
    OBVIOUS
  <2> QED BY <2>1, SweepConvictionIs
<1>3. PICK r \in 8..15 : r = TargetReturn
  BY Scales
<1>4. PICK grown \in Int : grown = (Price * (100 + r)) \div 100 /\ grown > Price
  BY DEF Price
<1>5. PICK shrunk \in Int : shrunk = (Price * 100) \div (100 + r) /\ shrunk < Price
  <2>1. r = 8 \/ r = 9 \/ r = 10 \/ r = 11 \/ r = 12 \/ r = 13 \/ r = 14 \/ r = 15
    OBVIOUS
  <2> QED BY <2>1 DEF Price
<1>6. PICK above \in Nat : above = (IF direction = "long" THEN grown - Price ELSE Price - shrunk) /\ above >= 1
  BY <1>4, <1>5 DEF Price
<1>7. Gained(direction, above) = IF direction = "long" THEN grown ELSE shrunk
  BY <1>4, <1>5, <1>6 DEF Gained, Price
<1>8. FlowEvent(t) = CatalystSignal(t, direction, conviction, 8, Gained(direction, above))
  BY <1>1, <1>2, <1>3, <1>4, <1>5, <1>7 DEF FlowEvent
<1> QED BY <1>6, <1>8, CatalystSound

LEMMA NewsSound ==
    ASSUME Given, NEW entry, entry.mood \in Int
    PROVE  /\ Sound(NewsSignal(entry)) /\ NewsSignal(entry).from = "news"
           /\ NewsSignal(entry).ticker = entry.ticker /\ NewsSignal(entry).size <= 6800
<1>1. PICK direction : direction = IF entry.mood > 50 THEN "long" ELSE "short"
  OBVIOUS
<1>2. PICK conviction \in Nat : conviction = Lesser(85, 35 + Size(entry.mood - 50)) /\ conviction <= 85
  <2>1. PICK x \in Nat : x = Size(entry.mood - 50)
    BY SizeIs
  <2> QED BY <2>1 DEF Lesser
<1>3. PICK p \in Nat : p = PositionScale /\ p <= 200
  BY Scales
<1>4. PICK size0 \in Nat : size0 = (conviction * PositionScale * 4) \div 10 /\ size0 <= 6800
  <2>1. PICK x \in Nat : x = conviction * p /\ x <= 17000
    <3>1. conviction * p \in Nat /\ conviction * p <= 85 * 200
      BY <1>2, <1>3, ProductBounds
    <3> QED BY <3>1
  <2>2. (x * 4) \div 10 \in Nat /\ (x * 4) \div 10 <= 6800
    BY <2>1
  <2> QED BY <1>3, <2>1, <2>2
<1>5. PICK r \in Nat : r = scan.atr /\ r >= 1
  BY MarketIs
<1>6. PICK v \in Nat : v = VolScale
  BY Scales
<1>7. PICK below \in Nat : below = (r * (150 + v \div 2)) \div 100 /\ below >= 1
  <2>1. PICK y \in Nat : y = 150 + v \div 2 /\ y >= 150
    OBVIOUS
  <2>2. PICK x \in Nat : x = r * y /\ x >= 150
    <3>1. r * y \in Nat /\ r * y >= y
      BY <1>5
    <3> QED BY <2>1, <3>1
  <2>3. x \div 100 \in Nat /\ x \div 100 >= 1
    BY <2>2
  <2> QED BY <2>1, <2>2, <2>3
<1>8. PICK above \in Nat : above = (r * (200 + v)) \div 100 /\ above >= 1
  <2>1. PICK y \in Nat : y = 200 + v /\ y >= 200
    OBVIOUS
  <2>2. PICK x \in Nat : x = r * y /\ x >= 200
    <3>1. r * y \in Nat /\ r * y >= y
      BY <1>5
    <3> QED BY <2>1, <3>1
  <2>3. x \div 100 \in Nat /\ x \div 100 >= 1
    BY <2>2
  <2> QED BY <2>1, <2>2, <2>3
<1>9. PICK s : s = NewsSignal(entry)
  OBVIOUS
<1>10. s = Signal("news", entry.ticker, direction, conviction, size0,
                  Gained(direction, -below), Gained(direction, above))
  BY <1>1, <1>2, <1>4, <1>5, <1>6, <1>7, <1>8, <1>9 DEF NewsSignal
<1>11. conviction \in Int
  OBVIOUS
<1>12. Sound(s) /\ s.from = "news" /\ s.ticker = entry.ticker /\ s.size = size0
  BY <1>7, <1>8, <1>10, <1>11, PlanStands
<1> QED BY <1>4, <1>9, <1>12
----------------------------------------------------------------------------
(* Steps *)

\* Where a pass looks for signals.
Looking == {"rotate", "sweeps", "dark_pool", "answers", "events", "pairs", "spreads", "news"}

LEMMA PassOverKeeps ==
    ASSUME SInv, NEW rest, PassOver(rest), at \in Looking, Pending'
    PROVE  SInv'
<1>1. UNCHANGED <<scan, feed, at, found, exposure, signals>>
  BY DEF PassOver
<1>2. Given' /\ Places'
  BY <1>1 DEF SInv, Given, Places
<1>3. Lists' /\ Apart'
  BY <1>1 DEF SInv, Lists, Apart, Source, MayHaveSignalled
<1>4. Counted' /\ Kept'
  BY <1>1 DEF SInv, Counted, Kept, Source
<1> QED BY <1>2, <1>3, <1>4 DEF SInv

\* A sound signal of a ticker that has none, within what the pass may put on.
LEMMA TakeKeeps ==
    ASSUME SInv, NEW s, NEW rest, Take(s, rest), at \in Looking, Pending',
           Sound(s), s.from = Source, s.ticker \notin Tickers(found), s.ticker \notin Tickers(signals),
           at # "news" /\ scan.strategy = "cross_asset" => exposure + s.size <= 15000,
           at # "news" /\ scan.strategy = "flow" => exposure + s.size < 14000,
           at = "news" => Len(found) < MaxFromNews /\ s.size <= 6800
    PROVE  SInv'
<1>1. /\ UNCHANGED <<scan, feed, at, signals>> /\ found' = Append(found, s)
      /\ exposure' = exposure + s.size
  BY DEF Take
<1>2. Given'
  BY <1>1 DEF SInv, Given
<1>3. Places'
  BY <1>1 DEF SInv, Places, Looking
<1>4. Source' = Source /\ MayHaveSignalled' = MayHaveSignalled
  BY <1>1 DEF Source, MayHaveSignalled
<1>5. GoodList(found, {Source}) /\ GoodList(signals, MayHaveSignalled) /\ IsList(found) /\ Sized(found)
  <2>1. GoodList(found, {Source}) /\ GoodList(signals, MayHaveSignalled)
    BY DEF SInv, Lists
  <2>2. Sized(found)
    BY <2>1, GoodIsSized
  <2> QED BY <2>1, <2>2 DEF Sized
<1>6. GoodList(Append(found, s), {Source}) /\ Tickers(Append(found, s)) = Tickers(found) \union {s.ticker}
  BY <1>5, GoodAppend
<1>7. Lists'
  <2>1. GoodList(found', {Source'})
    BY <1>1, <1>4, <1>6
  <2>2. GoodList(signals', MayHaveSignalled')
    BY <1>1, <1>4, <1>5
  <2> QED BY <2>1, <2>2 DEF Lists
<1>8. Longer(Append(found, s), found, s)
  BY <1>5, Appended
<1>9. Apart'
  <2>1. \A j \in DOMAIN signals : signals[j].ticker # s.ticker
    BY DEF Tickers
  <2>2. \A i \in DOMAIN found' : found'[i] = s \/ (i \in DOMAIN found /\ found'[i] = found[i])
    BY <1>1, <1>8 DEF Longer
  <2>3. \A i \in DOMAIN found : \A j \in DOMAIN signals : found[i].ticker # signals[j].ticker
    BY DEF SInv, Apart
  <2>4. \A i \in DOMAIN found' : \A j \in DOMAIN signals : found'[i].ticker # signals[j].ticker
    BY <2>1, <2>2, <2>3
  <2> QED BY <1>1, <2>4 DEF Apart
<1>10. Counted'
  <2>1. s.size \in Nat /\ exposure \in Nat /\ Total(found, Source) <= exposure /\ Total(found, Source) \in Nat
    BY <1>5, TotalIs DEF Sound, SInv, Counted
  <2>2. Total(Append(found, s), Source) = Total(found, Source) + s.size
    BY <1>5, <2>1, TotalTakes
  <2>3. exposure' \in Nat /\ Total(found', Source') <= exposure'
    BY <1>1, <1>4, <2>1, <2>2
  <2>4. Len(found') = Len(found) + 1 /\ Len(found) \in Nat
    BY <1>1, <1>5, <1>8, ListParts DEF Longer
  <2>5. at = "news" => Len(found') <= MaxFromNews /\ exposure' <= Len(found') * 6800
    BY <1>1, <2>1, <2>4, NewsIsATable DEF SInv, Counted
  <2>6. at \in Before => at # "news"
    BY DEF Before
  <2> QED BY <1>1, <2>1, <2>3, <2>5, <2>6 DEF Counted
<1>11. Kept'
  BY <1>1 DEF SInv, Kept
<1> QED BY <1>2, <1>3, <1>7, <1>9, <1>10, <1>11 DEF SInv

\* A pass goes on with some of what it has, or with nothing.
LEMMA GoOnKeeps ==
    ASSUME SInv, NEW to, NEW rest, NEW list, GoOn(to, rest, list), at \in Before, to \in Before \ {"begin"},
           to = "rotate" => scan.strategy = "cross_asset",
           to \in {"sweeps", "dark_pool"} => scan.strategy = "flow",
           to \in {"answers", "events"} => scan.strategy = "catalyst",
           to \in {"pairs", "spreads"} => scan.strategy = "stat_arb",
           Pending', GoodList(list, {scan.strategy}),
           Total(list, scan.strategy) <= Total(found, scan.strategy)
    PROVE  SInv'
<1>1. UNCHANGED <<scan, feed, exposure, signals>> /\ at' = to /\ found' = list
  BY DEF GoOn
<1>2. Given'
  BY <1>1 DEF SInv, Given
<1>3. signals = <<>> /\ Places'
  BY <1>1 DEF SInv, Places, Before
<1>4. Source = scan.strategy /\ Source' = scan.strategy /\ MayHaveSignalled' = {scan.strategy}
  BY <1>1 DEF Source, MayHaveSignalled, Before
<1>5. Lists'
  <2>1. GoodList(found', {Source'})
    BY <1>1, <1>4
  <2>2. GoodList(signals', MayHaveSignalled')
    BY <1>1, <1>3, NoneIsGood
  <2> QED BY <2>1, <2>2 DEF Lists
<1>6. Apart'
  BY <1>1, <1>3, Empty DEF Apart
<1>7. Counted'
  <2>1. exposure \in Nat /\ Total(found, scan.strategy) <= exposure
    BY <1>4 DEF SInv, Counted
  <2>2. Total(list, scan.strategy) \in Nat /\ Total(found, scan.strategy) \in Nat
    <3>1. Sized(list) /\ Sized(found)
      BY GoodIsSized DEF SInv, Lists
    <3> QED BY <3>1, TotalIs
  <2>3. Total(found', Source') <= exposure'
    BY <1>1, <1>4, <2>1, <2>2
  <2> QED BY <1>1, <2>1, <2>3 DEF SInv, Counted, Before
<1>8. Kept'
  BY <1>1 DEF SInv, Kept
<1> QED BY <1>2, <1>3, <1>5, <1>6, <1>7, <1>8 DEF SInv

\* The ways a pass goes on: with nothing yet, with all, with the best.
LEMMA NoneGoesOn ==
    ASSUME SInv, at \in Before
    PROVE  GoodList(<<>>, {scan.strategy}) /\ Total(<<>>, scan.strategy) <= Total(found, scan.strategy)
<1>1. Total(found, scan.strategy) \in Nat
  <2>1. Sized(found)
    BY GoodIsSized DEF SInv, Lists
  <2> QED BY <2>1, TotalIs
<1> QED BY <1>1, NoneIsGood

LEMMA FoundIsGood ==
    ASSUME SInv, at \in Before
    PROVE  /\ GoodList(found, {scan.strategy}) /\ Total(found, scan.strategy) \in Nat
           /\ signals = <<>> /\ Tickers(signals) = {} /\ Source = scan.strategy
<1>1. Source = scan.strategy
  BY DEF Source, Before
<1>2. Sized(found) /\ GoodList(found, {scan.strategy})
  BY <1>1, GoodIsSized DEF SInv, Lists
<1>3. signals = <<>> /\ Tickers(signals) = {}
  BY Empty DEF SInv, Places
<1> QED BY <1>1, <1>2, <1>3, TotalIs
\* The sectors come each once.
LEMMA ClearestIs ==
    ASSUME Given, scan.strategy = "cross_asset"
    PROVE  IsList(ClearestFirst) /\ \A i, j \in DOMAIN ClearestFirst : ClearestFirst[i] = ClearestFirst[j] => i = j
<1> DEFINE key == [i \in DOMAIN SECTORS |-> Size(Score(SECTORS[i]))]
<1>1. /\ DOMAIN SECTORS = 1..11 /\ Len(SECTORS) = 11
      /\ \A i, j \in DOMAIN SECTORS : SECTORS[i] = SECTORS[j] => i = j
  BY DEF SECTORS
<1>2. \A i \in DOMAIN SECTORS : key[i] \in Int
  BY ScoreIs, SizeIs
<1>3. IsFiniteSet(DOMAIN SECTORS) /\ DOMAIN SECTORS \subseteq Nat
  <2>1. IsFiniteSet(1..11)
    <3>1. 1 \in Int /\ 11 \in Int
      OBVIOUS
    <3> QED BY <3>1, FS_Interval
  <2> QED BY <1>1, <2>1
<1>4. PICK b : b = Best(Len(SECTORS), DOMAIN SECTORS, key)
  OBVIOUS
<1> HIDE DEF key
<1>5. PICK n \in Nat : /\ DOMAIN b = 1..n
                       /\ \A m \in DOMAIN b : b[m] \in DOMAIN SECTORS
                       /\ \A m, o \in DOMAIN b : b[m] = b[o] => m = o
  <2>1. Len(SECTORS) \in Nat
    BY <1>1
  <2>2. Chosen(b, Lesser(Len(SECTORS), Cardinality(DOMAIN SECTORS)), DOMAIN SECTORS)
    BY <1>2, <1>3, <1>4, <2>1, BestIs
  <2> QED BY <2>2 DEF Chosen
<1>6. ClearestFirst = [m \in DOMAIN b |-> SECTORS[b[m]]]
  BY <1>4 DEF ClearestFirst, At, key
<1>7. ClearestFirst \in [1..n -> {SECTORS[b[m]] : m \in 1..n}]
  BY <1>5, <1>6
<1>8. IsList(ClearestFirst)
  BY <1>7, ListOf
<1> QED BY <1>1, <1>5, <1>6, <1>8

LEMMA RotationStep == ASSUME SInv, RotationNext PROVE SInv'
<1>1. CASE BeginRotation
  <2>1. at \in Before /\ scan.strategy = "cross_asset" /\ Given
    BY <1>1 DEF BeginRotation, Before, SInv
  <2>2. CASE GoOn("end", {}, <<>>)
    <3>1. Pending'
      BY <2>2 DEF GoOn, Pending
    <3> QED BY <2>1, <2>2, <3>1, NoneGoesOn, GoOnKeeps DEF Before
  <2>3. CASE GoOn("rotate", ClearestFirst, <<>>)
    <3>1. Pending'
      <4>1. at' = "rotate" /\ todo' = ClearestFirst /\ found' = <<>>
        BY <2>3 DEF GoOn
      <4>2. Tickers(found') = {}
        BY <4>1, Empty
      <4>3. IsList(todo') /\ \A i, j \in DOMAIN todo' : todo'[i] = todo'[j] => i = j
        BY <2>1, <4>1, ClearestIs
      <4> QED BY <4>1, <4>2, <4>3 DEF Pending
    <3> QED BY <2>1, <2>3, <3>1, NoneGoesOn, GoOnKeeps DEF Before
  <2> QED BY <1>1, <2>2, <2>3 DEF BeginRotation
<1>2. CASE Rotate
  <2>1. /\ at = "rotate" /\ at \in Before /\ at \in Looking /\ todo # <<>> /\ exposure < MaxRotation
        /\ Given /\ scan.strategy = "cross_asset" /\ exposure \in Nat
    BY <1>2 DEF Rotate, SInv, Places, Counted, Before, Looking
  <2>2. /\ IsList(todo) /\ \A i, j \in DOMAIN todo : todo[i] = todo[j] => i = j
        /\ \A i \in DOMAIN todo : todo[i] \notin Tickers(found)
    BY <2>1 DEF SInv, Pending
  <2>3. PICK s : s = Head(todo)
    OBVIOUS
  <2>4. PICK rest : rest = Tail(todo)
    OBVIOUS
  <2>5. /\ IsList(rest) /\ 1 \in DOMAIN todo /\ s = todo[1]
        /\ \A i \in DOMAIN rest : i + 1 \in DOMAIN todo /\ i # 0 /\ i \in Nat /\ rest[i] = todo[i + 1]
    BY <2>1, <2>2, <2>3, <2>4, RestOf
  <2>6. /\ s \notin Tickers(found)
        /\ \A i, j \in DOMAIN rest : rest[i] = rest[j] => i = j
        /\ \A i \in DOMAIN rest : rest[i] \notin Tickers(found) /\ rest[i] # s
    BY <2>2, <2>5
  <2>7. Rotate => PassOver(rest) \/ Take(Rotation(s), rest)
    BY <2>3, <2>4 DEF Rotate
  <2>8. CASE PassOver(rest)
    <3>1. at' = at /\ todo' = rest /\ found' = found
      BY <2>8 DEF PassOver
    <3>2. Pending'
      BY <2>1, <2>5, <2>6, <3>1 DEF Pending
    <3> QED BY <2>1, <2>8, <3>2, PassOverKeeps
  <2>9. CASE Take(Rotation(s), rest)
    <3>1. PICK plan : plan = Rotation(s)
      OBVIOUS
    <3>2. Sound(plan) /\ plan.from = "cross_asset" /\ plan.ticker = s /\ exposure + plan.size <= 15000
      BY <2>1, <3>1, RotationSound
    <3>3. at' = at /\ todo' = rest /\ found' = Append(found, plan)
      BY <2>9, <3>1 DEF Take
    <3>4. Tickers(found') = Tickers(found) \union {s}
      <4>1. GoodList(found, {scan.strategy})
        BY <2>1, FoundIsGood
      <4> QED BY <2>1, <2>6, <3>2, <3>3, <4>1, GoodAppend
    <3>5. Pending'
      BY <2>1, <2>5, <2>6, <3>3, <3>4 DEF Pending
    <3>6. plan.from = Source /\ plan.ticker \notin Tickers(found) /\ plan.ticker \notin Tickers(signals)
      BY <2>1, <2>6, <3>2, FoundIsGood
    <3> QED BY <2>1, <2>9, <3>1, <3>2, <3>5, <3>6, TakeKeeps
  <2> QED BY <1>2, <2>7, <2>8, <2>9
<1>3. CASE EndRotation
  <2>1. at \in Before /\ GoOn("end", {}, Top(RotateTop, found))
    BY <1>3 DEF EndRotation, Before
  <2>2. Pending'
    BY <2>1 DEF GoOn, Pending
  <2>3. PICK list : list = Top(RotateTop, found)
    OBVIOUS
  <2>4. GoodList(list, {scan.strategy}) /\ Total(list, scan.strategy) <= Total(found, scan.strategy)
    <3>1. RotateTop \in Nat
      BY RotationBounds
    <3> QED BY <2>1, <2>3, <3>1, FoundIsGood, TopIs
  <2> QED BY <2>1, <2>2, <2>3, <2>4, GoOnKeeps DEF Before
<1> QED BY <1>1, <1>2, <1>3 DEF RotationNext

\* The least of a set of places is one of them.
LEMMA MinIs ==
    ASSUME NEW S, S \subseteq Nat, S # {}
    PROVE  Min(S) \in S
<1>1. PICK n \in S : TRUE
  OBVIOUS
<1> DEFINE R == OpToRel(<, Nat)
<1>2. IsWellFoundedOn(R, Nat)
  BY NatLessThanWellFounded
<1>3. \A x, y \in Nat : y < x => <<y, x>> \in R
  BY DEF OpToRel
<1> HIDE DEF R
<1>4. PICK x \in S : \A y \in S : ~(<<y, x>> \in R)
  BY <1>1, <1>2, WFMin
<1>5. \A y \in S : x <= y
  <2> TAKE y \in S
  <2>1. x \in Nat /\ y \in Nat
    OBVIOUS
  <2>2. ~(y < x)
    BY <1>3, <1>4, <2>1
  <2> QED BY <2>1, <2>2
<1> QED BY <1>5 DEF Min

LEMMA FlowStep == ASSUME SInv, FlowNext PROVE SInv'
<1>1. CASE BeginFlow
  <2>1. at \in Before /\ scan.strategy = "flow"
    BY <1>1 DEF BeginFlow, Before
  <2>2. PICK rest : rest = {t \in DOMAIN feed : Large(feed[t]) # {}}
    OBVIOUS
  <2>3. GoOn("sweeps", rest, <<>>)
    BY <1>1, <2>2 DEF BeginFlow
  <2>4. at' = "sweeps" /\ todo' = rest /\ found' = <<>> /\ feed' = feed
    BY <2>3 DEF GoOn
  <2>5. Tickers(found') = {} /\ rest \subseteq DOMAIN feed
    BY <2>2, <2>4, Empty
  <2>6. Pending'
    BY <2>4, <2>5 DEF Pending
  <2> QED BY <2>1, <2>3, <2>6, NoneGoesOn, GoOnKeeps DEF Before
<1>2. CASE Sweep
  <2>1. /\ at = "sweeps" /\ at \in Before /\ at \in Looking /\ exposure < MaxFlow
        /\ Given /\ scan.strategy = "flow" /\ exposure \in Nat /\ todo \subseteq DOMAIN feed \ Tickers(found)
    BY <1>2 DEF Sweep, SInv, Places, Counted, Pending, Before, Looking
  <2>2. PICK t \in todo : Take(SweepSignal(t), todo \ {t}) \/ PassOver(todo \ {t})
    BY <1>2 DEF Sweep
  <2>3. CASE PassOver(todo \ {t})
    <3>1. at' = at /\ todo' = todo \ {t} /\ found' = found /\ feed' = feed
      BY <2>3 DEF PassOver
    <3>2. Pending'
      BY <2>1, <3>1 DEF Pending
    <3> QED BY <2>1, <2>3, <3>2, PassOverKeeps
  <2>4. CASE Take(SweepSignal(t), todo \ {t})
    <3>1. PICK plan : plan = SweepSignal(t)
      OBVIOUS
    <3>2. Sound(plan) /\ plan.from = "flow" /\ plan.ticker = t /\ plan.size <= 4000 /\ plan.size \in Nat
      BY <2>1, <3>1, SweepSound DEF Sound
    <3>3. at' = at /\ todo' = todo \ {t} /\ found' = Append(found, plan) /\ feed' = feed
      BY <2>4, <3>1 DEF Take
    <3>4. Tickers(found') = Tickers(found) \union {t}
      <4>1. GoodList(found, {scan.strategy})
        BY <2>1, FoundIsGood
      <4> QED BY <2>1, <3>2, <3>3, <4>1, GoodAppend
    <3>5. Pending'
      BY <2>1, <3>3, <3>4 DEF Pending
    <3>6. plan.from = Source /\ plan.ticker \notin Tickers(found) /\ plan.ticker \notin Tickers(signals)
      BY <2>1, <3>2, FoundIsGood
    <3>7. exposure + plan.size < 14000
      BY <2>1, <3>2 DEF MaxFlow
    <3> QED BY <2>1, <2>4, <3>1, <3>2, <3>5, <3>6, <3>7, TakeKeeps
  <2> QED BY <2>2, <2>3, <2>4
<1>3. CASE EndSweeps
  <2>1. at = "sweeps" /\ at \in Before /\ scan.strategy = "flow" /\ GoOn("dark_pool", Unsignalled, found)
    BY <1>3 DEF EndSweeps, Before, SInv, Places
  <2>2. at' = "dark_pool" /\ todo' = Unsignalled /\ found' = found
    BY <2>1 DEF GoOn
  <2>3. Pending'
    BY <2>2 DEF Pending, Unsignalled
  <2>4. GoodList(found, {scan.strategy}) /\ Total(found, scan.strategy) <= Total(found, scan.strategy)
    BY <2>1, FoundIsGood
  <2> QED BY <2>1, <2>3, <2>4, GoOnKeeps DEF Before
<1>4. CASE DarkPool
  <2>1. /\ at = "dark_pool" /\ at \in Before /\ at \in Looking /\ exposure < MaxFlow /\ todo # {}
        /\ Given /\ scan.strategy = "flow" /\ exposure \in Nat
        /\ todo \subseteq DOMAIN Universe /\ \A j \in todo : Universe[j] \notin Tickers(found)
    BY <1>4 DEF DarkPool, SInv, Places, Counted, Pending, Before, Looking
  <2>2. /\ DOMAIN Universe \subseteq Nat
        /\ \A j, k \in DOMAIN Universe : Universe[j] = Universe[k] => j = k
    BY UniverseIsAList, ListParts DEF IsInjective, IsList
  <2>3. PICK i \in todo : i = Min(todo)
    BY <2>1, <2>2, MinIs
  <2>4. \/ PassOver(todo \ {i})
        \/ \E score \in DarkPoolScores : Take(DarkPoolSignal(Universe[i], score), todo \ {i})
    BY <1>4, <2>3 DEF DarkPool
  <2>5. CASE PassOver(todo \ {i})
    <3>1. at' = at /\ todo' = todo \ {i} /\ found' = found
      BY <2>5 DEF PassOver
    <3>2. Pending'
      BY <2>1, <3>1 DEF Pending
    <3> QED BY <2>1, <2>5, <3>2, PassOverKeeps
  <2>6. ASSUME NEW score \in DarkPoolScores, Take(DarkPoolSignal(Universe[i], score), todo \ {i})
        PROVE  SInv'
    <3>1. PICK plan : plan = DarkPoolSignal(Universe[i], score)
      OBVIOUS
    <3>2. /\ Sound(plan) /\ plan.from = "flow" /\ plan.ticker = Universe[i]
          /\ plan.size <= 4000 /\ plan.size \in Nat
      BY <2>1, <3>1, DarkPoolSound DEF Sound
    <3>3. at' = at /\ todo' = todo \ {i} /\ found' = Append(found, plan)
      BY <2>6, <3>1 DEF Take
    <3>4. Tickers(found') = Tickers(found) \union {Universe[i]}
      <4>1. GoodList(found, {scan.strategy})
        BY <2>1, FoundIsGood
      <4> QED BY <2>1, <3>2, <3>3, <4>1, GoodAppend
    <3>5. Pending'
      BY <2>1, <2>2, <3>3, <3>4 DEF Pending
    <3>6. plan.from = Source /\ plan.ticker \notin Tickers(found) /\ plan.ticker \notin Tickers(signals)
      BY <2>1, <3>2, FoundIsGood
    <3>7. exposure + plan.size < 14000
      BY <2>1, <3>2 DEF MaxFlow
    <3> QED BY <2>1, <2>6, <3>1, <3>2, <3>5, <3>6, <3>7, TakeKeeps
  <2> QED BY <2>4, <2>5, <2>6
<1>5. CASE EndFlow
  <2>1. at \in Before /\ GoOn("end", {}, Top(FlowTop, found))
    BY <1>5 DEF EndFlow, Before
  <2>2. Pending'
    BY <2>1 DEF GoOn, Pending
  <2>3. PICK list : list = Top(FlowTop, found)
    OBVIOUS
  <2>4. GoodList(list, {scan.strategy}) /\ Total(list, scan.strategy) <= Total(found, scan.strategy)
    <3>1. FlowTop \in Nat
      BY FlowBounds
    <3> QED BY <2>1, <2>3, <3>1, FoundIsGood, TopIs
  <2> QED BY <2>1, <2>2, <2>3, <2>4, GoOnKeeps DEF Before
<1> QED BY <1>1, <1>2, <1>3, <1>4, <1>5 DEF FlowNext
LEMMA OffersAreSound ==
    ASSUME Given, NEW t,
           NEW s \in {o \in PeadSignals(t) \union RevisionSignals(t) : validate_signal(o)} \union InsiderSignals(t)
    PROVE  Sound(s) /\ s.from = "catalyst" /\ s.ticker = t
BY PeadSound, RevisionSound, InsiderSound

\* What the news makes of the signals found.
LEMMA HeardIsGood ==
    ASSUME NEW l, NEW S, GoodList(l, S), NEW mood \in [DOMAIN l -> Moods],
           NEW k, k = [i \in DOMAIN l |-> Moved(l[i], mood[i])]
    PROVE  GoodList(k, S) /\ \A source : Total(k, source) = Total(l, source)
<1>1. \A x \in Moods : x \in Int
  BY ScoresAreNumbers
<1>2. DOMAIN k = DOMAIN l /\ \A i \in DOMAIN l : k[i] = Moved(l[i], mood[i]) /\ mood[i] \in Int
  BY <1>1
<1>3. \A i \in DOMAIN l : Sound(l[i]) /\ l[i].from \in S
  BY DEF GoodList
<1>4. \A i \in DOMAIN l : /\ Sound(k[i]) /\ k[i].from = l[i].from
                          /\ k[i].ticker = l[i].ticker /\ k[i].size = l[i].size
  BY <1>2, <1>3, MovedSound
<1>5. IsList(k)
  <2>1. PICK n \in Nat : n = Len(l) /\ DOMAIN l = 1..n
    BY ListParts DEF GoodList
  <2>2. k \in [1..n -> {k[i] : i \in 1..n}]
    BY <2>1
  <2> QED BY <2>2, ListOf
<1>6. GoodList(k, S)
  BY <1>2, <1>3, <1>4, <1>5 DEF GoodList
<1>7. ASSUME NEW source PROVE Total(k, source) = Total(l, source)
  <2>1. Sized(l) /\ Sized(k)
    BY <1>6, GoodIsSized
  <2>2. Of(k, source) = Of(l, source) /\ \A i \in Of(l, source) : k[i].size = l[i].size
    BY <1>2, <1>4 DEF Of
  <2> QED BY <2>1, <2>2, TotalSame
<1> QED BY <1>6, <1>7

LEMMA CatalystStep == ASSUME SInv, CatalystNext PROVE SInv'
<1>1. CASE BeginCatalyst
  <2>1. at \in Before /\ scan.strategy = "catalyst"
    BY <1>1 DEF BeginCatalyst, Before
  <2>2. PICK tickers : GoOn("answers", tickers, <<>>)
    BY <1>1 DEF BeginCatalyst
  <2>3. Pending'
    BY <2>2 DEF GoOn, Pending
  <2> QED BY <2>1, <2>2, <2>3, NoneGoesOn, GoOnKeeps DEF Before
<1>2. CASE Answer
  <2>1. at = "answers" /\ at \in Before /\ at \in Looking /\ Given /\ scan.strategy = "catalyst"
    BY <1>2 DEF Answer, SInv, Places, Before, Looking
  <2>2. PICK rest, t :
          \/ \E s \in {o \in PeadSignals(t) \union RevisionSignals(t) : validate_signal(o)} \union InsiderSignals(t) :
                t \notin Tickers(found) /\ Take(s, rest)
          \/ PassOver(rest)
    BY <1>2 DEF Answer
  <2>3. CASE PassOver(rest)
    <3>1. at' = at
      BY <2>3 DEF PassOver
    <3>2. Pending'
      BY <2>1, <3>1 DEF Pending
    <3> QED BY <2>1, <2>3, <3>2, PassOverKeeps
  <2>4. ASSUME NEW s \in {o \in PeadSignals(t) \union RevisionSignals(t) : validate_signal(o)} \union InsiderSignals(t),
               t \notin Tickers(found), Take(s, rest)
        PROVE  SInv'
    <3>1. Sound(s) /\ s.from = "catalyst" /\ s.ticker = t
      BY <2>1, OffersAreSound
    <3>2. at' = at
      BY <2>4 DEF Take
    <3>3. Pending'
      BY <2>1, <3>2 DEF Pending
    <3>4. s.from = Source /\ s.ticker \notin Tickers(found) /\ s.ticker \notin Tickers(signals)
      BY <2>1, <2>4, <3>1, FoundIsGood
    <3> QED BY <2>1, <2>4, <3>1, <3>3, <3>4, TakeKeeps
  <2> QED BY <2>2, <2>3, <2>4
<1>3. CASE HearTheNews
  <2>1. at \in Before /\ scan.strategy = "catalyst"
    BY <1>3 DEF HearTheNews, SInv, Places, Before
  <2>2. PICK mood \in [DOMAIN found -> Moods] :
          GoOn("events", {t \in DOMAIN feed : feed[t] # <<>>}, [i \in DOMAIN found |-> Moved(found[i], mood[i])])
    BY <1>3 DEF HearTheNews
  <2>3. PICK list : list = [i \in DOMAIN found |-> Moved(found[i], mood[i])]
    OBVIOUS
  <2>4. PICK rest : rest = {t \in DOMAIN feed : feed[t] # <<>>}
    OBVIOUS
  <2>5. GoOn("events", rest, list)
    BY <2>2, <2>3, <2>4
  <2>6. at' = "events" /\ todo' = rest /\ feed' = feed /\ rest \subseteq DOMAIN feed
    BY <2>4, <2>5 DEF GoOn
  <2>7. Pending'
    BY <2>6 DEF Pending
  <2>8. GoodList(found, {scan.strategy}) /\ Total(found, scan.strategy) \in Nat
    BY <2>1, FoundIsGood
  <2>9. GoodList(list, {scan.strategy}) /\ Total(list, scan.strategy) = Total(found, scan.strategy)
    BY <2>3, <2>8, HeardIsGood
  <2>10. Total(list, scan.strategy) <= Total(found, scan.strategy)
    BY <2>8, <2>9
  <2> QED BY <2>1, <2>5, <2>7, <2>9, <2>10, GoOnKeeps DEF Before
<1>4. CASE Event
  <2>1. /\ at = "events" /\ at \in Before /\ at \in Looking /\ Given /\ scan.strategy = "catalyst"
        /\ todo \subseteq DOMAIN feed
    BY <1>4 DEF Event, SInv, Places, Pending, Before, Looking
  <2>2. PICK t \in todo :
          \/ t \notin Tickers(found) /\ Leaning(feed[t], DOMAIN feed[t]) # "none" /\ Take(FlowEvent(t), todo \ {t})
          \/ PassOver(todo \ {t})
    BY <1>4 DEF Event
  <2>3. CASE PassOver(todo \ {t})
    <3>1. at' = at /\ todo' = todo \ {t} /\ feed' = feed
      BY <2>3 DEF PassOver
    <3>2. Pending'
      BY <2>1, <3>1 DEF Pending
    <3> QED BY <2>1, <2>3, <3>2, PassOverKeeps
  <2>4. CASE t \notin Tickers(found) /\ Leaning(feed[t], DOMAIN feed[t]) # "none" /\ Take(FlowEvent(t), todo \ {t})
    <3>1. PICK plan : plan = FlowEvent(t)
      OBVIOUS
    <3>2. Sound(plan) /\ plan.from = "catalyst" /\ plan.ticker = t
      BY <2>1, <2>4, <3>1, EventSound
    <3>3. at' = at /\ todo' = todo \ {t} /\ feed' = feed
      BY <2>4, <3>1 DEF Take
    <3>4. Pending'
      BY <2>1, <3>3 DEF Pending
    <3>5. plan.from = Source /\ plan.ticker \notin Tickers(found) /\ plan.ticker \notin Tickers(signals)
      BY <2>1, <2>4, <3>2, FoundIsGood
    <3>6. Take(plan, todo \ {t})
      BY <2>4, <3>1
    <3> QED BY <2>1, <3>2, <3>4, <3>5, <3>6, TakeKeeps
  <2> QED BY <2>2, <2>3, <2>4
<1>5. CASE EndCatalyst
  <2>1. at \in Before /\ GoOn("end", {}, found)
    BY <1>5 DEF EndCatalyst, Before
  <2>2. Pending'
    BY <2>1 DEF GoOn, Pending
  <2>3. GoodList(found, {scan.strategy}) /\ Total(found, scan.strategy) <= Total(found, scan.strategy)
    BY <2>1, FoundIsGood
  <2> QED BY <2>1, <2>2, <2>3, GoOnKeeps DEF Before
<1> QED BY <1>1, <1>2, <1>3, <1>4, <1>5 DEF CatalystNext

LEMMA PairsStep == ASSUME SInv, PairsNext PROVE SInv'
<1>1. ASSUME NEW to \in {"pairs", "spreads"}, NEW rest, GoOn(to, rest, <<>>), at \in Before,
             scan.strategy = "stat_arb"
      PROVE  SInv'
  <2>1. Pending'
    BY <1>1 DEF GoOn, Pending
  <2> QED BY <1>1, <2>1, NoneGoesOn, GoOnKeeps DEF Before
<1>2. ASSUME NEW rest, PassOver(rest), at \in {"pairs", "spreads"} PROVE SInv'
  <2>1. Pending'
    BY <1>2 DEF PassOver, Pending
  <2> QED BY <1>2, <2>1, PassOverKeeps DEF Looking
<1>3. CASE BeginPairs
  <2>1. at \in Before /\ scan.strategy = "stat_arb"
    BY <1>3 DEF BeginPairs, Before
  <2>2. GoOn("pairs", Combinations, <<>>) \/ GoOn("spreads", feed, <<>>)
    BY <1>3 DEF BeginPairs
  <2> QED BY <1>1, <2>1, <2>2
<1>4. CASE FindPair
  <2>1. at = "pairs" /\ scan.strategy = "stat_arb"
    BY <1>4 DEF FindPair, SInv, Places
  <2>2. (\E rest : PassOver(rest)) \/ UNCHANGED <<scan, at, found, exposure, signals>>
    BY <1>4 DEF FindPair
  <2>3. CASE UNCHANGED <<scan, at, found, exposure, signals>>
    <3>1. Given' /\ Places'
      BY <2>1, <2>3 DEF SInv, Given, Places
    <3>2. Lists' /\ Apart'
      BY <2>3 DEF SInv, Lists, Apart, Source, MayHaveSignalled
    <3>3. Counted' /\ Kept'
      BY <2>3 DEF SInv, Counted, Kept, Source
    <3>4. Pending'
      BY <2>1, <2>3 DEF Pending
    <3> QED BY <3>1, <3>2, <3>3, <3>4 DEF SInv
  <2> QED BY <1>2, <2>1, <2>2, <2>3
<1>5. CASE EndPairs
  <2>1. at \in Before /\ scan.strategy = "stat_arb" /\ GoOn("spreads", feed, <<>>)
    BY <1>5 DEF EndPairs, Before, SInv, Places
  <2> QED BY <1>1, <2>1
<1>6. CASE EvaluatePair
  <2>1. at = "spreads" /\ \E rest : PassOver(rest)
    BY <1>6 DEF EvaluatePair
  <2> QED BY <1>2, <2>1
<1>7. CASE EndSpreads
  <2>1. at \in Before /\ GoOn("end", {}, found)
    BY <1>7 DEF EndSpreads, Before
  <2>2. Pending'
    BY <2>1 DEF GoOn, Pending
  <2>3. GoodList(found, {scan.strategy}) /\ Total(found, scan.strategy) <= Total(found, scan.strategy)
    BY <2>1, FoundIsGood
  <2> QED BY <2>1, <2>2, <2>3, GoOnKeeps DEF Before
<1> QED BY <1>3, <1>4, <1>5, <1>6, <1>7 DEF PairsNext
----------------------------------------------------------------------------
(* The scan's thread *)

\* With nothing found and no count, most of the invariant speaks of the signals only.
LEMMA NothingFound ==
    ASSUME SInv, UNCHANGED <<scan, feed>>, found' = <<>>, exposure' = 0, at' \in {"returned", "done"},
           GoodList(signals', MayHaveSignalled'), Kept'
    PROVE  SInv'
<1>1. Given'
  BY DEF SInv, Given
<1>2. Places'
  BY DEF Places, Before
<1>3. Lists' /\ Apart'
  BY NoneIsGood, Empty DEF Lists, Apart
<1>4. Pending'
  BY DEF Pending
<1>5. Counted'
  <2>1. Total(found', Source') = 0
    BY NoneIsGood
  <2> QED BY <2>1 DEF Counted, Before
<1> QED BY <1>1, <1>2, <1>3, <1>4, <1>5 DEF SInv

\* What a strategy has found is within the limit of its source, and no other source's.
LEMMA FoundIsKept ==
    ASSUME SInv, at \in Before, NEW source \in {"cross_asset", "flow", "news"}
    PROVE  Total(found, source) <= Limit(source) /\ 0 <= Limit(source)
<1>1. Limit("cross_asset") = 15000 /\ Limit("flow") = 13999 /\ Limit("news") = MaxFromNews * 6800
  BY DEF Limit
<1>2. 0 <= Limit(source)
  BY <1>1, NewsIsATable
<1>3. CASE source = scan.strategy
  <2>1. Total(found, source) <= exposure /\ exposure \in Nat /\ Total(found, source) \in Nat
    BY <1>3, FoundIsGood DEF SInv, Counted
  <2>2. source # "news"
    BY <1>3 DEF SInv, Given, Strategies
  <2>3. exposure <= Limit(source)
    BY <1>1, <1>3, <2>1, <2>2 DEF SInv, Counted
  <2>4. Limit(source) \in Nat
    BY <1>1, <2>2
  <2> QED BY <1>2, <2>1, <2>3, <2>4
<1>4. CASE source # scan.strategy
  <2>1. GoodList(found, {scan.strategy})
    BY FoundIsGood
  <2>2. Sized(found) /\ \A i \in DOMAIN found : found[i].from # source
    BY <1>4, <2>1, GoodIsSized DEF GoodList
  <2>3. Total(found, source) = 0
    BY <2>2, TotalIs
  <2> QED BY <1>2, <2>3
<1> QED BY <1>3, <1>4

LEMMA CollectStep == ASSUME SInv, Collect PROVE SInv'
<1>1. /\ at \in Before /\ at' = "returned" /\ signals' = found /\ found' = <<>> /\ exposure' = 0
      /\ UNCHANGED <<scan, feed>>
  BY DEF Collect, Before
<1>2. GoodList(signals', MayHaveSignalled')
  <2>1. MayHaveSignalled' = {scan.strategy}
    BY <1>1 DEF MayHaveSignalled
  <2> QED BY <1>1, <2>1, FoundIsGood
<1>3. Kept'
  <2>1. \A source \in {"cross_asset", "flow", "news"} : Total(found, source) <= Limit(source)
    BY <1>1, FoundIsKept
  <2> QED BY <1>1, <2>1 DEF Kept
<1> QED BY <1>1, <1>2, <1>3, NothingFound

LEMMA LoseStep == ASSUME SInv, Lose PROVE SInv'
<1>1. /\ at \in Before /\ at' = "returned" /\ found' = <<>> /\ exposure' = 0
      /\ UNCHANGED <<scan, feed, signals>>
  BY DEF Lose, SInv, Places
<1>2. signals' = <<>>
  BY <1>1, FoundIsGood
<1>3. GoodList(signals', MayHaveSignalled')
  BY <1>2, NoneIsGood
<1>4. Kept'
  BY <1>1 DEF SInv, Kept
<1> QED BY <1>1, <1>3, <1>4, NothingFound

\* The tickers the news may give a signal have none.
LEMMA ExtremeNewsIs ==
    ASSUME NEW cached \in CachedNews
    PROVE  /\ IsList(ExtremeNews(cached))
           /\ \A i, j \in DOMAIN ExtremeNews(cached) :
                ExtremeNews(cached)[i].ticker = ExtremeNews(cached)[j].ticker => i = j
           /\ \A i \in DOMAIN ExtremeNews(cached) :
                /\ ExtremeNews(cached)[i].mood \in Int
                /\ ExtremeNews(cached)[i].ticker \notin Tickers(signals)
<1>1. PICK places : places = {i \in DOMAIN cached : cached[i].ticker \notin Tickers(signals) /\ Extreme(cached[i])}
  OBVIOUS
<1>2. PICK key : key = [i \in places |-> Size(cached[i].mood - 50)]
  OBVIOUS
<1>3. PICK b : b = Best(2 * MaxFromNews, places, key)
  OBVIOUS
<1>4. /\ cached \in Seq([ticker : Tickers(cached), mood : Int])
      /\ \A i, j \in DOMAIN cached : cached[i].ticker = cached[j].ticker => i = j
  BY NewsIsATable
<1>5. DOMAIN cached = 1..Len(cached) /\ Len(cached) \in Nat /\ \A i \in DOMAIN cached : cached[i].mood \in Int
  <2>1. PICK R : R = [ticker : Tickers(cached), mood : Int]
    OBVIOUS
  <2>2. \A x \in R : x.mood \in Int
    BY <2>1
  <2>3. cached \in Seq(R)
    BY <1>4, <2>1
  <2>4. DOMAIN cached = 1..Len(cached) /\ Len(cached) \in Nat /\ cached \in [1..Len(cached) -> R]
    BY <2>3, LenProperties
  <2> QED BY <2>2, <2>4
<1>6. IsFiniteSet(places) /\ places \subseteq Nat
  <2>1. PICK n \in Nat : n = Len(cached)
    BY <1>5
  <2>2. IsFiniteSet(1..n) /\ 1..n \subseteq Nat
    <3>1. 1 \in Int /\ n \in Int
      OBVIOUS
    <3> QED BY <3>1, FS_Interval
  <2>3. places \in SUBSET (1..n)
    BY <1>1, <1>5, <2>1
  <2> QED BY <2>2, <2>3, FS_Subset
<1>7. \A i \in places : key[i] \in Int
  <2>1. \A i \in places : cached[i].mood - 50 \in Int /\ key[i] = Size(cached[i].mood - 50)
    BY <1>1, <1>2, <1>5
  <2> QED BY <2>1, SizeIs
<1>8. PICK n \in Nat : /\ DOMAIN b = 1..n
                       /\ \A m \in DOMAIN b : b[m] \in places
                       /\ \A m, o \in DOMAIN b : b[m] = b[o] => m = o
  <2>1. 2 * MaxFromNews \in Nat
    BY NewsIsATable
  <2>2. Chosen(b, Lesser(2 * MaxFromNews, Cardinality(places)), places)
    BY <1>3, <1>6, <1>7, <2>1, BestIs
  <2> QED BY <2>2 DEF Chosen
<1>9. PICK list : list = [m \in DOMAIN b |-> cached[b[m]]]
  OBVIOUS
<1>10. ExtremeNews(cached) = list
  BY <1>1, <1>2, <1>3, <1>9 DEF ExtremeNews, At
<1>11. IsList(list)
  <2>1. list \in [1..n -> {cached[b[m]] : m \in 1..n}]
    BY <1>8, <1>9
  <2> QED BY <2>1, ListOf
<1>12. \A m \in DOMAIN list : /\ list[m] = cached[b[m]] /\ b[m] \in DOMAIN cached
                              /\ cached[b[m]].ticker \notin Tickers(signals)
  BY <1>1, <1>8, <1>9
<1>13. \A i, j \in DOMAIN list : list[i].ticker = list[j].ticker => i = j
  BY <1>4, <1>8, <1>9, <1>12
<1>14. \A i \in DOMAIN list : list[i].mood \in Int /\ list[i].ticker \notin Tickers(signals)
  BY <1>5, <1>12
<1> QED BY <1>10, <1>11, <1>13, <1>14

LEMMA BeginNewsStep == ASSUME SInv, BeginNews PROVE SInv'
<1>1. PICK cached \in CachedNews : GoOn("news", ExtremeNews(cached), <<>>)
  BY DEF BeginNews
<1>2. PICK list : list = ExtremeNews(cached)
  OBVIOUS
<1>3. /\ at = "returned" /\ at' = "news" /\ todo' = list /\ found' = <<>>
      /\ UNCHANGED <<scan, feed, exposure, signals>> /\ exposure = 0
  BY <1>1, <1>2 DEF BeginNews, GoOn, SInv, Places
<1>4. Given' /\ Kept'
  BY <1>3 DEF SInv, Given, Kept
<1>5. Places'
  BY <1>3 DEF Places, Before
<1>6. Lists'
  <2>1. MayHaveSignalled' = MayHaveSignalled
    BY <1>3 DEF MayHaveSignalled
  <2> QED BY <1>3, <2>1, NoneIsGood DEF SInv, Lists
<1>7. Apart'
  BY <1>3, Empty DEF Apart
<1>8. Pending'
  <2>1. /\ IsList(list) /\ \A i, j \in DOMAIN list : list[i].ticker = list[j].ticker => i = j
        /\ \A i \in DOMAIN list : list[i].mood \in Int /\ list[i].ticker \notin Tickers(signals)
    BY <1>2, ExtremeNewsIs
  <2>2. Tickers(found') = {} /\ Tickers(signals') = Tickers(signals)
    BY <1>3, Empty
  <2> QED BY <1>3, <2>1, <2>2 DEF Pending
<1>9. Counted'
  <2>1. Total(found', Source') = 0 /\ Len(found') = 0
    BY <1>3, NoneIsGood, Empty
  <2> QED BY <1>3, <2>1, NewsIsATable DEF Counted, Before
<1> QED BY <1>4, <1>5, <1>6, <1>7, <1>8, <1>9 DEF SInv

LEMMA NewsStep == ASSUME SInv, News PROVE SInv'
<1>1. at = "news" /\ at \in Looking /\ todo # <<>> /\ Len(found) < MaxFromNews /\ Given
  BY DEF News, SInv, Looking
<1>2. /\ IsList(todo) /\ \A i, j \in DOMAIN todo : todo[i].ticker = todo[j].ticker => i = j
      /\ \A i \in DOMAIN todo : /\ todo[i].mood \in Int
                                /\ todo[i].ticker \notin Tickers(found) /\ todo[i].ticker \notin Tickers(signals)
  BY <1>1 DEF SInv, Pending
<1>3. PICK entry : entry = Head(todo)
  OBVIOUS
<1>4. PICK rest : rest = Tail(todo)
  OBVIOUS
<1>5. /\ IsList(rest) /\ 1 \in DOMAIN todo /\ entry = todo[1]
      /\ \A i \in DOMAIN rest : i + 1 \in DOMAIN todo /\ i # 0 /\ i \in Nat /\ rest[i] = todo[i + 1]
  BY <1>1, <1>2, <1>3, <1>4, RestOf
<1>6. /\ entry.mood \in Int /\ entry.ticker \notin Tickers(found) /\ entry.ticker \notin Tickers(signals)
      /\ \A i, j \in DOMAIN rest : rest[i].ticker = rest[j].ticker => i = j
      /\ \A i \in DOMAIN rest : /\ rest[i].mood \in Int /\ rest[i].ticker # entry.ticker
                                /\ rest[i].ticker \notin Tickers(found) /\ rest[i].ticker \notin Tickers(signals)
  BY <1>2, <1>5
<1>7. Take(NewsSignal(entry), rest) \/ PassOver(rest)
  BY <1>3, <1>4 DEF News
<1>8. CASE PassOver(rest)
  <2>1. at' = at /\ todo' = rest /\ found' = found /\ signals' = signals
    BY <1>8 DEF PassOver
  <2>2. Pending'
    BY <1>1, <1>5, <1>6, <2>1 DEF Pending
  <2> QED BY <1>1, <1>8, <2>2, PassOverKeeps
<1>9. CASE Take(NewsSignal(entry), rest)
  <2>1. PICK plan : plan = NewsSignal(entry)
    OBVIOUS
  <2>2. Sound(plan) /\ plan.from = "news" /\ plan.ticker = entry.ticker /\ plan.size <= 6800
    BY <1>1, <1>6, <2>1, NewsSound
  <2>3. at' = at /\ todo' = rest /\ found' = Append(found, plan) /\ signals' = signals
    BY <1>9, <2>1 DEF Take
  <2>4. Source = "news"
    BY <1>1 DEF Source
  <2>5. Tickers(found') = Tickers(found) \union {entry.ticker}
    <3>1. GoodList(found, {"news"})
      BY <2>4 DEF SInv, Lists
    <3> QED BY <1>6, <2>2, <2>3, <3>1, GoodAppend
  <2>6. Pending'
    BY <1>1, <1>5, <1>6, <2>3, <2>5 DEF Pending
  <2>7. plan.from = Source /\ plan.ticker \notin Tickers(found) /\ plan.ticker \notin Tickers(signals)
    BY <1>6, <2>2, <2>4
  <2>8. Take(plan, rest)
    BY <1>9, <2>1
  <2> QED BY <1>1, <2>2, <2>6, <2>7, <2>8, TakeKeeps
<1> QED BY <1>7, <1>8, <1>9

\* What the scan has, and what the news adds, are of different sources and tickers.
LEMMA AllIs ==
    ASSUME SInv
    PROVE  /\ GoodList(signals \o found, MayHaveSignalled \union {Source})
           /\ \A source \in {"cross_asset", "flow", "news"} : Total(signals \o found, source) <= Limit(source)
<1>1. GoodList(signals, MayHaveSignalled) /\ GoodList(found, {Source})
  BY DEF SInv, Lists
<1>2. Sized(signals) /\ Sized(found)
  BY <1>1, GoodIsSized
<1>3. GoodList(signals \o found, MayHaveSignalled \union {Source})
  BY <1>1, GoodJoin DEF SInv, Apart
<1>4. PICK a : a = signals \o found
  OBVIOUS
<1>5. ASSUME NEW source \in {"cross_asset", "flow", "news"}
      PROVE  Total(a, source) <= Limit(source)
  <2>1. Total(signals, source) <= Limit(source)
    BY DEF SInv, Kept
  <2>2. CASE \A i \in DOMAIN found : found[i].from # source
    <3>1. Total(a, source) = Total(signals, source)
      BY <1>2, <1>4, <2>2, TotalJoins
    <3> QED BY <2>1, <3>1
  <2>3. CASE ~(\A i \in DOMAIN found : found[i].from # source)
    <3>1. source = Source /\ DOMAIN found # {}
      BY <1>1, <2>3 DEF GoodList
    <3>2. found # <<>>
      BY <3>1, Empty
    <3>3. at = "news" \/ at \in Before
      BY <3>2 DEF SInv, Places
    <3>4. \A i \in DOMAIN signals : signals[i].from # source
      <4>1. CASE at = "news"
        <5>1. source = "news" /\ MayHaveSignalled = {scan.strategy} /\ scan.strategy # "news"
          BY <3>1, <4>1 DEF Source, MayHaveSignalled, SInv, Given, Strategies
        <5> QED BY <1>1, <5>1 DEF GoodList
      <4>2. CASE at \in Before
        BY <4>2, FoundIsGood, Empty
      <4> QED BY <3>3, <4>1, <4>2
    <3>5. Total(a, source) = Total(found, source)
      BY <1>2, <1>4, <3>4, TotalJoins
    <3>6. CASE at \in Before
      BY <3>5, <3>6, FoundIsKept
    <3>7. CASE at = "news"
      <4>1. source = "news"
        BY <3>1, <3>7 DEF Source
      <4>2. PICK n \in Nat : n = Len(found)
        BY <1>1, ListParts DEF GoodList
      <4>3. /\ Total(found, source) <= exposure /\ exposure \in Nat /\ Total(found, source) \in Nat
            /\ n <= MaxFromNews /\ exposure <= n * 6800
        BY <1>2, <3>1, <3>7, <4>2, TotalIs DEF SInv, Counted
      <4>4. Limit(source) = MaxFromNews * 6800 /\ MaxFromNews \in Nat
        BY <4>1, NewsIsATable DEF Limit
      <4>5. Total(found, source) <= Limit(source)
        BY <4>3, <4>4
      <4> QED BY <3>5, <4>5
    <3> QED BY <3>3, <3>6, <3>7
  <2> QED BY <2>2, <2>3
<1> QED BY <1>3, <1>4, <1>5

LEMMA EndNewsStep == ASSUME SInv, EndNews PROVE SInv'
<1>1. /\ at = "news" /\ at' = "done" /\ found' = <<>> /\ exposure' = 0 /\ UNCHANGED <<scan, feed>>
      /\ signals' = signals \o found \/ signals' = signals
  BY DEF EndNews
<1>2. MayHaveSignalled' = MayHaveSignalled \union {Source}
  BY <1>1 DEF MayHaveSignalled, Source
<1>3. CASE signals' = signals \o found
  <2>1. GoodList(signals', MayHaveSignalled') /\ Kept'
    BY <1>1, <1>2, <1>3, AllIs DEF Kept
  <2> QED BY <1>1, <2>1, NothingFound
<1>4. CASE signals' = signals
  <2>1. GoodList(signals', MayHaveSignalled')
    BY <1>2, <1>4 DEF SInv, Lists, GoodList
  <2>2. Kept'
    BY <1>4 DEF SInv, Kept
  <2> QED BY <1>1, <2>1, <2>2, NothingFound
<1> QED BY <1>1, <1>3, <1>4

LEMMA MarketInitInv == MarketInit => SInv
<1> SUFFICES ASSUME MarketInit PROVE SInv
  OBVIOUS
<1>1. PICK s \in DOMAIN Feeds, x \in Settings :
         /\ scan = [strategy |-> s, vix |-> x.vix, average |-> x.average, sizing |-> x.sizing, atr |-> x.atr]
         /\ feed \in Feeds[s]
  BY DEF MarketInit
<1>2. at = "begin" /\ todo = {} /\ exposure = 0 /\ found = <<>> /\ signals = <<>>
  BY DEF MarketInit
<1>3. /\ scan.strategy = s /\ scan.vix = x.vix /\ scan.average = x.average
      /\ scan.sizing = x.sizing /\ scan.atr = x.atr
  BY <1>1
<1>4. s \in Strategies
  BY DEF Feeds, Strategies
<1>5. (s = "cross_asset" => feed \in Readings) /\ (s \in {"flow", "catalyst"} => feed \in SweepsFound)
  BY <1>1 DEF Feeds
<1>6. Given
  BY <1>3, <1>4, <1>5 DEF Given
<1>7. Places
  BY <1>2 DEF Places, Before
<1>8. Lists /\ Apart
  BY <1>2, NoneIsGood, Empty DEF Lists, Apart
<1>9. Pending
  BY <1>2 DEF Pending
<1>10. Counted
  <2>1. Total(found, Source) = 0
    BY <1>2, NoneIsGood
  <2> QED BY <1>2, <2>1 DEF Counted
<1>11. Kept
  <2>1. \A source \in {"cross_asset", "flow", "news"} : Total(signals, source) = 0
    BY <1>2, NoneIsGood
  <2> QED BY <2>1, NewsIsATable DEF Kept, Limit
<1> QED BY <1>6, <1>7, <1>8, <1>9, <1>10, <1>11 DEF SInv

LEMMA MarketStep == SInv /\ [MarketNext]_marketVars => SInv'
<1> SUFFICES ASSUME SInv, [MarketNext]_marketVars PROVE SInv'
  OBVIOUS
<1>1. CASE UNCHANGED marketVars
  <2>1. UNCHANGED <<scan, feed, at, todo, found, exposure, signals>>
    BY <1>1 DEF marketVars
  <2>2. Given' /\ Places' /\ Pending'
    BY <2>1 DEF SInv, Given, Places, Pending
  <2>3. Lists' /\ Apart'
    BY <2>1 DEF SInv, Lists, Apart, Source, MayHaveSignalled
  <2>4. Counted' /\ Kept'
    BY <2>1 DEF SInv, Counted, Kept, Source
  <2> QED BY <2>2, <2>3, <2>4 DEF SInv
<1> QED BY <1>1, RotationStep, FlowStep, CatalystStep, PairsStep, CollectStep, LoseStep,
           BeginNewsStep, NewsStep, EndNewsStep DEF MarketNext

LEMMA MarketInvariance == MarketSpec => []SInv
BY MarketInitInv, MarketStep, PTL DEF MarketSpec

\* Whatever the markets, the votes, the sweeps, the scores and the news, sector rotation
\* never puts on more than 15 % of the portfolio, flow trades no more than their 10 % and
\* one position, and the news no more than its few trades at the largest scale.
\* (_generate_sector_trades, generate_signals of the flow strategy, _generate_sentiment_signals)
THEOREM ExposureStaysBounded == MarketSpec => []ExposureBounded
<1>1. SInv => ExposureBounded
  <2> SUFFICES ASSUME SInv PROVE ExposureBounded
    OBVIOUS
  <2>1. \A source \in {"cross_asset", "flow", "news"} : Total(All, source) <= Limit(source)
    BY AllIs DEF All
  <2>2. Limit("cross_asset") = 15000 /\ Limit("flow") = 13999 /\ Limit("news") = MaxFromNews * 6800
    BY DEF Limit
  <2>3. Total(All, "flow") \in Nat
    <3>1. GoodList(All, MayHaveSignalled \union {Source})
      BY AllIs DEF All
    <3>2. Sized(All)
      BY <3>1, GoodIsSized
    <3> QED BY <3>2, TotalIs
  <2> QED BY <2>1, <2>2, <2>3 DEF ExposureBounded
<1> QED BY <1>1, MarketInvariance, PTL

\* In any order of the answers, and however often a ticker is picked, swept or talked
\* about, no ticker has two signals, and every stop and target is on its side of the
\* price, for any VIX, average and daily range.
\* (seen, dp_tickers, existing_tickers; compute_stop and the targets)
THEOREM PlansAlwaysStand == MarketSpec => []PlansStand
<1>1. SInv => PlansStand
  <2> SUFFICES ASSUME SInv PROVE PlansStand
    OBVIOUS
  <2>1. PICK a : a = All
    OBVIOUS
  <2>2. GoodList(a, MayHaveSignalled \union {Source})
    BY <2>1, AllIs DEF All
  <2>3. \A i \in DOMAIN a : Stands(a[i])
    BY <2>2 DEF GoodList, Sound
  <2>4. \A i, j \in DOMAIN a : a[i].ticker = a[j].ticker => i = j
    BY <2>2 DEF GoodList
  <2> QED BY <2>1, <2>3, <2>4 DEF PlansStand, IsInjective, Stands
<1> QED BY <1>1, MarketInvariance, PTL

=============================================================================
